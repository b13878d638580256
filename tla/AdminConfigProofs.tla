------------------------- MODULE AdminConfigProofs --------------------------
(***************************************************************************)
(* Proofs for AclRules and AdminConfig: what adding and removing rules     *)
(* makes of the list and of the decisions taken from it; that the file     *)
(* follows the memory; and that the rules stay in order everywhere.  Then  *)
(* for AllocationLifetime, which shares no state with them: that neither   *)
(* an allocation nor a binding outlives what was granted.                  *)
(***************************************************************************)
EXTENDS AdminConfig, AllocationLifetime, FiniteSetTheorems, TLAPS
-----------------------------------------------------------------------------
(* The rules of the ACL                                                    *)

\* How many of the positions in keep come before i.
Rank(keep, i) == Cardinality({j \in keep : j < i})

\* The first n numbers are n.
LEMMA UpTo ==
    ASSUME NEW n \in Nat
    PROVE  /\ IsFiniteSet(1..n) /\ Cardinality(1..n) = n
           /\ IsFiniteSet(0..(n - 1)) /\ Cardinality(0..(n - 1)) = n
  BY FS_Interval

\* Among the positions to keep, the rank orders them and takes every value below their number.
LEMMA Ranks ==
    ASSUME NEW keep \in SUBSET Nat, IsFiniteSet(keep)
    PROVE  /\ Cardinality(keep) \in Nat
           /\ \A i \in keep : Rank(keep, i) \in 0..(Cardinality(keep) - 1)
           /\ \A i, k \in keep : i < k => Rank(keep, i) < Rank(keep, k)
           /\ \A n \in 0..(Cardinality(keep) - 1) : \E i \in keep : Rank(keep, i) = n
<1> DEFINE size == Cardinality(keep)
           before(i) == {j \in keep : j < i}
           rank == [i \in keep |-> Rank(keep, i)]
           ranks == {rank[i] : i \in keep}
<1>1. size \in Nat /\ \A j \in keep : j \in Nat
  BY FS_CardinalityType
<1>2. ASSUME NEW i \in keep
      PROVE  IsFiniteSet(before(i)) /\ Rank(keep, i) \in Nat /\ Rank(keep, i) < size
  BY <1>2, FS_RemoveElement, FS_Subset, FS_CardinalityType, <1>1 DEF Rank
<1>3. ASSUME NEW i \in keep, NEW k \in keep, i < k
      PROVE  Rank(keep, i) < Rank(keep, k)
  <2>1. before(i) \in SUBSET before(k) /\ i \in before(k) /\ i \notin before(i)
    <3>1. i \in Nat /\ k \in Nat
      BY <1>1
    <3>2. ASSUME NEW j \in before(i) PROVE j \in before(k)
      BY <1>1, <1>3, <3>1
    <3>3. i \in before(k) /\ i \notin before(i)
      BY <1>3, <3>1
    <3>4. QED
      BY <3>2, <3>3, Zenon
  <2>2. Cardinality(before(i)) <= Cardinality(before(k)) /\ Cardinality(before(i)) # Cardinality(before(k))
    BY <1>2, <2>1, FS_Subset
  <2>3. QED
    BY <1>2, <2>2 DEF Rank
<1>4. rank \in Bijection(keep, ranks)
  <2>1. \A i, k \in keep : rank[i] = rank[k] => i = k
    <3> SUFFICES ASSUME NEW i \in keep, NEW k \in keep, i # k PROVE rank[i] # rank[k]
      OBVIOUS
    <3>1. i < k \/ k < i
      BY <1>1
    <3>2. rank[i] < rank[k] \/ rank[k] < rank[i]
      BY <1>3, <3>1
    <3>3. rank[i] \in Nat /\ rank[k] \in Nat
      BY <1>2, Zenon
    <3>4. QED
      BY <3>2, <3>3
  <2>2. rank \in [keep -> ranks] /\ \A r \in ranks : \E i \in keep : rank[i] = r
    OBVIOUS
  <2>3. QED
    <3> HIDE DEF rank, ranks
    <3>1. rank \in Injection(keep, ranks)
      BY <2>1, <2>2 DEF Injection, IsInjective
    <3>2. rank \in Surjection(keep, ranks)
      BY <2>2 DEF Surjection
    <3>3. QED
      BY <3>1, <3>2 DEF Bijection
<1>5. Cardinality(ranks) = size
  BY <1>4, FS_Bijection DEF ExistsBijection
<1>6. ranks \in SUBSET (0..(size - 1)) /\ IsFiniteSet(0..(size - 1)) /\ Cardinality(0..(size - 1)) = size
  <2>1. \A i \in keep : rank[i] \in 0..(size - 1)
    <3> SUFFICES ASSUME NEW i \in keep PROVE rank[i] \in 0..(size - 1)
      OBVIOUS
    <3>1. rank[i] \in Nat /\ rank[i] < size
      BY <1>2, Zenon
    <3>2. QED
      BY <1>1, <3>1
  <2>2. IsFiniteSet(0..(size - 1)) /\ Cardinality(0..(size - 1)) = size
    BY <1>1, UpTo
  <2>3. QED
    BY <2>1, <2>2
<1>7. ranks = 0..(size - 1)
  BY <1>5, <1>6, FS_Subset, Zenon
<1>8. QED
  BY <1>1, <1>2, <1>3, <1>7

\* f lists the elements of part in increasing order.
Lists(f, part) ==
    /\ f \in [1..Cardinality(part) -> part]
    /\ \A m, n \in 1..Cardinality(part) : m < n => f[m] < f[n]
    /\ \A i \in part : \E n \in 1..Cardinality(part) : f[n] = i

\* What is retained of a list are its elements at the positions to keep, in their order.
LEMMA RetainedKeepsOrder ==
    ASSUME NEW S, NEW rules \in Seq(S), NEW keep \in SUBSET (1..Len(rules))
    PROVE  /\ Retained(rules, keep) \in Seq(S)
           /\ Len(Retained(rules, keep)) = Cardinality(keep)
           /\ \E at : Lists(at, keep) /\ \A n \in 1..Cardinality(keep) : Retained(rules, keep)[n] = rules[at[n]]
<1> DEFINE size == Cardinality(keep)
           at == [n \in 1..size |-> CHOOSE i \in keep : Rank(keep, i) = n - 1]
<1>1. Len(rules) \in Nat /\ keep \in SUBSET Nat /\ IsFiniteSet(keep)
  <2>1. Len(rules) \in Nat
    OBVIOUS
  <2>2. IsFiniteSet(1..Len(rules))
    BY <2>1, UpTo
  <2>3. IsFiniteSet(keep)
    BY <2>2, FS_Subset, Zenon
  <2>4. QED
    BY <2>1, <2>3
<1>2. /\ size \in Nat
      /\ \A i \in keep : Rank(keep, i) \in 0..(size - 1)
      /\ \A i, k \in keep : i < k => Rank(keep, i) < Rank(keep, k)
      /\ \A n \in 0..(size - 1) : \E i \in keep : Rank(keep, i) = n
  BY <1>1, Ranks
<1>3. \A n \in 1..size : at[n] \in keep /\ Rank(keep, at[n]) = n - 1
  <2> SUFFICES ASSUME NEW n \in 1..size PROVE at[n] \in keep /\ Rank(keep, at[n]) = n - 1
    OBVIOUS
  <2>1. n - 1 \in 0..(size - 1)
    BY <1>2
  <2>2. \E i \in keep : Rank(keep, i) = n - 1
    BY <1>2, <2>1
  <2>3. QED
    BY <2>2
<1>4. at \in [1..size -> keep]
  BY <1>3
<1>5. Retained(rules, keep) = [n \in 1..size |-> rules[at[n]]]
  BY DEF Retained, Rank
<1>6. \A n \in 1..size : rules[at[n]] \in S
  <2> SUFFICES ASSUME NEW n \in 1..size PROVE rules[at[n]] \in S
    BY Zenon
  <2>1. at[n] \in 1..Len(rules)
    BY <1>3, Zenon
  <2>2. QED
    BY <2>1
<1>7. Retained(rules, keep) \in Seq(S) /\ Len(Retained(rules, keep)) = size
  <2> HIDE DEF at, size
  <2>1. [n \in 1..size |-> rules[at[n]]] \in Seq(S) /\ Len([n \in 1..size |-> rules[at[n]]]) = size
    BY <1>2, <1>6
  <2>2. QED
    BY <1>5, <2>1, Zenon
<1>8. ASSUME NEW m \in 1..size, NEW n \in 1..size, m < n
      PROVE  at[m] < at[n]
  <2>1. at[m] \in Nat /\ at[n] \in Nat /\ Rank(keep, at[m]) < Rank(keep, at[n])
    <3>1. at[m] \in keep /\ Rank(keep, at[m]) = m - 1 /\ at[n] \in keep /\ Rank(keep, at[n]) = n - 1
      BY <1>3
    <3>2. m - 1 < n - 1
      BY <1>2, <1>8
    <3>3. QED
      BY <1>1, <3>1, <3>2, Zenon
  <2>2. ~(at[n] < at[m]) /\ at[n] # at[m]
    BY <1>2, <1>3, <2>1
  <2>3. QED
    BY <2>1, <2>2
<1>9. ASSUME NEW i \in keep
      PROVE  \E n \in 1..size : at[n] = i
  <2>1. Rank(keep, i) + 1 \in 1..size
    BY <1>2
  <2>2. at[Rank(keep, i) + 1] \in keep /\ Rank(keep, at[Rank(keep, i) + 1]) = Rank(keep, i)
    BY <1>2, <1>3, <2>1
  <2>3. at[Rank(keep, i) + 1] = i
    BY <1>1, <1>2, <2>2
  <2>4. QED
    BY <2>1, <2>3
<1>10. Lists(at, keep)
  BY <1>4, <1>8, <1>9 DEF Lists
<1>11. \A n \in 1..size : Retained(rules, keep)[n] = rules[at[n]]
  BY <1>5
<1>12. QED
  BY <1>7, <1>10, <1>11, Zenon

\* Retaining rules leaves them in the order of their priorities.
LEMMA RetainedOrdered ==
    ASSUME NEW S, \A q \in S : q.priority \in Nat, NEW rules \in Seq(S), Ordered(rules),
           NEW keep \in SUBSET (1..Len(rules))
    PROVE  Ordered(Retained(rules, keep))
<1> DEFINE size == Cardinality(keep)
           kept == Retained(rules, keep)
<1>1. PICK at : Lists(at, keep) /\ \A n \in 1..size : kept[n] = rules[at[n]]
  BY RetainedKeepsOrder, Zenon
<1>2. Len(kept) = size
  BY RetainedKeepsOrder, Zenon
<1>3. SUFFICES ASSUME NEW m \in 1..size, NEW n \in 1..size, m < n
               PROVE  kept[m].priority >= kept[n].priority
  BY <1>2 DEF Ordered
<1>4. at[m] \in 1..Len(rules) /\ at[n] \in 1..Len(rules) /\ at[m] < at[n]
  BY <1>1, <1>3, Zenon DEF Lists
<1>5. rules[at[m]].priority >= rules[at[n]].priority
  BY <1>4 DEF Ordered
<1>6. QED
  BY <1>1, <1>5

\* W is the list with r put behind its first k rules, which are those that are not below r.
PutBehind(W, rules, r, k) ==
    /\ \A i \in 1..Len(rules) : i <= k <=> rules[i].priority >= r.priority
    /\ \A n \in 1..k : W[n] = rules[n]
    /\ W[k + 1] = r
    /\ \A n \in (k + 2)..(Len(rules) + 1) : W[n] = rules[n - 1]

\* Where the elements of an ordered list stand after add_acl_rule: the rule is put between those
\* that are not below it and those that are.
LEMMA WithRulePlaces ==
    ASSUME NEW S, \A q \in S : q.priority \in Nat, NEW rules \in Seq(S), Ordered(rules), NEW r \in S
    PROVE  /\ WithRule(rules, r) \in Seq(S)
           /\ Len(WithRule(rules, r)) = Len(rules) + 1
           /\ \E k \in 0..Len(rules) : PutBehind(WithRule(rules, r), rules, r, k)
<1> DEFINE N == {i \in 1..Len(rules) : rules[i].priority >= r.priority}
           k == Cardinality(N)
           A == SubSeq(rules, 1, k)
           B == SubSeq(rules, k + 1, Len(rules))
           W == WithRule(rules, r)
<1>1. Len(rules) \in Nat /\ N \in SUBSET (1..Len(rules))
  OBVIOUS
<1>2. IsFiniteSet(N) /\ k \in 0..Len(rules)
  BY <1>1, UpTo, FS_Subset, FS_CardinalityType
<1>3. ASSUME NEW i \in N PROVE i \in 1..k
  <2>1. 1..i \in SUBSET N
    <3> SUFFICES ASSUME NEW j \in 1..i, j # i PROVE j \in N
      OBVIOUS
    <3>1. i \in 1..Len(rules) /\ j \in 1..Len(rules) /\ j < i
      BY <1>1
    <3>2. rules[j].priority >= rules[i].priority /\ rules[i].priority >= r.priority
      BY <3>1 DEF Ordered
    <3>3. rules[j].priority \in Nat /\ rules[i].priority \in Nat /\ r.priority \in Nat
      BY <3>1
    <3>4. QED
      BY <3>1, <3>2, <3>3
  <2>2. i \in Nat /\ i >= 1
    BY <1>1
  <2>3. Cardinality(1..i) = i
    BY <2>2, UpTo
  <2>4. i <= k
    BY <1>2, <2>1, <2>3, FS_Subset
  <2>5. QED
    BY <1>2, <2>2, <2>4
<1>4. N = 1..k
  <2>1. IsFiniteSet(1..k) /\ Cardinality(1..k) = k
    BY <1>1, <1>2, UpTo
  <2>2. N \in SUBSET (1..k)
    BY <1>3
  <2>3. QED
    BY <2>1, <2>2, FS_Subset, Zenon
<1>5. \A i \in 1..Len(rules) : i <= k <=> rules[i].priority >= r.priority
  <2> SUFFICES ASSUME NEW i \in 1..Len(rules) PROVE i <= k <=> i \in N
    OBVIOUS
  <2>1. i <= k <=> i \in 1..k
    BY <1>2
  <2>2. QED
    BY <1>4, <2>1
<1>6. W = (A \o <<r>>) \o B
  BY DEF WithRule
<1> HIDE DEF N, k, W
<1>7. /\ A \in Seq(S) /\ Len(A) = k /\ \A n \in 1..k : A[n] = rules[n]
      /\ B \in Seq(S) /\ Len(B) = Len(rules) - k /\ \A n \in 1..(Len(rules) - k) : B[n] = rules[n + k]
  BY <1>1, <1>2
<1> HIDE DEF A, B
<1> DEFINE C == A \o <<r>>
<1>8. C \in Seq(S) /\ Len(C) = k + 1 /\ (\A n \in 1..k : C[n] = rules[n]) /\ C[k + 1] = r
  <2>1. k \in Nat
    BY <1>1, <1>2
  <2>2. C \in Seq(S) /\ Len(C) = Len(A) + 1 /\ (\A n \in 1..Len(A) : C[n] = A[n]) /\ C[Len(A) + 1] = r
    BY <1>7
  <2> HIDE DEF C
  <2>3. QED
    BY <1>7, <2>1, <2>2
<1> HIDE DEF C
<1>9. W = C \o B
  BY <1>6 DEF C
<1>10. W \in Seq(S) /\ Len(W) = Len(rules) + 1
  <2>1. B \in Seq(S) /\ C \in Seq(S)
    BY <1>7, <1>8
  <2>2. W \in Seq(S) /\ Len(W) = Len(C) + Len(B)
    BY <1>9, <2>1
  <2>3. QED
    BY <1>1, <1>2, <1>7, <1>8, <2>2
<1>11. (\A n \in 1..k : W[n] = rules[n]) /\ W[k + 1] = r
  BY <1>2, <1>7, <1>8, <1>9
<1>12. ASSUME NEW n \in (k + 2)..(Len(rules) + 1)
       PROVE  W[n] = rules[n - 1]
  <2>1. n - (k + 1) \in 1..(Len(rules) - k) /\ (n - (k + 1)) + k = n - 1
    BY <1>1, <1>2
  <2>2. W[n] = B[n - (k + 1)]
    BY <1>1, <1>2, <1>7, <1>8, <1>9
  <2>3. QED
    BY <1>7, <2>1, <2>2, ZenonT(30)
<1>13. PutBehind(W, rules, r, k)
  BY <1>5, <1>11, <1>12 DEF PutBehind, N
<1>14. QED
  BY <1>2, <1>10, <1>13 DEF W

\* add_acl_rule keeps an ordered list ordered.
LEMMA WithRuleOrdered ==
    ASSUME NEW S, \A q \in S : q.priority \in Nat, NEW rules \in Seq(S), Ordered(rules), NEW r \in S
    PROVE  WithRule(rules, r) \in Seq(S) /\ Ordered(WithRule(rules, r))
<1> DEFINE W == WithRule(rules, r)
<1>1. W \in Seq(S) /\ Len(W) = Len(rules) + 1 /\ Len(rules) \in Nat
  BY WithRulePlaces
<1>2. PICK k \in 0..Len(rules) : PutBehind(W, rules, r, k)
  BY WithRulePlaces
<1> USE DEF PutBehind
<1> HIDE DEF W
<1>3. \A i \in 1..Len(rules) : rules[i].priority \in Nat
  OBVIOUS
<1>4. ASSUME NEW m \in 1..Len(W), NEW n \in 1..Len(W), m < n
      PROVE  W[m].priority >= W[n].priority
  <2>1. CASE n <= k
    <3>1. m \in 1..k /\ n \in 1..k /\ m \in 1..Len(rules) /\ n \in 1..Len(rules)
      BY <1>1, <1>4, <2>1
    <3>2. QED
      BY <1>2, <1>4, <3>1, ZenonT(30) DEF Ordered
  <2>2. CASE m <= k /\ n = k + 1
    <3>1. m \in 1..k /\ m \in 1..Len(rules)
      BY <1>1, <2>2
    <3>2. QED
      BY <1>2, <2>2, <3>1
  <2>3. CASE m <= k /\ n > k + 1
    <3>1. m \in 1..k /\ m \in 1..Len(rules) /\ n \in (k + 2)..(Len(rules) + 1) /\ n - 1 \in 1..Len(rules) /\ m < n - 1
      BY <1>1, <2>3
    <3>2. W[m] = rules[m] /\ W[n] = rules[n - 1]
      BY <1>2, <3>1
    <3>3. QED
      BY <3>1, <3>2 DEF Ordered
  <2>4. CASE m = k + 1
    <3>1. n \in (k + 2)..(Len(rules) + 1) /\ n - 1 \in 1..Len(rules) /\ ~(n - 1 <= k)
      BY <1>1, <1>4, <2>4
    <3>2. W[n] = rules[n - 1] /\ ~(rules[n - 1].priority >= r.priority) /\ W[m] = r
      BY <1>2, <2>4, <3>1
    <3>3. QED
      BY <1>3, <3>1, <3>2
  <2>5. CASE m > k + 1
    <3>1. /\ m \in (k + 2)..(Len(rules) + 1) /\ n \in (k + 2)..(Len(rules) + 1)
          /\ m - 1 \in 1..Len(rules) /\ n - 1 \in 1..Len(rules) /\ m - 1 < n - 1
      BY <1>1, <1>4, <2>5
    <3>2. W[m] = rules[m - 1] /\ W[n] = rules[n - 1]
      BY <1>2, <3>1
    <3>3. QED
      BY <3>1, <3>2, ZenonT(30) DEF Ordered
  <2>6. QED
    BY <1>1, <1>4, <2>1, <2>2, <2>3, <2>4, <2>5
<1>5. QED
  BY <1>1, <1>4 DEF Ordered, W

\* The positions of the rules that match c.
Matching(rules, c) == {i \in 1..Len(rules) : c \in rules[i].match}

\* The rules that match c in t are those that match c in s, in the same order.
SameMatches(t, s, c, f) ==
    /\ \A n \in Matching(t, c) : f[n] \in Matching(s, c) /\ t[n] = s[f[n]]
    /\ \A m, n \in Matching(t, c) : m < n => f[m] < f[n]
    /\ \A i \in Matching(s, c) : \E n \in Matching(t, c) : f[n] = i

\* Two lists in which the same rules match c, in the same order, decide alike.
LEMMA SameDecision ==
    ASSUME NEW s, NEW t, NEW c, NEW f, SameMatches(t, s, c, f)
    PROVE  Admits(t, c) <=> Admits(s, c)
<1> USE DEF SameMatches
<1>1. Matching(s, c) \subseteq Nat /\ Matching(t, c) \subseteq Nat
  BY DEF Matching
<1>2. ASSUME Admits(t, c), NEW i \in Matching(s, c), \A j \in Matching(s, c) : i <= j
      PROVE  s[i].allow
  <2>1. PICK n \in Matching(t, c) : f[n] = i
    OBVIOUS
  <2>2. ASSUME NEW m \in Matching(t, c) PROVE n <= m
    BY <2>2, <1>1, <1>2, <2>1
  <2>3. t[n].allow
    BY <1>2, <2>2 DEF Admits, Matching
  <2>4. QED
    BY <2>1, <2>3
<1>3. ASSUME Admits(s, c), NEW n \in Matching(t, c), \A m \in Matching(t, c) : n <= m
      PROVE  t[n].allow
  <2>1. f[n] \in Matching(s, c) /\ t[n] = s[f[n]]
    OBVIOUS
  <2>2. ASSUME NEW j \in Matching(s, c) PROVE f[n] <= j
    BY <2>2, <1>1, <1>3, <2>1
  <2>3. s[f[n]].allow
    BY <1>3, <2>1, <2>2 DEF Admits, Matching
  <2>4. QED
    BY <2>1, <2>3
<1>4. QED
  BY <1>2, <1>3 DEF Admits, Matching

\* Removing rules that do not match client c never changes whether check_acl
\* admits c, whatever else the list holds.
THEOREM RetainedAdmits ==
    ASSUME NEW S, NEW rules \in Seq(S), NEW keep \in SUBSET (1..Len(rules)), NEW c,
           \A i \in 1..Len(rules) : c \in rules[i].match => i \in keep
    PROVE  Admits(Retained(rules, keep), c) <=> Admits(rules, c)
<1> DEFINE t == Retained(rules, keep)
           size == Cardinality(keep)
<1>1. t \in Seq(S) /\ Len(t) = size
  BY RetainedKeepsOrder
<1>2. PICK at : Lists(at, keep) /\ \A n \in 1..size : t[n] = rules[at[n]]
  BY RetainedKeepsOrder, Zenon
<1> HIDE DEF t, size
<1>3. \A n \in 1..size : at[n] \in 1..Len(rules) /\ t[n] = rules[at[n]]
  BY <1>2, Zenon DEF Lists, size
<1>4. \A n \in Matching(t, c) : n \in 1..size /\ at[n] \in Matching(rules, c) /\ t[n] = rules[at[n]]
  BY <1>1, <1>3 DEF Matching
<1>5. \A m, n \in Matching(t, c) : m < n => at[m] < at[n]
  BY <1>2, <1>4 DEF Lists, size
<1>6. ASSUME NEW i \in Matching(rules, c) PROVE \E n \in Matching(t, c) : at[n] = i
  BY <1>6, <1>2, <1>1, <1>3 DEF Matching, Lists, size
<1>7. SameMatches(t, rules, c, at)
  BY <1>4, <1>5, <1>6 DEF SameMatches
<1>8. QED
  BY <1>7, SameDecision DEF t

\* Adding a rule that does not match client c, the sort behind the push
\* included, never changes whether check_acl admits c, when the list was ordered.
THEOREM WithRuleAdmits ==
    ASSUME NEW S, \A q \in S : q.priority \in Nat, NEW rules \in Seq(S), Ordered(rules),
           NEW r \in S, NEW c, c \notin r.match
    PROVE  Admits(WithRule(rules, r), c) <=> Admits(rules, c)
<1> DEFINE W == WithRule(rules, r)
<1>1. W \in Seq(S) /\ Len(W) = Len(rules) + 1 /\ Len(rules) \in Nat
  BY WithRulePlaces
<1>2. PICK k \in 0..Len(rules) : PutBehind(W, rules, r, k)
  BY WithRulePlaces, ZenonT(30)
<1> USE DEF PutBehind
<1> HIDE DEF W
<1> DEFINE at == [n \in 1..(Len(rules) + 1) |-> IF n <= k THEN n ELSE n - 1]
<1>3. ASSUME NEW n \in Matching(W, c)
      PROVE  /\ n \in 1..(Len(rules) + 1) /\ n # k + 1
             /\ at[n] \in Matching(rules, c) /\ W[n] = rules[at[n]]
  <2>1. n \in 1..(Len(rules) + 1) /\ c \in W[n].match /\ n # k + 1
    BY <1>1, <1>2 DEF Matching
  <2>2. CASE n <= k
    <3>1. n \in 1..k /\ at[n] = n /\ n \in 1..Len(rules)
      BY <1>1, <2>1, <2>2
    <3>2. QED
      BY <1>2, <2>1, <3>1 DEF Matching
  <2>3. CASE n > k + 1
    <3>1. n \in (k + 2)..(Len(rules) + 1) /\ at[n] = n - 1 /\ n - 1 \in 1..Len(rules)
      BY <1>1, <2>1, <2>3
    <3>2. QED
      BY <1>2, <2>1, <3>1 DEF Matching
  <2>4. QED
    BY <2>1, <2>2, <2>3
<1>4. ASSUME NEW m \in Matching(W, c), NEW n \in Matching(W, c), m < n
      PROVE  at[m] < at[n]
  <2>1. m \in 1..(Len(rules) + 1) /\ m # k + 1 /\ n \in 1..(Len(rules) + 1) /\ n # k + 1
    BY <1>3, Zenon
  <2>2. at[m] = (IF m <= k THEN m ELSE m - 1) /\ at[n] = (IF n <= k THEN n ELSE n - 1)
    BY <2>1, Zenon
  <2> HIDE DEF at
  <2>3. QED
    BY <1>1, <1>4, <2>1, <2>2
<1>5. ASSUME NEW i \in Matching(rules, c)
      PROVE  \E n \in Matching(W, c) : at[n] = i
  <2>1. i \in 1..Len(rules) /\ c \in rules[i].match
    BY DEF Matching
  <2>2. CASE i <= k
    BY <1>1, <2>1, <2>2, <1>2 DEF Matching
  <2>3. CASE i > k
    <3>1. i + 1 \in (k + 2)..(Len(rules) + 1) /\ i + 1 \in 1..(Len(rules) + 1) /\ at[i + 1] = i /\ (i + 1) - 1 = i
      BY <1>1, <2>1, <2>3
    <3>2. i + 1 \in Matching(W, c)
      BY <1>1, <1>2, <2>1, <3>1 DEF Matching
    <3>3. QED
      BY <3>1, <3>2
  <2>4. QED
    BY <2>1, <2>2, <2>3
<1> HIDE DEF at
<1>6. Admits(W, c) <=> Admits(rules, c)
  BY <1>3, <1>4, <1>5, SameDecision DEF SameMatches
<1>7. QED
  BY <1>6 DEF W
-----------------------------------------------------------------------------
(* Administration: the rules stay in order                                 *)

\* Lists of rules that are in order.
RuleLists == {rules \in Seq(Rule) : Ordered(rules)}

\* The memory and every handler's copy hold such lists; the operator's file may not.
AclInv ==
    /\ pc \in [Handlers -> PCs]
    /\ rule \in [Handlers -> Rule \cup {None}]
    /\ \A h \in Handlers : pc[h] = "add_rule" => rule[h] \in Rule
    /\ acl \in RuleLists /\ savedAcl \in [Handlers -> RuleLists] /\ file.acl \in Seq(Rule)

\* What the server and the handlers make of such a list is one.
LEMMA ListsStay ==
    /\ << >> \in RuleLists /\ DefaultAcl \in RuleLists
    /\ \A l \in RuleLists, r \in Rule : WithRule(l, r) \in RuleLists /\ WithoutRule(l, r) \in RuleLists
<1>1. \A r \in Rule : r.priority \in Nat
  BY AdminAssumption, Zenon DEF Rule
<1>2. << >> \in RuleLists /\ DefaultAcl \in RuleLists
  BY AdminAssumption DEF DefaultAcl, Rule, RuleLists, Ordered
<1>3. ASSUME NEW l \in RuleLists, NEW r \in Rule PROVE WithRule(l, r) \in RuleLists
  BY <1>1, <1>3, WithRuleOrdered DEF RuleLists
<1>4. ASSUME NEW l \in RuleLists, NEW r \in Rule PROVE WithoutRule(l, r) \in RuleLists
  <2> DEFINE keep == {i \in 1..Len(l) : l[i] # r}
  <2>1. WithoutRule(l, r) = Retained(l, keep)
    BY Zenon DEF WithoutRule
  <2>2. keep \in SUBSET (1..Len(l))
    OBVIOUS
  <2> HIDE DEF keep
  <2>3. l \in Seq(Rule) /\ Ordered(l)
    BY DEF RuleLists
  <2>4. Retained(l, keep) \in Seq(Rule) /\ Ordered(Retained(l, keep))
    BY <1>1, <2>2, <2>3, RetainedKeepsOrder, RetainedOrdered, SMTT(30)
  <2>5. QED
    BY <2>1, <2>4 DEF RuleLists
<1>5. QED
  BY <1>2, <1>3, <1>4

\* Loading a list through add_acl_rule gives one.
LEMMA SortOrdered ==
    ASSUME NEW rules \in Seq(Rule), NEW sorted, SortOf(sorted, rules)
    PROVE  sorted \in RuleLists
<1> DEFINE n == Len(rules)
<1>1. PICK p \in [1..n -> 1..n] :
         /\ \A i, j \in 1..n : i < j =>
              \/ rules[p[i]].priority > rules[p[j]].priority
              \/ rules[p[i]].priority = rules[p[j]].priority /\ p[i] < p[j]
         /\ sorted = [i \in 1..n |-> rules[p[i]]]
  BY ZenonT(30) DEF SortOf
<1>2. n \in Nat /\ \A i \in 1..n : rules[p[i]] \in Rule
  OBVIOUS
<1>3. \A i \in 1..n : rules[p[i]].priority \in Nat
  BY <1>2, AdminAssumption, ZenonT(30) DEF Rule
<1>4. sorted \in Seq(Rule) /\ Len(sorted) = n /\ \A i \in 1..n : sorted[i] = rules[p[i]]
  BY <1>1, <1>2
<1> HIDE DEF n
<1>5. \A i, j \in 1..n : i < j => sorted[i].priority >= sorted[j].priority
  BY <1>1, <1>3, <1>4
<1>6. QED
  BY <1>4, <1>5 DEF RuleLists, Ordered

\* A list in order is loaded as it is.
LEMMA OrderedIsItsSort ==
    ASSUME NEW l \in RuleLists
    PROVE  SortOf(l, l)
<1> DEFINE n == Len(l)
           p == [i \in 1..n |-> i]
<1>1. l \in Seq(Rule) /\ n \in Nat /\ \A i \in 1..n : l[i] \in Rule
  BY DEF RuleLists
<1>2. \A i \in 1..n : l[i].priority \in Nat
  BY <1>1, AdminAssumption, ZenonT(30) DEF Rule
<1>3. \A i, j \in 1..n : i < j => l[i].priority >= l[j].priority
  BY DEF RuleLists, Ordered
<1>4. p \in [1..n -> 1..n] /\ l = [i \in 1..n |-> l[p[i]]]
  BY <1>1
<1>5. \A i, j \in 1..n : i < j =>
        \/ l[p[i]].priority > l[p[j]].priority
        \/ l[p[i]].priority = l[p[j]].priority /\ p[i] < p[j]
  BY <1>1, <1>2, <1>3
<1> HIDE DEF p
<1>6. QED
  BY <1>4, <1>5 DEF SortOf

\* A step of a handler keeps them.
LEMMA AclHandlers ==
    ASSUME AclInv, NEW h \in Handlers, Change(h) \/ Save(h)
    PROVE  AclInv'
<1> USE DEF AclInv
<1>files. \A s, u, a : Whole(s, u, a).acl = a /\ Unreadable(s).acl = << >>
  BY DEF Whole, Unreadable
<1>lists. << >> \in Seq(Rule) /\ RuleLists \subseteq Seq(Rule)
  BY DEF RuleLists
<1>1. CASE AddUser(h) \/ DeleteUser(h) \/ UpdateUser(h) \/ UpdateUserAdd(h)
  BY <1>1, ZenonT(30) DEF AddUser, DeleteUser, UpdateUser, UpdateUserAdd, Begin,
              PCs, update, save
<1>2. CASE AddRule(h) \/ DeleteRule(h)
  BY <1>2, ListsStay, ZenonT(30) DEF AddRule, DeleteRule, Begin, PCs, update, save
<1>3. CASE UpdateRule(h)
  BY <1>3, ListsStay, ZenonT(30) DEF UpdateRule, Begin, PCs, save
<1>4. CASE UpdateRuleAdd(h)
  BY <1>4, ListsStay, ZenonT(30) DEF UpdateRuleAdd, PCs, save
<1>5. CASE ListUsers(h) \/ ListRules(h) \/ Load(h)
  BY <1>5, ZenonT(30) DEF ListUsers, ListRules, Load, PCs, memory, update
<1>6. CASE Create(h)
  BY <1>6, <1>files, <1>lists, ZenonT(30) DEF Create, PCs, memory, update, save
<1>7. CASE Write(h) \/ WriteFails(h)
  <2>1. EndSave(h)
    BY <1>7, Zenon DEF Write, WriteFails
  <2>2. \/ file' = Whole(savedSettings[h], savedUsers[h], savedAcl[h])
        \/ file' = Unreadable("broken")
    BY <1>7, Zenon DEF Write, WriteFails
  <2>3. file'.acl \in {savedAcl[h], << >>}
    BY <2>2 DEF Whole, Unreadable
  <2>4. file'.acl \in Seq(Rule)
    BY <2>3, <1>lists, ZenonT(30)
  <2>5. QED
    BY <2>1, <2>4, ListsStay, ZenonT(30) DEF EndSave, PCs, memory, update
<1>8. CASE CreateFails(h)
  BY <1>8, ListsStay, ZenonT(30) DEF CreateFails, EndSave, PCs, memory, update
<1>9. QED
  BY <1>1, <1>2, <1>3, <1>4, <1>5, <1>6, <1>7, <1>8, ZenonT(30) DEF Change, Save

\* The lists are in order in every state.
LEMMA AclInvariant == Spec => []AclInv
<1>1. Init => AclInv
  <2>1. SUFFICES ASSUME Init PROVE AclInv
    OBVIOUS
  <2>2. PICK u \in Directory, n \in 0..MaxRules : \E a \in [1..n -> Rule] : file = Whole("configured", u, a)
    BY <2>1, Zenon DEF Init
  <2>3. PICK a \in [1..n -> Rule] : file = Whole("configured", u, a)
    BY <2>2
  <2>4. n \in Nat /\ a \in Seq(Rule) /\ file.acl = a
    BY <2>3, AdminAssumption DEF Whole
  <2>5. QED
    BY <2>1, <2>4, ListsStay DEF Init, PCs, AclInv
<1>2. AclInv /\ [Next]_vars => AclInv'
  <2> SUFFICES ASSUME AclInv, [Next]_vars PROVE AclInv'
    BY SMTT(30)
  <2>1. CASE Stop
    BY <2>1, ListsStay DEF Stop, PCs, AclInv
  <2>2. CASE Start
    <3>1. LoadedAcl \in Seq(Rule)
      BY ListsStay DEF LoadedAcl, AclInv, RuleLists
    <3>2. acl' \in RuleLists
      BY <2>2, <3>1, SortOrdered, Zenon DEF Start
    <3>3. QED
      BY <2>2, <3>2 DEF Start, update, save, AclInv
  <2>3. CASE UNCHANGED vars
    BY <2>3 DEF vars, memory, update, save, AclInv
  <2>4. QED
    BY <2>1, <2>2, <2>3, AclHandlers, ZenonT(30) DEF Next
<1>3. QED
  BY <1>1, <1>2, PTL DEF Spec

\* For any number of handlers, ranges and priorities: the rules that check_acl goes through are
\* in the order of their priorities, through concurrent updates, saves and restarts, in
\* whatever order the operator wrote them into the file.
THEOREM RulesStayOrdered ==
    Spec => []AclOrdered
<1>1. AclInv => AclOrdered
  BY DEF AclInv, RuleLists, Ordered, AclOrdered, Ordered
<1>2. QED
  BY AclInvariant, <1>1, PTL
-----------------------------------------------------------------------------
(* Administration: the file follows the memory                             *)

\* No two handlers have been busy at once, and no save has failed.
Clean == ~overlapped /\ ~failed

\* Users that main does not overwrite.
Kept == Names \ ApiKeyUsers

\* Only one handler is busy, and none when the process is down.
OneBusy ==
    /\ \A g, h \in Handlers : pc[g] # "idle" /\ pc[h] # "idle" => g = h
    /\ \A h \in Handlers : pc[h] # "idle" => running

\* The file can be read and has the configured sections, but inside a write.
FileOK ==
    (\A h \in Handlers : pc[h] # "write") =>
        file.state = "whole" /\ file.settings = "configured"

\* Inside a write the file is empty.
WriteOK == \A h \in Handlers : pc[h] = "write" => file.state = "empty"

\* What the busy handler has read is what the memory holds.
SaveOK ==
    \A h \in Handlers :
        /\ pc[h] \in {"list_rules", "load", "create", "write"} => savedUsers[h] = users
        /\ pc[h] \in {"load", "create", "write"} => savedAcl[h] = acl
        /\ pc[h] \in {"create", "write"} => savedSettings[h] = "configured"

\* While no change is on its way, memory and file agree.
AgreeOK == running =>
    /\ settings = "configured"
    /\ Quiet => SortOf(acl, file.acl) /\ \A n \in Kept : users[n] = file.users[n]

\* The inductive invariant: all this, while no handlers overlap and no save fails.
FileInv ==
    /\ pc \in [Handlers -> PCs]
    /\ DOMAIN savedUsers = Handlers
    /\ DOMAIN savedAcl = Handlers
    /\ DOMAIN savedSettings = Handlers
    /\ Clean => OneBusy /\ FileOK /\ WriteOK /\ SaveOK /\ AgreeOK

-----------------------------------------------------------------------------
\* The operator's file is whole, and the server does not run yet.
LEMMA FileInit == Init => FileInv
<1> SUFFICES ASSUME Init PROVE FileInv
  OBVIOUS
<1>1. /\ pc \in [Handlers -> PCs] /\ DOMAIN savedUsers = Handlers
      /\ DOMAIN savedAcl = Handlers /\ DOMAIN savedSettings = Handlers
  BY DEF Init, PCs
<1>2. OneBusy /\ FileOK /\ WriteOK /\ SaveOK
  BY DEF Init, OneBusy, FileOK, WriteOK, SaveOK, Whole
<1>3. AgreeOK
  BY DEF Init, AgreeOK
<1>4. QED
  BY <1>1, <1>2, <1>3 DEF FileInv

\* A change that begins while no other is being saved leaves the file alone, and its handler
\* is the only busy one.
LEMMA BeginStep ==
    ASSUME FileInv, NEW h \in Handlers, NEW next \in {"list_users", "add_user", "add_rule"},
           Begin(h, next)
    PROVE  FileInv'
<1>1. Clean' => Clean /\ Quiet
  BY Zenon DEF Begin, Clean
<1>2. /\ pc' \in [Handlers -> PCs] /\ DOMAIN savedUsers' = Handlers
      /\ DOMAIN savedAcl' = Handlers /\ DOMAIN savedSettings' = Handlers
  BY DEF Begin, FileInv, PCs, save
<1>3. ASSUME Clean' PROVE OneBusy' /\ FileOK' /\ WriteOK' /\ SaveOK' /\ AgreeOK'
  BY <1>1, <1>3 DEF FileInv, Begin, Quiet, OneBusy, WriteOK, SaveOK, FileOK, AgreeOK
<1>4. QED
  BY <1>2, <1>3 DEF FileInv

\* Every change of a user or a rule begins that way.
LEMMA ChangeStep ==
    ASSUME FileInv, NEW h \in Handlers, Change(h)
    PROVE  FileInv'
  BY BeginStep DEF Change, AddUser, DeleteUser, UpdateUser, AddRule, DeleteRule, UpdateRule

\* The second half of an update, made by the only busy handler before it lists anything.
LEMMA UpdateStep ==
    ASSUME FileInv, NEW h \in Handlers, UpdateUserAdd(h) \/ UpdateRuleAdd(h)
    PROVE  FileInv'
<1>1. /\ pc[h] \in {"add_user", "add_rule"}
      /\ pc' = [pc EXCEPT ![h] = "list_users"]
      /\ UNCHANGED <<running, settings, file, savedUsers, savedAcl, savedSettings, overlapped, failed>>
  BY DEF UpdateUserAdd, UpdateRuleAdd, save, ghosts
<1>2. pc' \in [Handlers -> PCs] /\ pc'[h] = "list_users"
      /\ \A g \in Handlers : g # h => pc'[g] = pc[g]
  BY <1>1 DEF FileInv, PCs
<1>3. ASSUME Clean' PROVE OneBusy' /\ FileOK' /\ WriteOK' /\ SaveOK' /\ AgreeOK'
  BY <1>1, <1>3, <1>2, ZenonT(30) DEF FileInv, Clean, OneBusy, WriteOK, SaveOK, FileOK, AgreeOK, Quiet
<1>4. QED
  BY <1>1, <1>2, <1>3 DEF FileInv

\* Listing, reading back and truncating: the busy handler collects what the memory holds,
\* which no other handler changes meanwhile.
LEMMA CollectStep ==
    ASSUME FileInv, NEW h \in Handlers, ListUsers(h) \/ ListRules(h) \/ Load(h) \/ Create(h)
    PROVE  FileInv'
<1>1. /\ pc[h] \in {"list_users", "list_rules", "load", "create"}
      /\ pc' \in [Handlers -> PCs]
      /\ pc'[h] \in {"list_rules", "load", "create", "write"}
      /\ \A g \in Handlers : g # h => pc'[g] = pc[g]
      /\ UNCHANGED <<running, settings, users, acl, overlapped, failed>>
  BY DEF FileInv, PCs, ListUsers, ListRules, Load, Create, memory, ghosts
<1>2. /\ DOMAIN savedUsers' = Handlers /\ DOMAIN savedAcl' = Handlers
      /\ DOMAIN savedSettings' = Handlers
  BY DEF FileInv, ListUsers, ListRules, Load, Create, save
<1>3. ASSUME Clean' PROVE OneBusy' /\ FileOK' /\ WriteOK' /\ SaveOK' /\ AgreeOK'
  <2>1. OneBusy /\ FileOK /\ WriteOK /\ SaveOK /\ AgreeOK
    BY <1>1, <1>3, ZenonT(30) DEF FileInv, Clean
  <2>2. \A g \in Handlers : g # h => pc[g] = "idle" /\ pc'[g] = "idle"
    BY <1>1, <2>1 DEF OneBusy
  <2>3. file.state = "whole" /\ file.settings = "configured"
    BY <1>1, <2>1, <2>2 DEF FileOK
  <2>4. OneBusy'
    BY <1>1, <2>1, <2>2 DEF OneBusy
  <2>5. FileOK' /\ WriteOK'
    BY <2>2, <2>3 DEF Create, FileOK, WriteOK, Unreadable, FileInv, ListUsers, ListRules, Load
  <2>6. SaveOK'
    BY <1>1, <2>1, <2>2, <2>3 DEF ListUsers, SaveOK, FileInv, ListRules, Load, Loaded, Create, save
  <2>7. AgreeOK'
    BY <1>1, <2>1, ZenonT(30) DEF AgreeOK, Quiet
  <2>8. QED
    BY <2>4, <2>5, <2>6, <2>7, ZenonT(30)
<1>4. QED
  BY <1>1, <1>2, <1>3 DEF FileInv

\* The write puts what was collected into the empty file, so file and memory agree again.
LEMMA WriteStep ==
    ASSUME FileInv, AclInv, NEW h \in Handlers, Write(h)
    PROVE  FileInv'
<1>1. /\ pc[h] = "write" /\ pc' \in [Handlers -> PCs] /\ pc'[h] = "idle"
      /\ \A g \in Handlers : g # h => pc'[g] = pc[g]
      /\ DOMAIN savedUsers' = Handlers /\ DOMAIN savedAcl' = Handlers
      /\ DOMAIN savedSettings' = Handlers
      /\ UNCHANGED <<running, settings, users, acl, overlapped, failed>>
  BY ZenonT(30) DEF FileInv, PCs, Write, EndSave, memory, ghosts
<1>2. ASSUME Clean' PROVE OneBusy' /\ FileOK' /\ WriteOK' /\ SaveOK' /\ AgreeOK'
  <2>1. OneBusy /\ WriteOK /\ SaveOK /\ AgreeOK
    BY <1>1, <1>2, ZenonT(30) DEF FileInv, Clean
  <2>2. \A g \in Handlers : pc'[g] = "idle"
    BY <1>1, <2>1, ZenonT(30) DEF OneBusy
  <2>3. file' = Whole("configured", users, acl)
    BY <1>1, <2>1, ZenonT(30) DEF Write, WriteOK, SaveOK
  <2>4. file'.state = "whole" /\ file'.settings = "configured" /\ file'.users = users /\ file'.acl = acl
    BY <2>3 DEF Whole
  <2>5. SortOf(acl', file'.acl)
    BY <1>1, <2>4, OrderedIsItsSort DEF AclInv
  <2>6. QED
    BY <1>1, <2>1, <2>2, <2>4, <2>5, ZenonT(30) DEF OneBusy, FileOK, WriteOK, SaveOK, AgreeOK
<1>3. QED
  BY <1>1, <1>2, Zenon DEF FileInv

\* A save that fails is recorded as such.
LEMMA FailStep ==
    ASSUME FileInv, NEW h \in Handlers, CreateFails(h) \/ WriteFails(h)
    PROVE  FileInv'
  BY DEF CreateFails, WriteFails, Clean, FileInv, PCs, EndSave

\* The process may end anywhere but in a write and leaves a good file; starting reads it.
LEMMA ProcessStep ==
    ASSUME FileInv, Stop \/ Start
    PROVE  FileInv'
<1>1. CASE Stop
  BY <1>1, ZenonT(30) DEF Stop, Clean, FileInv, OneBusy, FileOK, WriteOK, SaveOK, AgreeOK, PCs
<1>2. CASE Start
  <2>1. /\ UNCHANGED <<file, pc, savedUsers, savedAcl, savedSettings, overlapped, failed>>
        /\ ~running /\ running' = TRUE
    BY <1>2 DEF Start, save, ghosts
  <2>2. ASSUME Clean' PROVE OneBusy' /\ FileOK' /\ WriteOK' /\ SaveOK' /\ AgreeOK'
    <3>1. OneBusy /\ FileOK
      BY <2>1, <2>2 DEF FileInv, Clean
    <3>2. \A h \in Handlers : pc[h] = "idle"
      BY <2>1, <3>1 DEF OneBusy
    <3>3. file.state = "whole" /\ file.settings = "configured"
      BY <3>1, <3>2 DEF FileOK
    <3>4. OneBusy' /\ FileOK' /\ WriteOK' /\ SaveOK'
      BY <2>1, <3>2, <3>3 DEF OneBusy, FileOK, WriteOK, SaveOK
    <3>5. AgreeOK'
      BY <1>2, <2>1, <3>3 DEF Start, Loaded, LoadedAcl, StartUsers, AgreeOK, Kept
    <3>6. QED
      BY <3>4, <3>5
  <2>3. QED
    BY <2>1, <2>2 DEF FileInv
<1>3. QED
  BY <1>1, <1>2

\* The invariant holds in every state.
LEMMA FileInvariant == Spec => []FileInv
<1>1. FileInv /\ AclInv /\ [Next]_vars => FileInv'
  <2> SUFFICES ASSUME FileInv, AclInv, [Next]_vars PROVE FileInv'
    OBVIOUS
  <2>1. CASE Stop \/ Start
    BY <2>1, ProcessStep
  <2>2. ASSUME NEW h \in Handlers, Change(h) PROVE FileInv'
    BY <2>2, ChangeStep
  <2>3. ASSUME NEW h \in Handlers, Save(h) PROVE FileInv'
    BY <2>3, UpdateStep, CollectStep, WriteStep, FailStep, ZenonT(30) DEF Save
  <2>4. CASE UNCHANGED vars
    BY <2>4 DEF vars, memory, save, ghosts, FileInv, Clean, OneBusy, FileOK, WriteOK, SaveOK,
                AgreeOK, Quiet
  <2>5. QED
    BY <2>1, <2>2, <2>3, <2>4 DEF Next
<1>2. QED
  BY FileInit, <1>1, AclInvariant, PTL DEF Spec

\* For any number of handlers, users and rules: unless changes overlapped or a save failed or
\* was cut, the configuration file and the memory agree between requests and across restarts.
THEOREM FileKeepsUp == Spec => []FileFollowsMemory
<1>1. FileInv => FileFollowsMemory
  <2> SUFFICES ASSUME FileInv, Clean, Quiet
               PROVE  /\ file.state = "whole"
                      /\ file.settings = "configured"
                      /\ running => /\ settings = "configured"
                                    /\ SortOf(acl, file.acl)
                                    /\ \A n \in Names \ ApiKeyUsers : users[n] = file.users[n]
    BY DEF FileFollowsMemory, Clean
  <2>1. FileOK /\ AgreeOK
    BY DEF FileInv
  <2>2. QED
    BY <2>1 DEF FileOK, AgreeOK, Quiet, Kept
<1>2. QED
  BY FileInvariant, <1>1, PTL
-----------------------------------------------------------------------------
(* Lifetimes                                                               *)

\* Both tasks tick on time.
OnTime ==
    /\ now <= cleanupAt /\ cleanupAt <= now + AllocationInterval
    /\ now <= channelsAt /\ channelsAt <= now + ChannelInterval

\* The allocation's deadline is not after what the client was told, and what the client was
\* told does not lie before the last cleanup.
GrantOK ==
    allocation # None =>
        /\ allocation.created_at <= now
        /\ allocation.created_at + allocation.lifetime <= told
        /\ cleanupAt <= told + AllocationInterval

\* No binding's deadline lies before the last channel cleanup.
BindingsOK ==
    \A ch \in Channels : channels[ch] # None =>
        channelsAt <= channels[ch].created_at + BindingLifetime + ChannelInterval

IInv == LifetimeTypeOK /\ OnTime /\ GrantOK /\ BindingsOK

\* With no binding left there is nothing to expire.
LEMMA NoBindingsOK ==
    /\ NoBindings \in [Channels -> ChannelBinding \cup {None}]
    /\ \A ch \in Channels : NoBindings[ch] = None
BY DEF NoBindings

\* Allocate grants at least the lifetime it stores.
LEMMA AllocateTimely ==
    ASSUME IInv, NEW lifetime \in Lifetimes, Allocate(lifetime)
    PROVE  IInv'
  BY TimesAssumption, NoBindingsOK DEF Capped, Allocate, Allocation, IInv, LifetimeTypeOK, OnTime,
     GrantOK, BindingsOK

\* An Allocate that is refused leaves nothing to expire.
LEMMA RefusedTimely ==
    ASSUME IInv, AllocateRefused
    PROVE  IInv'
  BY NoBindingsOK DEF AllocateRefused, IInv, LifetimeTypeOK, OnTime, GrantOK, BindingsOK

\* Refresh grants at least the lifetime it stores, counted from a time not after now.
LEMMA RefreshTimely ==
    ASSUME IInv, NEW lifetime \in Lifetimes, Refresh(lifetime)
    PROVE  IInv'
  BY TimesAssumption, NoBindingsOK DEF Refresh, Allocation, IInv, LifetimeTypeOK, OnTime, GrantOK,
     BindingsOK

\* A binding that is made or renewed expires after the next channel cleanup at the earliest.
LEMMA BindTimely ==
    ASSUME IInv, NEW ch \in Channels, NEW peer \in Peers, ChannelBind(ch, peer)
    PROVE  IInv'
<1>1. [peer_addr |-> peer, created_at |-> now] \in ChannelBinding
  BY DEF ChannelBinding, IInv, LifetimeTypeOK
<1>2. LifetimeTypeOK' /\ OnTime' /\ GrantOK'
  BY <1>1 DEF ChannelBind, IInv, LifetimeTypeOK, OnTime, GrantOK
<1>3. BindingsOK'
  <2>1. SUFFICES ASSUME NEW x \in Channels, channels'[x] # None
                 PROVE  channelsAt' <= channels'[x].created_at + BindingLifetime + ChannelInterval
    BY DEF BindingsOK
  <2>2. CASE x = ch
    BY <2>2, TimesAssumption DEF ChannelBind, IInv, LifetimeTypeOK, OnTime
  <2>3. CASE x # ch
    BY <2>1, <2>3 DEF ChannelBind, IInv, LifetimeTypeOK, BindingsOK
  <2>4. QED
    BY <2>2, <2>3
<1>4. QED
  BY <1>2, <1>3, ZenonT(30) DEF IInv

\* An allocation that survives a cleanup was granted until that cleanup at least.
LEMMA CleanupTimely ==
    ASSUME IInv, Cleanup
    PROVE  IInv'
  BY NoBindingsOK, TimesAssumption DEF Cleanup, IInv, LifetimeTypeOK, OnTime, GrantOK, BindingsOK,
     Allocation, AllocationExpired

\* A binding that survives a channel cleanup had not expired by then.
LEMMA ChannelCleanupTimely ==
    ASSUME IInv, ChannelCleanup
    PROVE  IInv'
<1>1. LifetimeTypeOK' /\ OnTime' /\ GrantOK'
  BY TimesAssumption DEF ChannelCleanup, IInv, LifetimeTypeOK, OnTime, GrantOK
<1>2. BindingsOK'
  <2>1. SUFFICES ASSUME NEW ch \in Channels, channels'[ch] # None
                 PROVE  channelsAt' <= channels'[ch].created_at + BindingLifetime + ChannelInterval
    BY DEF BindingsOK
  <2>2. channels'[ch] = channels[ch] /\ channels[ch] # None /\ ~BindingExpired(ch)
    BY <2>1 DEF ChannelCleanup
  <2>3. channels[ch].created_at \in Nat
    BY <2>2 DEF IInv, LifetimeTypeOK, ChannelBinding
  <2>4. QED
    BY <2>2, <2>3, TimesAssumption DEF ChannelCleanup, BindingExpired, IInv, LifetimeTypeOK
<1>3. QED
  BY <1>1, <1>2 DEF IInv

\* Time does not pass a tick of a cleanup task.
LEMMA TickTimely ==
    ASSUME IInv, ClockTick
    PROVE  IInv'
<1>1. LifetimeTypeOK' /\ OnTime' /\ BindingsOK'
  BY TimesAssumption DEF ClockTick, Due, IInv, LifetimeTypeOK, OnTime, BindingsOK
<1>2. GrantOK'
  <2>1. SUFFICES ASSUME allocation # None PROVE GrantOK'
    BY DEF ClockTick, GrantOK
  <2>2. allocation.created_at \in Nat
    BY <2>1 DEF IInv, LifetimeTypeOK, Allocation
  <2>3. QED
    BY <2>1, <2>2 DEF ClockTick, IInv, LifetimeTypeOK, GrantOK
<1>3. QED
  BY <1>1, <1>2 DEF IInv

\* Every step keeps the inductive invariant.
LEMMA LifetimeInvariant == LifetimeSpec => []IInv
<1>1. LifetimeInit => IInv
  BY NoBindingsOK, TimesAssumption DEF LifetimeInit, IInv, LifetimeTypeOK, OnTime, GrantOK, BindingsOK
<1>2. IInv /\ [LifetimeNext]_lifetimeVars => IInv'
  <2>1. SUFFICES ASSUME IInv, [LifetimeNext]_lifetimeVars PROVE IInv'
    OBVIOUS
  <2>2. CASE LifetimeNext
    BY <2>1, <2>2, AllocateTimely, RefusedTimely, RefreshTimely, BindTimely, CleanupTimely,
       ChannelCleanupTimely, TickTimely DEF LifetimeNext
  <2>3. CASE UNCHANGED lifetimeVars
    BY <2>1, <2>3 DEF lifetimeVars, IInv, LifetimeTypeOK, OnTime, GrantOK, BindingsOK
  <2>4. QED
    BY <2>1, <2>2, <2>3
<1>3. QED
  BY <1>1, <1>2, PTL DEF LifetimeSpec

\* No allocation outlives what its client was last told by more than a cleanup interval, for
\* all lifetimes, caps and intervals.
THEOREM GrantsEnd == LifetimeSpec => []NeverOutlivesGrant
<1>1. IInv => NeverOutlivesGrant
  BY TimesAssumption DEF IInv, LifetimeTypeOK, OnTime, GrantOK, NeverOutlivesGrant
<1>2. QED
  BY <1>1, LifetimeInvariant, PTL

\* No channel binding outlives its lifetime by more than a channel cleanup interval.
THEOREM BindingsEnd == LifetimeSpec => []BindingsExpire
<1>1. IInv => BindingsExpire
  <2>1. SUFFICES ASSUME IInv, NEW ch \in Channels, channels[ch] # None
                 PROVE  now <= channels[ch].created_at + BindingLifetime + ChannelInterval
    BY DEF BindingsExpire
  <2>2. channels[ch].created_at \in Nat
    BY <2>1 DEF IInv, LifetimeTypeOK, ChannelBinding
  <2>3. QED
    BY <2>1, <2>2, TimesAssumption DEF IInv, LifetimeTypeOK, OnTime, BindingsOK
<1>2. QED
  BY <1>1, LifetimeInvariant, PTL
=============================================================================
