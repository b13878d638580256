------------------------- MODULE TurnRequestsProofs -------------------------
(***************************************************************************)
(* Proofs for TurnRequests: an inductive invariant, which says where a     *)
(* worker stands (PhaseOK), that queues are in the order of arrival and    *)
(* each client has one worker (QueueOK), which nonces are still known      *)
(* (NonceOK) and that the cleanup is in time (CleanupOK); from it the      *)
(* order in which datagrams are handled, how long nonces are good for,     *)
(* and what a client with a good user can rely on.                         *)
(***************************************************************************)
EXTENDS TurnRequests, TLAPS

\* Where each worker stands: it has a datagram unless it waits for one, it asks for the nonce of
\* a request that carries one, and it has an answer when it is about to send it.
PhaseOK ==
    \A w \in Workers :
        /\ pc[w] = "recv" <=> job[w] = None
        /\ pc[w] \in {"nonce", "password", "handle", "sign"} => job[w].kind = "request"
        /\ pc[w] \in {"nonce", "password"} => ~config.auth_disabled /\ job[w].nonce # None
        /\ pc[w] = "send" <=> answer[w] # None

\* A datagram is at the worker its client is hashed to, has arrived, and carries no nonce but
\* one that was given out.
Here(w, d, hash, n, given) ==
    hash[d.from] = w /\ d.no <= n /\ (d.nonce # None => d.nonce \in given)

\* The datagrams that wait for w are here, are newer than j, which w has, and than those that
\* their clients had handled, and wait in the order they arrived in.
InLine(w, q, hash, n, given, handled, j) ==
    /\ \A i \in 1..Len(q) : /\ Here(w, q[i], hash, n, given)
                            /\ handled[q[i].from] < q[i].no
                            /\ j # None => j.no < q[i].no
    /\ \A i, k \in 1..Len(q) : i < k => q[i].no < q[k].no

\* So it is for every worker.
QueueOK ==
    /\ \A w \in Workers :
           /\ job[w] # None => Here(w, job[w], config.hash, arrived, DOMAIN issued)
           /\ InLine(w, queue[w], config.hash, arrived, DOMAIN issued, last, job[w])
    /\ \A c \in Clients : last[c] <= arrived

\* A nonce is known with the time it was given out at, until it is NonceExpiry old.
NonceOK ==
    /\ \A n \in DOMAIN nonces : n \in DOMAIN issued /\ nonces[n] = issued[n].at
    /\ \A n \in DOMAIN issued : /\ issued[n].at <= clock
                                /\ n \notin DOMAIN nonces => clock - issued[n].at >= NonceExpiry

\* The cleanup is never late, and leaves no nonce that is NonceExpiry old.
CleanupOK ==
    /\ cleaned <= clock /\ clock <= cleaned + CleanupInterval
    /\ \A n \in DOMAIN nonces : cleaned <= nonces[n] + NonceExpiry

Inv == WorkTypeOK /\ PhaseOK /\ QueueOK /\ NonceOK /\ CleanupOK
-----------------------------------------------------------------------------
(* Queues                                                                  *)

\* The parts of a datagram.
LEMMA DatagramFields ==
    ASSUME NEW d \in Datagram
    PROVE  d.no \in 1..MaxDatagrams /\ d.no \in Nat /\ d.from \in Clients /\ d.nonce \in Nonces \cup {None}
BY DEF Datagram

\* A datagram stays where it is when others arrive and nonces are given out.
LEMMA HereStays ==
    ASSUME NEW w, NEW d \in Datagram, NEW hash, NEW n \in Nat, NEW m \in Nat, n <= m,
           NEW K, NEW L, K \subseteq L, Here(w, d, hash, n, K)
    PROVE  Here(w, d, hash, m, L)
BY DatagramFields DEF Here

\* So does a queue, while the worker's clients are not served, also when the worker has no
\* datagram any more.
LEMMA LineStays ==
    ASSUME NEW w, NEW q \in Seq(Datagram), NEW hash, NEW n \in Nat, NEW m \in Nat, n <= m,
           NEW K, NEW L, K \subseteq L, NEW l, NEW k, NEW j, NEW g, g = j \/ g = None,
           InLine(w, q, hash, n, K, l, j), \A c \in Clients : hash[c] = w => k[c] = l[c]
    PROVE  InLine(w, q, hash, m, L, k, g)
  BY DatagramFields, HereStays DEF InLine, Here

\* A datagram that arrives goes behind the others.
LEMMA LineGrows ==
    ASSUME NEW w, NEW q \in Seq(Datagram), NEW d \in Datagram, NEW hash, NEW n \in Nat, NEW K, NEW l, NEW j,
           InLine(w, q, hash, n, K, l, j), Here(w, d, hash, n + 1, K), d.no = n + 1,
           l[d.from] \in Nat, l[d.from] <= n, j # None => j.no \in Nat /\ j.no <= n
    PROVE  InLine(w, Append(q, d), hash, n + 1, K, l, j)
<1> DEFINE r == Append(q, d)
<1>1. /\ Len(q) \in Nat /\ Len(r) = Len(q) + 1 /\ r[Len(q) + 1] = d
      /\ \A i \in 1..Len(q) : r[i] = q[i] /\ q[i] \in Datagram
  OBVIOUS
<1>2. \A i \in 1..Len(r) : i \in 1..Len(q) \/ i = Len(q) + 1
  BY <1>1
<1> HIDE DEF r
<1>3. ASSUME NEW i \in 1..Len(q)
      PROVE  /\ Here(w, q[i], hash, n + 1, K) /\ l[q[i].from] < q[i].no /\ (j # None => j.no < q[i].no)
             /\ q[i].no < d.no
  BY <1>3, <1>1, DatagramFields, HereStays DEF InLine, Here
<1>4. ASSUME NEW i \in 1..Len(r)
      PROVE  Here(w, r[i], hash, n + 1, K) /\ l[r[i].from] < r[i].no /\ (j # None => j.no < r[i].no)
  BY <1>1, <1>2, <1>3
<1>5. ASSUME NEW i \in 1..Len(r), NEW k \in 1..Len(r), i < k
      PROVE  r[i].no < r[k].no
  BY <1>1, <1>5, <1>3, <1>2 DEF InLine
<1>6. QED
  BY <1>4, <1>5, ZenonT(30) DEF InLine, r

\* A worker that takes the first leaves the newer ones.
LEMMA LineMoves ==
    ASSUME NEW w, NEW q \in Seq(Datagram), q # <<>>, NEW hash, NEW n, NEW K, NEW l,
           InLine(w, q, hash, n, K, l, None)
    PROVE  /\ Head(q) \in Datagram /\ Here(w, Head(q), hash, n, K)
           /\ InLine(w, Tail(q), hash, n, K, l, Head(q))
<1> DEFINE r == Tail(q)
<1>1. /\ Len(q) \in Nat /\ 1 \in 1..Len(q) /\ Head(q) = q[1] /\ q[1] \in Datagram
      /\ \A i \in 1..Len(r) : i + 1 \in 1..Len(q) /\ 1 < i + 1 /\ r[i] = q[i + 1]
      /\ \A i, k \in 1..Len(r) : i < k => i + 1 < k + 1
  OBVIOUS
<1> HIDE DEF r
<1>2. \A i \in 1..Len(q) : Here(w, q[i], hash, n, K) /\ l[q[i].from] < q[i].no
  BY DEF InLine
<1>3. \A i, k \in 1..Len(q) : i < k => q[i].no < q[k].no
  BY DEF InLine
<1>4. \A i \in 1..Len(r) : Here(w, r[i], hash, n, K) /\ l[r[i].from] < r[i].no /\ q[1].no < r[i].no
  BY <1>1, <1>2, <1>3
<1>5. ASSUME NEW i \in 1..Len(r), NEW k \in 1..Len(r), i < k PROVE r[i].no < r[k].no
  BY <1>1, <1>3, <1>5, ZenonT(30)
<1>6. InLine(w, r, hash, n, K, l, q[1])
  BY <1>4, <1>5 DEF InLine
<1>7. QED
  BY <1>1, <1>2, <1>6 DEF r

\* When the worker has handled its datagram, the waiting ones are newer than that.
LEMMA LineServed ==
    ASSUME NEW w, NEW q \in Seq(Datagram), NEW hash, NEW n \in Nat, NEW K, NEW L, K \subseteq L,
           NEW l \in [Clients -> Nat], NEW j \in Datagram, j # None, NEW g, g = j \/ g = None,
           InLine(w, q, hash, n, K, l, j)
    PROVE  InLine(w, q, hash, n, L, [l EXCEPT ![j.from] = j.no], g)
<1>1. ASSUME NEW i \in 1..Len(q)
      PROVE  /\ Here(w, q[i], hash, n, L) /\ [l EXCEPT ![j.from] = j.no][q[i].from] < q[i].no
             /\ g # None => g.no < q[i].no
  <2>1. q[i] \in Datagram /\ q[i].from \in Clients
    BY DatagramFields
  <2>2. Here(w, q[i], hash, n, K) /\ l[q[i].from] < q[i].no /\ j.no < q[i].no
    BY DEF InLine
  <2>3. Here(w, q[i], hash, n, L)
    BY <2>1, <2>2, HereStays
  <2>4. QED
    BY <2>1, <2>2, <2>3
<1>2. QED
  BY <1>1 DEF InLine
-----------------------------------------------------------------------------
(* The steps                                                               *)

\* A worker's datagram, unless it waits for one.
LEMMA JobIsDatagram ==
    ASSUME Inv, NEW w \in Workers, pc[w] # "recv"
    PROVE  job[w] \in Datagram /\ job[w] # None /\ job[w].from \in Clients /\ job[w].no \in 1..MaxDatagrams
  BY DatagramFields DEF Inv, WorkTypeOK, PhaseOK

\* What the queues are made of.
LEMMA QueueTypes ==
    ASSUME Inv
    PROVE  /\ arrived \in Nat /\ last \in [Clients -> Nat]
           /\ \A w \in Workers : queue[w] \in Seq(Datagram) /\ (job[w] # None => job[w] \in Datagram)
           /\ \A c \in Clients : config.hash[c] \in Workers /\ last[c] <= arrived
           /\ \A w \in Workers :
                  /\ job[w] # None => Here(w, job[w], config.hash, arrived, DOMAIN issued)
                  /\ InLine(w, queue[w], config.hash, arrived, DOMAIN issued, last, job[w])
  BY RequestsAssumption DEF Inv, WorkTypeOK, QueueOK

\* Phases depend on where the workers stand.
LEMMA SamePhases == ASSUME PhaseOK, UNCHANGED <<config, pc, job, answer>> PROVE PhaseOK'
BY DEF PhaseOK

\* The order depends on what is in the queues and was handled.
LEMMA SameQueues == ASSUME QueueOK, UNCHANGED <<config, queue, job, arrived, last, issued>> PROVE QueueOK'
BY DEF QueueOK

\* The known nonces depend on the time and the map.
LEMMA SameNonces == ASSUME NonceOK, UNCHANGED <<clock, nonces, issued>> PROVE NonceOK'
BY DEF NonceOK

\* So does the cleanup.
LEMMA SameCleanup == ASSUME CleanupOK, UNCHANGED <<clock, cleaned, nonces>> PROVE CleanupOK'
BY DEF CleanupOK

\* The server starts idle, with one rule and no nonces.
LEMMA RequestsInit == Init => Inv
<1> SUFFICES ASSUME Init PROVE Inv
  OBVIOUS
<1>1. DOMAIN nonces = {} /\ DOMAIN issued = {}
  BY DEF Init
<1>2. WorkTypeOK
  BY <1>1, RequestsAssumption DEF Init, WorkTypeOK, PCs
<1>3. PhaseOK
  BY DEF Init, PhaseOK
<1>4. QueueOK
  BY DEF Init, QueueOK, InLine
<1>5. NonceOK /\ CleanupOK
  BY <1>1, RequestsAssumption DEF Init, NonceOK, CleanupOK
<1>6. QED
  BY <1>2, <1>3, <1>4, <1>5 DEF Inv

\* What a client sends is a datagram, the next one, with a nonce that was given out, if any.
LEMMA SentIsDatagram ==
    ASSUME Inv, NEW c \in Clients, arrived < MaxDatagrams, NEW d \in Sent(c)
    PROVE  /\ d \in Datagram /\ d.no = arrived + 1 /\ d.from = c
           /\ d.nonce # None => d.nonce \in DOMAIN issued
  BY RequestsAssumption DEF Inv, Given, WorkTypeOK, Sent, Kinds, Datagram

\* A datagram that arrives is the newest.
LEMMA ReceiveInv ==
    ASSUME Inv, NEW c \in Clients, Receive(c)
    PROVE  Inv'
<1>1. WorkTypeOK /\ PhaseOK /\ NonceOK /\ CleanupOK
  BY DEF Inv
<1>2. /\ arrived < MaxDatagrams /\ arrived' = arrived + 1
      /\ UNCHANGED <<config, pc, job, answer, clock, cleaned, nonces, users, last, issued, steady>>
  BY DEF Receive, time, auth
<1> DEFINE w == config.hash[c]
<1>3. PICK d \in Sent(c) :
          queue' = IF Len(queue[w]) < Capacity THEN [queue EXCEPT ![w] = Append(@, d)] ELSE queue
  BY ZenonT(30) DEF Receive
<1>4. w \in Workers
  BY QueueTypes
<1>5. d \in Datagram /\ d.no = arrived + 1 /\ Here(w, d, config.hash, arrived + 1, DOMAIN issued) /\ d.from = c
  BY <1>2, SentIsDatagram, QueueTypes DEF Here
<1> HIDE DEF w
<1>6. queue \in [Workers -> Seq(Datagram)] /\ \A v \in Workers : Len(queue[v]) <= Capacity
  BY <1>1 DEF WorkTypeOK
<1>7. /\ queue' \in [Workers -> Seq(Datagram)] /\ \A v \in Workers : Len(queue'[v]) <= Capacity
      /\ \A v \in Workers : queue'[v] = queue[v] \/ (v = w /\ queue'[v] = Append(queue[v], d))
  BY <1>4, <1>5, <1>6, <1>3, RequestsAssumption
<1>8. WorkTypeOK'
  BY <1>1, <1>2, RequestsAssumption, <1>7 DEF WorkTypeOK
<1>9. QueueOK'
  <2>1. ASSUME NEW v \in Workers
        PROVE  /\ job[v] # None => Here(v, job[v], config.hash, arrived + 1, DOMAIN issued)
               /\ InLine(v, queue'[v], config.hash, arrived + 1, DOMAIN issued, last, job[v])
    <3>1. /\ queue[v] \in Seq(Datagram) /\ (job[v] # None => job[v] \in Datagram)
          /\ arrived \in Nat /\ arrived + 1 \in Nat /\ arrived <= arrived + 1
          /\ job[v] # None => Here(v, job[v], config.hash, arrived, DOMAIN issued)
          /\ InLine(v, queue[v], config.hash, arrived, DOMAIN issued, last, job[v])
      BY QueueTypes
    <3>2. job[v] # None => Here(v, job[v], config.hash, arrived + 1, DOMAIN issued)
      BY <3>1, HereStays
    <3>3. CASE queue'[v] = queue[v]
      BY <3>1, <3>2, <3>3, LineStays
    <3>4. CASE v = w /\ queue'[v] = Append(queue[v], d)
      BY <3>1, DatagramFields, <1>5, QueueTypes, <3>2, <3>4, LineGrows DEF Here
    <3>5. QED
      BY <1>7, <3>3, <3>4
  <2>2. \A x \in Clients : last[x] <= arrived + 1
    BY QueueTypes
  <2>3. QED
    BY <1>2, <2>1, <2>2 DEF QueueOK
<1>10. QED
  BY <1>1, <1>2, <1>8, <1>9, SamePhases, SameNonces, SameCleanup DEF Inv

\* A worker takes the oldest datagram of its queue.
LEMMA TakeInv ==
    ASSUME Inv, NEW w \in Workers, Take(w)
    PROVE  Inv'
<1>1. WorkTypeOK /\ PhaseOK /\ NonceOK /\ CleanupOK
  BY DEF Inv
<1>2. /\ pc[w] = "recv" /\ queue[w] # <<>>
      /\ job' = [job EXCEPT ![w] = Head(queue[w])]
      /\ queue' = [queue EXCEPT ![w] = Tail(queue[w])]
      /\ pc' = [pc EXCEPT ![w] = "process"]
      /\ UNCHANGED <<config, answer, clock, cleaned, nonces, users, arrived, last, issued, steady>>
  BY DEF Take, time, auth
<1>3. /\ queue \in [Workers -> Seq(Datagram)] /\ \A v \in Workers : Len(queue[v]) <= Capacity
      /\ job \in [Workers -> Datagram \cup {None}] /\ pc \in [Workers -> PCs]
  BY <1>1 DEF WorkTypeOK
<1>4. job[w] = None
  BY <1>1, <1>2 DEF PhaseOK
<1>5. /\ Head(queue[w]) \in Datagram /\ Here(w, Head(queue[w]), config.hash, arrived, DOMAIN issued)
      /\ InLine(w, Tail(queue[w]), config.hash, arrived, DOMAIN issued, last, Head(queue[w]))
  BY <1>2, <1>4, QueueTypes, LineMoves
<1>6. Tail(queue[w]) \in Seq(Datagram) /\ Len(Tail(queue[w])) <= Capacity /\ Head(queue[w]) # None
  BY <1>3, <1>2, RequestsAssumption, <1>5, NoneAssumption
<1>7. /\ job'[w] = Head(queue[w]) /\ queue'[w] = Tail(queue[w]) /\ pc'[w] = "process"
      /\ \A v \in Workers : v # w => job'[v] = job[v] /\ queue'[v] = queue[v] /\ pc'[v] = pc[v]
  BY <1>2, <1>3
<1>8. WorkTypeOK'
  BY <1>2, <1>3, <1>6, <1>5, <1>1 DEF PCs, WorkTypeOK
<1>9. PhaseOK'
  BY <1>1, <1>2, <1>6, <1>7 DEF PhaseOK
<1>10. QueueOK'
  BY <1>5, <1>7, QueueTypes, <1>2 DEF QueueOK
<1>11. QED
  BY <1>1, <1>2, <1>8, <1>9, <1>10, SameNonces, SameCleanup DEF Inv

\* A worker goes on with its request.
LEMMA StepInv ==
    ASSUME Inv, NEW w \in Workers, NEW next \in {"nonce", "password", "handle", "sign"}, Step(w, next),
           pc[w] \notin {"recv", "send"}, job[w].kind = "request",
           next \in {"nonce", "password"} => ~config.auth_disabled /\ job[w].nonce # None
    PROVE  Inv'
  BY SameQueues, SameNonces, SameCleanup DEF Inv, Step, time, auth, WorkTypeOK, PCs, PhaseOK

\* A worker is done with its datagram, which was or was not handled.
LEMMA DoneQueues ==
    ASSUME Inv, NEW w \in Workers, job[w] # None, UNCHANGED <<config, queue, arrived>>,
           last' \in {last, [last EXCEPT ![job[w].from] = job[w].no]},
           job' \in {job, [job EXCEPT ![w] = None]}, DOMAIN issued \subseteq DOMAIN issued'
    PROVE  QueueOK'
<1>1. /\ arrived \in Nat /\ last \in [Clients -> Nat]
      /\ job[w] \in Datagram /\ job[w].no \in Nat /\ job[w].no <= arrived
      /\ job[w].from \in Clients /\ config.hash[job[w].from] = w
  BY QueueTypes, DatagramFields DEF Here
<1>2. job \in [Workers -> Datagram \cup {None}]
  BY DEF Inv, WorkTypeOK
<1>3. /\ job'[w] \in {job[w], None} /\ \A v \in Workers : v # w => job'[v] = job[v]
      /\ \A x \in Clients : x # job[w].from => last'[x] = last[x]
      /\ last'[job[w].from] \in {last[job[w].from], job[w].no}
  BY <1>1, <1>2
<1>4. ASSUME NEW v \in Workers
      PROVE  /\ job'[v] # None => Here(v, job'[v], config.hash, arrived, DOMAIN issued')
             /\ InLine(v, queue[v], config.hash, arrived, DOMAIN issued', last', job'[v])
  <2>1. /\ queue[v] \in Seq(Datagram) /\ (job[v] # None => job[v] \in Datagram) /\ arrived <= arrived
        /\ job[v] # None => Here(v, job[v], config.hash, arrived, DOMAIN issued)
        /\ InLine(v, queue[v], config.hash, arrived, DOMAIN issued, last, job[v])
    BY <1>1, QueueTypes
  <2>2. job'[v] = job[v] \/ job'[v] = None
    BY <1>3
  <2>3. job'[v] # None => Here(v, job'[v], config.hash, arrived, DOMAIN issued')
    BY <1>1, <2>1, <2>2, HereStays
  <2>4. CASE v = w /\ last' = [last EXCEPT ![job[w].from] = job[w].no]
    BY <1>1, <2>1, <2>2, <2>3, <2>4, LineServed, ZenonT(30)
  <2>5. CASE v # w \/ last' = last
    BY <1>1, <1>3, <2>5, <2>1, <2>2, <2>3, LineStays
  <2>6. QED
    BY <2>4, <2>5
<1>5. ASSUME NEW x \in Clients PROVE last'[x] <= arrived
  BY <1>1, <1>3, QueueTypes
<1>6. QED
  BY <1>4, <1>5 DEF QueueOK

\* A new nonce is the newest.
LEMMA NonceGiven ==
    ASSUME Inv, NEW no \in Nonces, NEW c \in Clients, UNCHANGED <<clock, cleaned>>,
           nonces' = Insert(nonces, no, clock), issued' = Insert(issued, no, [to |-> c, at |-> clock])
    PROVE  /\ DOMAIN nonces' \subseteq Nonces /\ \A n \in DOMAIN nonces' : nonces'[n] \in 0..MaxTime
           /\ DOMAIN issued' \subseteq Nonces
           /\ \A n \in DOMAIN issued' : issued'[n] \in [to : Clients, at : 0..MaxTime]
           /\ DOMAIN issued \subseteq DOMAIN issued'
           /\ NonceOK' /\ CleanupOK'
<1> DEFINE given == [to |-> c, at |-> clock]
<1>1. NonceOK /\ CleanupOK /\ WorkTypeOK
  BY DEF Inv
<1>2. /\ DOMAIN nonces \subseteq Nonces /\ \A n \in DOMAIN nonces : nonces[n] \in 0..MaxTime
      /\ DOMAIN issued \subseteq Nonces /\ \A n \in DOMAIN issued : issued[n] \in [to : Clients, at : 0..MaxTime]
      /\ clock \in 0..MaxTime /\ clock \in Nat /\ cleaned \in Nat
  BY <1>1 DEF WorkTypeOK
<1>3. given \in [to : Clients, at : 0..MaxTime] /\ given.at = clock
  BY <1>2
<1> HIDE DEF given
<1>4. /\ DOMAIN nonces' = DOMAIN nonces \cup {no} /\ nonces'[no] = clock
      /\ \A n \in DOMAIN nonces : n # no => nonces'[n] = nonces[n]
  BY DEF Insert
<1>5. /\ DOMAIN issued' = DOMAIN issued \cup {no} /\ issued'[no] = given
      /\ \A n \in DOMAIN issued : n # no => issued'[n] = issued[n]
  BY DEF Insert, given
<1>6. /\ \A n \in DOMAIN nonces' : nonces'[n] \in 0..MaxTime
      /\ \A n \in DOMAIN issued' : issued'[n] \in [to : Clients, at : 0..MaxTime]
  BY <1>2, <1>3, <1>4, <1>5
<1>7. NonceOK'
  BY <1>1, <1>3, <1>4, <1>5, <1>2 DEF NonceOK
<1>8. CleanupOK'
  BY <1>1, <1>2, <1>4, RequestsAssumption DEF CleanupOK
<1>9. QED
  BY <1>2, <1>4, <1>5, <1>6, <1>7, <1>8

\* A worker has handled its datagram, and may have given out a nonce.
LEMMA ReplyInv ==
    ASSUME Inv, NEW w \in Workers, NEW how \in Outcomes, NEW key \in Passwords \cup {None}, Reply(w, how, key),
           pc[w] \notin {"recv", "send"},
           \/ UNCHANGED <<nonces, issued>>
           \/ /\ nonces' = Insert(nonces, job[w].no, clock)
              /\ issued' = Insert(issued, job[w].no, [to |-> job[w].from, at |-> clock])
    PROVE  Inv'
<1>1. WorkTypeOK /\ PhaseOK /\ NonceOK /\ CleanupOK
  BY DEF Inv
<1>2. /\ job[w] \in Datagram /\ job[w] # None /\ job[w].from \in Clients /\ job[w].no \in 1..MaxDatagrams
      /\ UNCHANGED <<config, queue, clock, cleaned, users, arrived>>
      /\ last' = [last EXCEPT ![job[w].from] = job[w].no]
  BY JobIsDatagram DEF Reply, time, auth
<1>3. [how |-> how, key |-> key] \in Answer /\ [how |-> how, key |-> key] # None
  BY NoneAssumption DEF Answer
<1>4. \/ /\ pc' = [pc EXCEPT ![w] = "recv"] /\ job' = [job EXCEPT ![w] = None]
         /\ steady' = [steady EXCEPT ![w] = TRUE] /\ answer' = answer
      \/ /\ pc' = [pc EXCEPT ![w] = "send"] /\ answer' = [answer EXCEPT ![w] = [how |-> how, key |-> key]]
         /\ job' = job /\ steady' = steady
  BY DEF Reply
<1>5. /\ DOMAIN nonces' \subseteq Nonces /\ \A n \in DOMAIN nonces' : nonces'[n] \in 0..MaxTime
      /\ DOMAIN issued' \subseteq Nonces
      /\ \A n \in DOMAIN issued' : issued'[n] \in [to : Clients, at : 0..MaxTime]
      /\ DOMAIN issued \subseteq DOMAIN issued'
      /\ NonceOK' /\ CleanupOK'
  BY <1>1, <1>2, SameNonces, SameCleanup, NonceGiven, ZenonT(30) DEF WorkTypeOK, Nonces
<1>6. QueueOK'
  BY <1>2, <1>4, <1>5, DoneQueues, ZenonT(30)
<1>7. /\ pc \in [Workers -> PCs] /\ job \in [Workers -> Datagram \cup {None}]
      /\ answer \in [Workers -> Answer \cup {None}] /\ steady \in [Workers -> BOOLEAN]
      /\ last \in [Clients -> 0..MaxDatagrams]
  BY <1>1, ZenonT(30) DEF WorkTypeOK
<1>8. WorkTypeOK'
  <2>1. pc' \in [Workers -> PCs] /\ job' \in [Workers -> Datagram \cup {None}]
    BY <1>4, <1>7 DEF PCs
  <2>2. answer' \in [Workers -> Answer \cup {None}] /\ steady' \in [Workers -> BOOLEAN]
    BY <1>3, <1>4, <1>7, ZenonT(30)
  <2>3. last' \in [Clients -> 0..MaxDatagrams]
    BY <1>2, <1>7
  <2>4. QED
    BY <1>1, <1>2, <1>5, <2>1, <2>2, <2>3, ZenonT(30) DEF WorkTypeOK
<1>9. PhaseOK'
  BY <1>1, <1>2, <1>3, <1>4, <1>7 DEF PhaseOK
<1>10. QED
  BY <1>1, <1>2, <1>5, <1>6, <1>8, <1>9 DEF Inv

\* The answer is out.
LEMMA SendInv ==
    ASSUME Inv, NEW w \in Workers, Send(w)
    PROVE  Inv'
  BY JobIsDatagram, DoneQueues, SameNonces, SameCleanup, ZenonT(30) DEF Inv, Send, time, auth,
     WorkTypeOK, PCs, PhaseOK

\* An answer that a client with a good user may get.
Fitting(w, how, key) ==
    LET c == job[w].from
    IN job[w].kind = "request" /\ ~config.auth_disabled /\ get_user_password(c) = Password[c] /\ check_acl(c) =>
           /\ how \notin {"forbidden", "unknown", "integrity"}
           /\ how = "success" => key = Password[c]

\* A worker goes on with a request that is good so far.
GoesOn(w, next) ==
    /\ Step(w, next)
    /\ job[w].kind = "request"
    /\ next \in {"nonce", "password"} => ~config.auth_disabled /\ job[w].nonce # None

\* A worker ends with an answer, or with none, and may have given out a nonce.
Ends(w, how, key) ==
    /\ Reply(w, how, key)
    /\ Fitting(w, how, key)
    /\ \/ UNCHANGED <<nonces, issued>>
       \/ /\ nonces' = Insert(nonces, job[w].no, clock)
          /\ issued' = Insert(issued, job[w].no, [to |-> job[w].from, at |-> clock])

\* The password a request is verified with is one, or there is none.
LEMMA LookupType ==
    ASSUME Inv, NEW c \in Clients
    PROVE  /\ get_password_for_user(c) \in Passwords \cup {None}
           /\ get_user_password(c) = Password[c] => get_password_for_user(c) = Password[c] /\ Password[c] # None
<1>inv. WorkTypeOK /\ PhaseOK /\ QueueOK /\ NonceOK /\ CleanupOK
  BY DEF Inv
<1>1. users[c] \in Accounts \cup {None} /\ (users[c] # None => users[c].password \in Passwords)
  BY <1>inv, RequestsAssumption DEF WorkTypeOK
<1>2. get_user_password(c) \in Passwords \cup {None}
  BY <1>1 DEF get_user_password
<1>3. config.password \in Passwords \cup {None}
  BY <1>inv, RequestsAssumption DEF WorkTypeOK
<1>4. QED
  BY <1>2, <1>3, RequestsAssumption DEF get_password_for_user

\* Between taking a datagram and sending the answer a worker goes on or ends.
LEMMA HandlingSteps ==
    ASSUME Inv, NEW w \in Workers, Process(w) \/ CheckNonce(w) \/ CheckPassword(w) \/ Handle(w) \/ Sign(w)
    PROVE  /\ pc[w] \notin {"recv", "send"}
           /\ \/ \E next \in {"nonce", "password", "handle", "sign"} : GoesOn(w, next)
              \/ \E how \in Outcomes, key \in Passwords \cup {None} : Ends(w, how, key)
<1>inv. WorkTypeOK /\ PhaseOK /\ QueueOK /\ NonceOK /\ CleanupOK
  BY ZenonT(30) DEF Inv
<1>1. pc[w] \in {"process", "nonce", "password", "handle", "sign"}
  BY DEF Process, CheckNonce, CheckPassword, Handle, Sign
<1>2. job[w].from \in Clients
  BY <1>1, JobIsDatagram
<1>3. ASSUME NEW how \in Outcomes, Fitting(w, how, None), Answered(w, how) \/ Challenged(w, how)
      PROVE  \E o \in Outcomes, key \in Passwords \cup {None} : Ends(w, o, key)
  BY <1>3 DEF Ends, Answered, Challenged
<1>4. CASE Process(w)
  BY <1>1, <1>3, <1>4, ZenonT(30) DEF Outcomes, Fitting, GoesOn, Challenges, Process
<1>5. CASE CheckNonce(w)
  BY <1>inv, <1>5, <1>1, <1>3, ZenonT(30) DEF CheckNonce, PhaseOK, Outcomes, Challenges, Fitting, GoesOn
<1>6. CASE CheckPassword(w)
  <2> DEFINE c == job[w].from
  <2>1. job[w].kind = "request"
    BY <1>inv, <1>6, ZenonT(30) DEF CheckPassword, PhaseOK
  <2>2. CASE Step(w, "handle")
    BY <1>1, <2>1, <2>2, ZenonT(30) DEF GoesOn
  <2>3. ASSUME NEW how \in {"unknown", "integrity"}, Challenged(w, how), get_password_for_user(c) # Password[c]
        PROVE  \E o \in Outcomes, key \in Passwords \cup {None} : Ends(w, o, key)
    BY <1>inv, <1>2, <2>3, LookupType, <1>3 DEF Outcomes, Challenges, Fitting
  <2>4. Password[c] # None
    BY <1>2, RequestsAssumption, ZenonT(30)
  <2>5. QED
    BY <1>1, <1>6, <2>2, <2>3, <2>4, ZenonT(30) DEF CheckPassword, verify_message_integrity
<1>7. CASE Handle(w)
  BY <1>inv, <1>7, <1>1, <1>3, ZenonT(30) DEF Handle, PhaseOK, Outcomes, Fitting, GoesOn
<1>8. CASE Sign(w)
  <2> DEFINE key == IF config.auth_disabled THEN None ELSE get_password_for_user(job[w].from)
  <2>1. key \in Passwords \cup {None} /\ "success" \in Outcomes
    BY <1>inv, <1>2, LookupType DEF Outcomes
  <2>2. Fitting(w, "success", key)
    BY <1>inv, <1>2, LookupType, ZenonT(30) DEF Fitting
  <2>3. Ends(w, "success", key)
    BY <1>8, <2>2 DEF Sign, Ends
  <2>4. QED
    BY <1>1, <2>1, <2>3
<1>9. QED
  BY <1>4, <1>5, <1>6, <1>7, <1>8

\* Every step of a worker keeps the invariant.
LEMMA WorkInv ==
    ASSUME Inv, NEW w \in Workers, Work(w)
    PROVE  Inv'
<1>inv. WorkTypeOK /\ PhaseOK /\ QueueOK /\ NonceOK /\ CleanupOK
  BY DEF Inv
<1>1. CASE Take(w)
  BY <1>1, TakeInv
<1>2. CASE Send(w)
  BY <1>2, SendInv
<1>3. CASE Process(w) \/ CheckNonce(w) \/ CheckPassword(w) \/ Handle(w) \/ Sign(w)
  BY <1>3, HandlingSteps, StepInv, ReplyInv, ZenonT(30) DEF GoesOn, Ends
<1>4. QED
  BY <1>1, <1>2, <1>3 DEF Work

\* A step of an admin handler changes users and rules only.
LEMMA AdminSteps ==
    ASSUME Inv, Administer
    PROVE  Disturb /\ users' \in [Clients -> Accounts \cup {None}]
<1>1. users \in [Clients -> Accounts \cup {None}] /\ Managed \subseteq Clients
  BY RequestsAssumption DEF Inv, WorkTypeOK
<1>2. ASSUME NEW c \in Managed, NEW a \in Accounts, AddUser(c, a) \/ UpdateUserAdds(c, a)
      PROVE  Disturb /\ users' \in [Clients -> Accounts \cup {None}]
  BY <1>1, <1>2 DEF AddUser, UpdateUserAdds, Change
<1>3. ASSUME NEW c \in Managed, NEW a, DeleteUser(c) \/ UpdateUser(c, a)
      PROVE  Disturb /\ users' \in [Clients -> Accounts \cup {None}]
  BY <1>1, <1>3 DEF DeleteUser, UpdateUser, Change
<1>4. ASSUME NEW r, NEW new, AddRule(r) \/ UpdateRuleAdds(r) \/ DeleteRule(r) \/ UpdateRule(r, new)
      PROVE  Disturb /\ users' \in [Clients -> Accounts \cup {None}]
  BY <1>1, <1>4 DEF AddRule, UpdateRuleAdds, DeleteRule, UpdateRule, Change
<1>5. QED
  BY <1>2, <1>3, <1>4 DEF Administer

\* Administration keeps the invariant.
LEMMA AdminInv ==
    ASSUME Inv, Administer
    PROVE  Inv'
<1>inv. WorkTypeOK /\ PhaseOK /\ QueueOK /\ NonceOK /\ CleanupOK
  BY DEF Inv
<1>1. Disturb /\ users' \in [Clients -> Accounts \cup {None}]
  BY AdminSteps
<1>2. UNCHANGED <<config, queue, pc, job, answer, clock, cleaned, nonces, arrived, last, issued>>
  BY <1>1 DEF Disturb, time
<1>3. steady' \in [Workers -> BOOLEAN]
  BY <1>inv, <1>1, ZenonT(30) DEF Disturb, WorkTypeOK
<1>4. WorkTypeOK'
  BY <1>inv, <1>1, <1>2, <1>3 DEF WorkTypeOK
<1>5. QED
  BY <1>inv, <1>2, <1>4, SamePhases, SameQueues, SameNonces, SameCleanup DEF Inv

\* So do time and the cleanup.
LEMMA TimeInv ==
    ASSUME Inv, Tick \/ CleanupNonces
    PROVE  Inv'
<1>inv. WorkTypeOK /\ PhaseOK /\ QueueOK /\ NonceOK /\ CleanupOK
  BY DEF Inv
<1>0. NonceExpiry \in Nat /\ CleanupInterval \in Nat /\ MaxTime \in Nat
  BY RequestsAssumption
<1>1. /\ UNCHANGED <<config, queue, pc, job, answer, users, arrived, last, issued, steady>>
      /\ clock' \in 0..MaxTime /\ cleaned' \in 0..MaxTime
      /\ clock <= clock' /\ cleaned' <= clock' /\ clock' <= cleaned' + CleanupInterval
  BY <1>inv, <1>0 DEF Tick, auth, WorkTypeOK, CleanupOK, CleanupNonces
<1>2. /\ DOMAIN nonces' \subseteq DOMAIN nonces
      /\ \A n \in DOMAIN nonces' : nonces'[n] = nonces[n]
      /\ \A n \in DOMAIN nonces \ DOMAIN nonces' : clock' - nonces[n] >= NonceExpiry
      /\ \A n \in DOMAIN nonces' : cleaned' <= nonces'[n] + NonceExpiry
  BY <1>inv, <1>0 DEF WorkTypeOK, Tick, CleanupOK, CleanupNonces
<1>3. WorkTypeOK'
  BY <1>inv, <1>0, <1>1, <1>2 DEF WorkTypeOK
<1>4. PhaseOK' /\ QueueOK'
  BY <1>1, SamePhases, SameQueues DEF Inv
<1>5. NonceOK'
  <2>1. \A n \in DOMAIN issued : issued[n].at \in 0..MaxTime
    BY <1>inv, <1>0 DEF WorkTypeOK
  <2>2. \A n \in DOMAIN issued : /\ issued[n].at <= clock'
                                 /\ n \notin DOMAIN nonces' => clock' - issued[n].at >= NonceExpiry
    <3>1. clock \in Nat /\ clock' \in Nat
      BY <1>inv, <1>0, <1>1 DEF WorkTypeOK
    <3>2. ASSUME NEW n \in DOMAIN issued PROVE issued[n].at <= clock'
      BY <1>inv, <1>0, <1>1, <2>1, <3>1 DEF NonceOK
    <3>3. ASSUME NEW n \in DOMAIN issued, n \notin DOMAIN nonces' PROVE clock' - issued[n].at >= NonceExpiry
      BY <1>inv, <1>0, <1>2, <3>3, <1>1, <2>1, <3>1 DEF NonceOK
    <3>4. QED
      BY <3>2, <3>3
  <2>3. \A n \in DOMAIN nonces' : n \in DOMAIN issued' /\ nonces'[n] = issued'[n].at
    BY <1>inv, <1>0, <1>1, <1>2 DEF NonceOK
  <2>4. \A n \in DOMAIN issued' : /\ issued'[n].at <= clock'
                                  /\ n \notin DOMAIN nonces' => clock' - issued'[n].at >= NonceExpiry
    BY <1>1, <2>2
  <2>5. QED
    BY <2>3, <2>4, ZenonT(30) DEF NonceOK
<1>6. CleanupOK'
  BY <1>0, <1>1, <1>2, ZenonT(30) DEF CleanupOK
<1>7. QED
  BY <1>3, <1>4, <1>5, <1>6 DEF Inv

-----------------------------------------------------------------------------
(* What the workers promise                                                *)

\* The invariant holds in every state.
LEMMA RequestsInvariant == Spec => []Inv
<1>1. Inv /\ [Next]_vars => Inv'
  <2> SUFFICES ASSUME Inv, [Next]_vars PROVE Inv'
    OBVIOUS
  <2>1. ASSUME NEW c \in Clients, Receive(c) PROVE Inv'
    BY <2>1, ReceiveInv
  <2>2. ASSUME NEW w \in Workers, Work(w) PROVE Inv'
    BY <2>2, WorkInv
  <2>3. CASE Administer
    BY <2>3, AdminInv
  <2>4. CASE Tick \/ CleanupNonces
    BY <2>4, TimeInv, ZenonT(30)
  <2>5. CASE UNCHANGED vars
    BY <2>5, SamePhases, SameQueues, SameNonces, SameCleanup DEF vars, time, auth, Inv, WorkTypeOK
  <2>6. QED
    BY <2>1, <2>2, <2>3, <2>4, <2>5 DEF Next
<1>2. QED
  BY <1>1, RequestsInit, PTL DEF Spec

\* For any number of clients, workers and datagrams: the datagrams of a client are handled by one
\* worker in the order of their arrival, whatever is dropped at a full queue.
THEOREM HandledInOrder == Spec => []InOrderPerClient
<1>1. Inv => InOrderPerClient
  <2> SUFFICES ASSUME Inv, NEW w \in Workers, NEW i \in 1..Len(queue[w])
               PROVE  /\ last[queue[w][i].from] < queue[w][i].no
                      /\ \A v \in Workers : job[v] # None /\ job[v].from = queue[w][i].from =>
                             v = w /\ job[v].no < queue[w][i].no
                      /\ \A v \in Workers : \A j \in 1..Len(queue[v]) :
                             queue[v][j].from = queue[w][i].from =>
                                 v = w /\ (i < j => queue[w][i].no < queue[v][j].no)
    BY Zenon DEF InOrderPerClient
  <2>1. ASSUME NEW v \in Workers, job[v] # None PROVE config.hash[job[v].from] = v
    BY <2>1, QueueTypes DEF Here
  <2>2. ASSUME NEW v \in Workers, NEW j \in 1..Len(queue[v]) PROVE config.hash[queue[v][j].from] = v
    BY QueueTypes, ZenonT(30) DEF InLine, Here
  <2>3. /\ last[queue[w][i].from] < queue[w][i].no
        /\ job[w] # None => job[w].no < queue[w][i].no
        /\ \A j \in 1..Len(queue[w]) : i < j => queue[w][i].no < queue[w][j].no
    BY QueueTypes DEF InLine
  <2>4. QED
    BY <2>1, <2>2, <2>3
<1>2. QED
  BY <1>1, RequestsInvariant, PTL
-----------------------------------------------------------------------------
(* Requests: known users and nonces                                        *)

\* The steps of a worker leave the others where they are.
LEMMA OneWorkerMoves ==
    ASSUME Inv, NEW v \in Workers, Work(v), NEW w \in Workers, w # v
    PROVE  pc'[w] = pc[w] /\ job'[w] = job[w] /\ answer'[w] = answer[w] /\ steady'[w] = steady[w]
<1>inv. WorkTypeOK /\ PhaseOK /\ QueueOK /\ NonceOK /\ CleanupOK
  BY DEF Inv
<1>1. CASE Take(v) \/ Send(v)
  BY <1>inv, <1>1 DEF Take, Send, WorkTypeOK
<1>2. CASE Process(v) \/ CheckNonce(v) \/ CheckPassword(v) \/ Handle(v) \/ Sign(v)
  <2>1. ASSUME NEW next, Step(v, next)
        PROVE  pc'[w] = pc[w] /\ job'[w] = job[w] /\ answer'[w] = answer[w] /\ steady'[w] = steady[w]
    BY <1>inv, <2>1 DEF Step, WorkTypeOK
  <2>2. ASSUME NEW how, NEW key, Reply(v, how, key)
        PROVE  pc'[w] = pc[w] /\ job'[w] = job[w] /\ answer'[w] = answer[w] /\ steady'[w] = steady[w]
    BY <1>inv, <2>2, ZenonT(30) DEF Reply, WorkTypeOK
  <2>3. QED
    BY <1>2, <2>1, <2>2, HandlingSteps, ZenonT(30) DEF GoesOn, Ends
<1>3. QED
  BY <1>1, <1>2 DEF Work

\* KnownUserIsServed for one worker.
Served(w) ==
    pc[w] = "send" /\ steady[w] => Fitting(w, answer[w].how, answer[w].key)

\* It stays so while the worker stays, and its client's user and rules are what they were.
LEMMA ServedStays ==
    ASSUME Inv, NEW w \in Workers, Served(w), pc'[w] = pc[w], job'[w] = job[w], answer'[w] = answer[w],
           config' = config, steady'[w] => steady[w],
           \A c \in Clients : pc[w] = "send" /\ steady'[w] /\ c = job[w].from =>
               /\ get_user_password(c)' = Password[c] => get_user_password(c) = Password[c]
               /\ Admits(acl', c) <=> Admits(acl, c)
    PROVE  Served(w)'
<1>inv. WorkTypeOK /\ PhaseOK /\ QueueOK /\ NonceOK /\ CleanupOK
  BY ZenonT(30) DEF Inv
<1> SUFFICES ASSUME pc[w] = "send", steady'[w], job[w].kind = "request", ~config.auth_disabled,
                    get_user_password(job[w].from)' = Password[job[w].from], Admits(acl', job[w].from)
             PROVE  /\ answer[w].how \notin {"forbidden", "unknown", "integrity"}
                    /\ answer[w].how = "success" => answer[w].key = Password[job[w].from]
  BY DEF Served, Fitting, check_acl
<1>1. job[w].from \in Clients
  BY JobIsDatagram
<1>2. QED
  BY <1>1 DEF Served, Fitting, check_acl

\* A worker's own steps.
LEMMA ServedWork ==
    ASSUME Inv, NEW w \in Workers, Work(w)
    PROVE  Served(w)'
<1>inv. WorkTypeOK /\ PhaseOK /\ QueueOK /\ NonceOK /\ CleanupOK
  BY DEF Inv
<1>1. UNCHANGED <<config, clock, users, acl>>
  BY HandlingSteps, ZenonT(30) DEF Take, Send, time, auth, GoesOn, Ends, Step, Reply, Work
<1>2. CASE Take(w) \/ Send(w)
  BY <1>inv, <1>2, ZenonT(30) DEF Take, Send, Served, WorkTypeOK
<1>3. ASSUME NEW next \in {"nonce", "password", "handle", "sign"}, GoesOn(w, next) PROVE Served(w)'
  BY <1>inv, <1>3, ZenonT(30) DEF GoesOn, Step, Served, WorkTypeOK
<1>4. ASSUME NEW how, NEW key, Ends(w, how, key) PROVE Served(w)'
  <2>1. pc \in [Workers -> PCs] /\ answer \in [Workers -> Answer \cup {None}]
    BY <1>inv, ZenonT(30) DEF WorkTypeOK
  <2>2. \/ pc'[w] = "recv"
        \/ answer'[w] = [how |-> how, key |-> key] /\ UNCHANGED <<config, job, users, acl, clock>>
    BY <1>4, <1>1, <2>1, ZenonT(30) DEF Ends, Reply
  <2>3. CASE pc'[w] = "recv"
    BY <2>3, ZenonT(30) DEF Served
  <2>4. CASE answer'[w] = [how |-> how, key |-> key] /\ UNCHANGED <<config, job, users, acl, clock>>
    <3>1. answer'[w].how = how /\ answer'[w].key = key
      BY <2>4
    <3>2. Fitting(w, how, key)
      BY <1>4, ZenonT(30) DEF Ends
    <3>3. QED
      BY <2>4, <3>1, <3>2, ZenonT(30) DEF Served, Fitting, check_acl, get_user_password
  <2>5. QED
    BY <2>2, <2>3, <2>4, ZenonT(30)
<1>5. QED
  BY <1>2, <1>3, <1>4, HandlingSteps DEF Work

\* A worker that leaves the check of a nonce has found it good or not.
LEMMA NonceSteps ==
    ASSUME Inv, [Next]_vars, NEW w \in Workers, pc[w] = "nonce", pc'[w] # "nonce"
    PROVE  LET age == clock - issued[job[w].nonce].at IN
           /\ age < NonceExpiry => pc'[w] = "password"
           /\ age > NonceExpiry => pc'[w] = "send"
<1>inv. WorkTypeOK /\ PhaseOK /\ QueueOK /\ NonceOK /\ CleanupOK
  BY DEF Inv
<1> DEFINE Age == clock - issued[job[w].nonce].at
<1>1. ASSUME CheckNonce(w)
      PROVE  /\ Age < NonceExpiry => pc'[w] = "password"
             /\ Age > NonceExpiry => pc'[w] = "send"
  <2>1. job[w] # None /\ job[w].nonce # None /\ job[w].nonce \in DOMAIN issued /\ pc \in [Workers -> PCs]
    BY <1>inv, <1>1, QueueTypes DEF CheckNonce, PhaseOK, WorkTypeOK, Here
  <2>typ. /\ clock \in 0..MaxTime /\ MaxTime \in Nat /\ NonceExpiry \in Nat
          /\ issued[job[w].nonce] \in [to : Clients, at : 0..MaxTime]
    BY <1>inv, <2>1, RequestsAssumption, ZenonT(30) DEF WorkTypeOK
  <2>2. issued[job[w].nonce].at \in Nat /\ clock \in Nat
    BY <2>typ
  <2>3. CASE job[w].nonce \in DOMAIN nonces /\ clock - nonces[job[w].nonce] <= NonceExpiry
    <3>1. pc'[w] = "password"
      BY <1>1, <2>1, <2>3, ZenonT(30) DEF CheckNonce, Step
    <3>2. nonces[job[w].nonce] = issued[job[w].nonce].at
      BY <1>inv, <2>3, ZenonT(30) DEF NonceOK
    <3>3. QED
      BY <2>typ, <2>2, <2>3, <3>1, <3>2
  <2>4. CASE ~(job[w].nonce \in DOMAIN nonces /\ clock - nonces[job[w].nonce] <= NonceExpiry)
    <3>1. pc'[w] = "send"
      BY <1>1, <2>1, <2>4, ZenonT(30) DEF CheckNonce, Challenged, Reply
    <3>2. \/ job[w].nonce \in DOMAIN nonces /\ nonces[job[w].nonce] = issued[job[w].nonce].at
          \/ job[w].nonce \notin DOMAIN nonces /\ clock - issued[job[w].nonce].at >= NonceExpiry
      BY <1>inv, <2>1, ZenonT(30) DEF NonceOK
    <3>3. QED
      BY <2>typ, <2>2, <2>4, <3>1, <3>2
  <2>5. QED
    BY <2>3, <2>4, ZenonT(30)
<1>2. ASSUME NEW v \in Workers, Work(v) PROVE CheckNonce(w)
  BY <1>2, OneWorkerMoves, ZenonT(30) DEF Work, Take, Process, CheckPassword, Handle, Sign, Send
<1>3. CASE ~ \E v \in Workers : Work(v)
  BY <1>3, AdminSteps DEF Next, Receive, Tick, CleanupNonces, vars, Disturb
<1>4. QED
  BY <1>1, <1>2, <1>3, ZenonT(30)

\* Other steps keep it, too.
LEMMA ServedSteps ==
    ASSUME Inv, NEW w \in Workers, Served(w)
    PROVE  /\ (\E c \in Clients : Receive(c)) \/ CleanupNonces \/ Tick \/ UNCHANGED vars => Served(w)'
           /\ Administer => Served(w)'
           /\ (\E v \in Workers : Work(v)) => Served(w)'
<1>inv. WorkTypeOK /\ PhaseOK /\ QueueOK /\ NonceOK /\ CleanupOK
  BY DEF Inv
<1>1. Served(w)
  OBVIOUS
<1>2. CASE (\E c \in Clients : Receive(c)) \/ CleanupNonces \/ UNCHANGED vars
  BY <1>2, <1>1, ServedStays, ZenonT(30) DEF Receive, CleanupNonces, vars, time, auth,
     get_user_password
<1>3. CASE Tick
  <2>1. UNCHANGED <<config, pc, job, answer, users, acl, steady>> /\ clock' = clock + 1
    BY <1>3, ZenonT(30) DEF Tick, auth
  <2>typ. clock \in 0..MaxTime /\ users \in [Clients -> Accounts \cup {None}]
    BY <1>inv, ZenonT(30) DEF WorkTypeOK
  <2>2. ASSUME NEW c \in Clients, get_user_password(c)' = Password[c]
        PROVE  get_user_password(c) = Password[c]
    <3>1. /\ users[c] # None => \/ users[c].expires = Never
                                \/ users[c].expires \in Nat /\ (clock + 1 <= users[c].expires => clock <= users[c].expires)
          /\ Password[c] # None
      BY RequestsAssumption, <2>typ
    <3>2. QED
      BY <2>1, <2>2, <3>1, ZenonT(30) DEF get_user_password
  <2>3. QED
    BY <1>1, <2>1, <2>2, ServedStays, ZenonT(30)
<1>4. ASSUME Administer PROVE Served(w)'
  BY <1>4, AdminSteps, JobIsDatagram, <1>1, ServedStays, ZenonT(30) DEF Disturb, time, get_user_password
<1>5. ASSUME NEW v \in Workers, Work(v), v # w PROVE Served(w)'
  <2>1. UNCHANGED <<config, clock, users, acl>>
    BY HandlingSteps, <1>5, ZenonT(30) DEF Take, Send, time, auth, GoesOn, Ends, Step, Reply, Work
  <2>2. QED
    BY <1>1, <1>5, <2>1, OneWorkerMoves, ServedStays, ZenonT(30) DEF get_user_password
<1>6. QED
  BY <1>2, <1>3, <1>4, <1>5, ServedWork

\* For any expiry and any interval of the cleanup: a nonce is accepted while it is younger than
\* NonceExpiry, and refused when it is older, although the check and the cleanup count the age
\* differently and each at its own time.
THEOREM NoncesLast == Spec => NonceLifetime
<1> DEFINE Kept == \A w \in Workers : pc[w] = "nonce" /\ pc'[w] # "nonce" =>
                       LET age == clock - issued[job[w].nonce].at IN
                       /\ age < NonceExpiry => pc'[w] = "password"
                       /\ age > NonceExpiry => pc'[w] = "send"
<1>1. Inv /\ [Next]_vars => [Kept]_vars
  BY NonceSteps
<1>2. QED
  BY <1>1, RequestsInvariant, PTL DEF Spec, NonceLifetime, Kept

\* For any users, rules and administrative changes at any time: a client with a good user that
\* may use the server is not refused for its credentials and gets answers signed with its
\* password, unless its own user or rules were changed while the request was handled.
THEOREM KnownUsersServed == Spec => []KnownUserIsServed
<1> DEFINE AllServed == \A w \in Workers : Served(w)
<1>1. Init => AllServed
  BY ZenonT(30) DEF Init, Served
<1>2. Inv /\ AllServed /\ [Next]_vars => AllServed'
  <2> SUFFICES ASSUME Inv, [Next]_vars, NEW w \in Workers, Served(w) PROVE Served(w)'
    OBVIOUS
  <2>1. QED
    BY ServedSteps DEF Next
<1>3. AllServed => KnownUserIsServed
  BY DEF Served, Fitting, KnownUserIsServed
<1>4. QED
  BY <1>1, <1>2, <1>3, RequestsInvariant, PTL DEF Spec

\* The cleanup's promise, which no run states: no nonce stays for longer than its expiry and one
\* interval of the cleanup, so that the map holds no more than was given out in that time.
NoOldNonces == \A n \in DOMAIN nonces : clock - nonces[n] <= NonceExpiry + CleanupInterval

\* For any expiry and interval: nonces do not stay in the map for good.
THEOREM NoncesForgotten == Spec => []NoOldNonces
<1>1. Inv => NoOldNonces
  BY RequestsAssumption DEF Inv, WorkTypeOK, CleanupOK, NoOldNonces
<1>2. QED
  BY <1>1, RequestsInvariant, PTL
=============================================================================
