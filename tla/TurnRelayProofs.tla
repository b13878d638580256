--------------------------- MODULE TurnRelayProofs ---------------------------
(***************************************************************************)
(* Proofs about TurnRelay for any flows, clients, ports, peers, channels   *)
(* and cleanup tasks.  The invariants are layered: types and locals, the   *)
(* exclusive lock, and port ownership here; socket ownership, channel      *)
(* bindings and the client's allocations in TurnRelayClientProofs.  Each   *)
(* layer is inductive given those before it.                               *)
(***************************************************************************)
EXTENDS TurnRelay, TLAPS

\* The locals a handler or a cleanup task relies on are set where it relies on them.
WithPort == PCs \ {"idle", "al_quota", "al_port"}

LocalsOK ==
    /\ \A f \in Flows : client[f] \in ClientsOf[f]
    /\ \A f \in Flows : pc[f] \in WithPort => port[f] \in Ports
    /\ \A f \in Flows : pc[f] # "idle" => reply[f] = "none"
    /\ \A c \in Cleaners : cpc[c] = "unbind" => cport[c] \in Ports
    /\ \A c \in Cleaners : ~Cleaning(c) => todo[c] = {} /\ count[c] = 0

\* The parts of TypeOK and LocalsOK, by the group of variables they are about.
TablesOK ==
    /\ allocations \in [Ports -> Allocation \cup {None}]
    /\ portBits \in SUBSET Ports
    /\ active \in Int
    /\ channels \in [Ports -> [Channels -> ChannelBinding \cup {None}]]

RelaysOK ==
    /\ socket \in [Ports -> [open : BOOLEAN, gen : Nat]]
    /\ task \in [Ports -> {"running", "aborted", "gone"}]
    /\ mainSocket \in BOOLEAN
    /\ defaultSender \in Ports \cup {None}

ClientsOK ==
    /\ client \in [Flows -> Clients]
    /\ \A f \in Flows : client[f] \in ClientsOf[f]

FlowsOK ==
    /\ ClientsOK
    /\ pc \in [Flows -> PCs]
    /\ port \in [Flows -> Ports \cup {None}]
    /\ seen \in [Flows -> Nat]
    /\ tries \in [Flows -> 0..MaxAttempts - 1]
    /\ reply \in [Flows -> Replies]
    /\ \A f \in Flows : pc[f] \in WithPort => port[f] \in Ports
    /\ \A f \in Flows : pc[f] # "idle" => reply[f] = "none"

CleanersOK ==
    /\ cpc \in [Cleaners -> {"idle", "guard", "next", "unbind"}]
    /\ cport \in [Cleaners -> Ports \cup {None}]
    /\ todo \in [Cleaners -> SUBSET Ports]
    /\ count \in [Cleaners -> Nat]
    /\ \A c \in Cleaners : cpc[c] = "unbind" => cport[c] \in Ports
    /\ \A c \in Cleaners : cpc[c] \in {"idle", "guard"} => todo[c] = {} /\ count[c] = 0

\* The write lock of the allocation table has one holder.
LockOK ==
    /\ \A f, g \in Flows : pc[f] \in Removing /\ pc[g] \in Removing => f = g
    /\ \A f \in Flows, c \in Cleaners : pc[f] \in Removing => ~Cleaning(c)
    /\ \A c, d \in Cleaners : Cleaning(c) /\ Cleaning(d) => c = d
    /\ \A c \in Cleaners : todo[c] \subseteq Live

-----------------------------------------------------------------------------
(* Types and locals                                                        *)

\* The parts make up the whole.
LEMMA Parts == (TypeOK /\ LocalsOK) <=> (TablesOK /\ RelaysOK /\ FlowsOK /\ CleanersOK)
BY DEF TypeOK, LocalsOK, TablesOK, RelaysOK, FlowsOK, ClientsOK, CleanersOK, Cleaning

\* Init establishes the types and the locals' invariant.
LEMMA InitTypes == Init => TypeOK /\ LocalsOK
BY FlowsAssumption, TablesAssumption, BoundsAssumption
DEF Init, TypeOK, LocalsOK, Cleaning, PCs, Removing, Creating, Replies, WithPort

\* What an entry of the table is.
LEMMA LiveEntry ==
    ASSUME TablesOK, NEW p \in Live
    PROVE  p \in Ports /\ allocations[p] \in Allocation /\ allocations[p].gen \in Nat
BY DEF TablesOK, Live, Allocation

\* The ways a handler moves on keep the flows' part.
LEMMA FoundMove ==
    ASSUME FlowsOK, ClientsOK', TablesOK, NEW f \in Flows, NEW next \in PCs, NEW p \in Live, Found(f, p, next)
    PROVE  FlowsOK'
  BY LiveEntry DEF FlowsOK, Found, Replies

\* A handler that goes on without a port keeps the flows' part.
LEMMA ContinueMove ==
    ASSUME FlowsOK, ClientsOK', NEW f \in Flows, NEW next \in PCs \ WithPort, Continue(f, next)
    PROVE  FlowsOK'
BY DEF FlowsOK, Continue, Replies

\* A handler that sends its response keeps the flows' part.
LEMMA RespondMove ==
    ASSUME FlowsOK, ClientsOK', NEW f \in Flows, NEW r \in Replies, Respond(f, r)
    PROVE  FlowsOK'
BY BoundsAssumption DEF FlowsOK, Respond, PCs, WithPort

\* Where a lookup at the head of a handler leads.
LookupPCs == {"rf_set", "rf_remove", "pm_add", "cb_bind", "cd_send", "sd_check"}

\* Every request handler begins with find_allocation_by_client: Allocate's own, or one that
\* answers with a mismatch (or drops the packet) when the client has no allocation.
LEMMA RequestIsLookup ==
    ASSUME NEW f \in Flows, Request(f)
    PROVE  AllocateFind(f) \/ \E next \in LookupPCs, r \in {"none", "mismatch"} : FindOr(f, next, r)
BY DEF Request, RefreshFind, RefreshZeroFind, PermissionFind, BindFind, ChannelDataFind, SendFind,
       LookupPCs

\* A request's lookup keeps the flows' part and changes nothing else.
LEMMA RequestTypes ==
    ASSUME FlowsOK, TablesOK, NEW f \in Flows, Request(f)
    PROVE  FlowsOK' /\ UNCHANGED <<tables, relays, cleaners>>
<1>0. \A c \in ClientsOf[f] : client' = [client EXCEPT ![f] = c] => ClientsOK'
  BY FlowsAssumption DEF FlowsOK, ClientsOK
<1>o. \A c : OwnedBy(c) \subseteq Live
  BY DEF OwnedBy
<1>1. CASE AllocateFind(f)
  BY <1>1, <1>0, <1>o, FoundMove, ContinueMove, ZenonT(30) DEF PCs, WithPort, Creating, AllocateFind
<1>2. ASSUME NEW next \in LookupPCs, NEW r \in {"none", "mismatch"}, FindOr(f, next, r)
      PROVE  FlowsOK' /\ UNCHANGED <<tables, relays, cleaners>>
  BY <1>2, <1>0, <1>o, FoundMove, RespondMove, ZenonT(30) DEF LookupPCs, PCs, Replies, FindOr
<1>3. QED
  BY <1>1, <1>2, RequestIsLookup

\* The updates the actions make to the tables keep their types.
LEMMA TakeOutTypes ==
    ASSUME TablesOK, RelaysOK, NEW p \in Ports, TakeOut(p)
    PROVE  /\ allocations' \in [Ports -> Allocation \cup {None}]
           /\ portBits' \in SUBSET Ports
           /\ task' \in [Ports -> {"running", "aborted", "gone"}]
  BY DEF TablesOK, TakeOut, RelaysOK

\* ChannelTable::remove_for_relayed keeps the channel table's type.
LEMMA RemoveForRelayedTypes ==
    ASSUME TablesOK, NEW p, RemoveForRelayed(p)
    PROVE  channels' \in [Ports -> [Channels -> ChannelBinding \cup {None}]]
BY ZenonT(30) DEF TablesOK, RemoveForRelayed

\* Refreshing or running out of a lifetime keeps the allocation table's type.
LEMMA SetExpiredTypes ==
    ASSUME TablesOK, NEW p \in Live, NEW e \in BOOLEAN
    PROVE  [allocations EXCEPT ![p].expired = e] \in [Ports -> Allocation \cup {None}]
BY SMTT(30) DEF TablesOK, Allocation, Live

\* add_permissions keeps the allocation table's type.
LEMMA AddPermissionsTypes ==
    ASSUME TablesOK, NEW p \in Live, NEW s \in SUBSET Peers
    PROVE  [allocations EXCEPT ![p].permissions = @ \cup s] \in [Ports -> Allocation \cup {None}]
BY DEF TablesOK, Allocation, Live

\* Every step of a request handler after its lookup keeps types and locals.
LEMMA HandlerTypes ==
    ASSUME TablesOK, RelaysOK, FlowsOK, CleanersOK, NEW f \in Flows, Handler(f)
    PROVE  TablesOK' /\ RelaysOK' /\ FlowsOK' /\ CleanersOK'
<1> USE DEF tables, relays, senders, cleaners
<1>u. client' = client
  BY DEF Handler
<1>v. ClientsOK'
  BY <1>u DEF FlowsOK, ClientsOK
<1> USE <1>v
<1>r. \A r \in Replies : Respond(f, r) => FlowsOK'
  BY RespondMove
<1>s. {"none", "granted", "deleted", "ok", "mismatch", "refused"} \subseteq Replies
  BY DEF Replies
<1>c. \A next \in {"al_quota", "al_port"} : Continue(f, next) => FlowsOK'
  BY ContinueMove DEF PCs, WithPort, Creating
<1>o. OwnedBy(client[f]) \subseteq Live
  BY DEF OwnedBy
<1>1. CASE AllocateRemove(f) \/ RefreshRemove(f)
  <2>0. port[f] \in Ports /\ TakeOut(port[f])
    BY <1>1 DEF AllocateRemove, RefreshRemove, RemoveEntry, Live
  <2>1. TablesOK' /\ RelaysOK' /\ CleanersOK'
    BY <1>1, <2>0, TakeOutTypes
       DEF AllocateRemove, RefreshRemove, RemoveEntry, TablesOK, RelaysOK, CleanersOK
  <2>2. FlowsOK'
    BY <1>1 DEF AllocateRemove, RefreshRemove, RemoveEntry, FlowsOK, PCs, WithPort, Removing, Creating
  <2>3. QED
    BY <2>1, <2>2
<1>2. CASE AllocateRemoveGone(f) \/ RefreshRemoveGone(f) \/ CreateQuota(f)
  BY <1>2, <1>r, <1>s, <1>c
     DEF AllocateRemoveGone, RefreshRemoveGone, CreateQuota, TablesOK, RelaysOK, CleanersOK
<1>3. CASE AllocateUnbind(f) \/ RefreshUnbind(f)
  BY <1>3, RemoveForRelayedTypes, <1>r, <1>s, <1>c DEF AllocateUnbind, RefreshUnbind, TablesOK,
     RelaysOK, CleanersOK
<1>4. CASE CreatePort(f)
  <2>1. TablesOK' /\ RelaysOK' /\ CleanersOK'
    BY <1>4 DEF CreatePort, TablesOK, RelaysOK, CleanersOK
  <2>2. FlowsOK'
    BY <1>r, <1>s, <1>4 DEF CreatePort, FlowsOK, PCs, WithPort, Creating
  <2>3. QED
    BY <2>1, <2>2
<1>5. CASE CreateBind(f)
  <2>1. port[f] \in Ports
    BY <1>5 DEF CreateBind, FlowsOK, WithPort, PCs, Creating
  <2>2. RelaysOK' /\ TablesOK' /\ CleanersOK'
    BY <1>5, <2>1 DEF CreateBind, TablesOK, RelaysOK, CleanersOK
  <2>3. FlowsOK'
    BY <1>5, <2>1 DEF CreateBind, FlowsOK, RelaysOK, PCs, WithPort, Creating
  <2>4. QED
    BY <2>2, <2>3
<1>6. CASE CreateBindFails(f)
  <2>1. TablesOK' /\ RelaysOK' /\ CleanersOK'
    BY <1>6 DEF CreateBindFails, TablesOK, RelaysOK, CleanersOK
  <2>2. CASE Respond(f, "refused")
    BY <2>1, <2>2, <1>r, <1>s
  <2>3. CASE ~Respond(f, "refused")
    BY <1>6, <2>1, <2>3, BoundsAssumption
       DEF CreateBindFails, FlowsOK, PCs, WithPort, Creating
  <2>4. QED
    BY <2>2, <2>3
<1>7. CASE CreateInsert(f)
  <2>1. [client |-> client[f], gen |-> seen[f], expired |-> FALSE, permissions |-> {}] \in Allocation
    BY SMTT(30) DEF FlowsOK, ClientsOK, Allocation
  <2>2. TablesOK'
    <3>1. \A e \in Allocation : [allocations EXCEPT ![port[f]] = e] \in [Ports -> Allocation \cup {None}]
      BY ZenonT(30) DEF TablesOK
    <3>2. QED
      BY <1>7, <2>1, <3>1 DEF CreateInsert, TablesOK
  <2>3. QED
    BY <1>7, <1>r, <1>s, <2>2 DEF CreateInsert, RelaysOK, CleanersOK
<1>8. CASE RefreshSet(f) \/ PermissionAdd(f)
  <2>1. TablesOK'
    <3>1. CASE RefreshSet(f)
      <4>1. CASE UNCHANGED allocations
        BY <3>1, <4>1 DEF RefreshSet, TablesOK
      <4>2. CASE ~UNCHANGED allocations
        <5>1. port[f] \in Live
          BY <3>1, <4>2 DEF RefreshSet
        <5>2. PICK e \in BOOLEAN : allocations' = [allocations EXCEPT ![port[f]].expired = e]
          BY <3>1, <4>2 DEF RefreshSet
        <5>3. allocations' \in [Ports -> Allocation \cup {None}]
          BY <5>1, <5>2, SetExpiredTypes
        <5>4. QED
          BY <3>1, <5>3 DEF RefreshSet, TablesOK
      <4>3. QED
        BY <4>1, <4>2
    <3>2. CASE PermissionAdd(f)
      <4>1. CASE UNCHANGED allocations
        BY <3>2, <4>1 DEF PermissionAdd, TablesOK
      <4>2. CASE ~UNCHANGED allocations
        <5>1. PICK p \in Live, s \in SUBSET Peers :
                 allocations' = [allocations EXCEPT ![p].permissions = @ \cup s]
          BY <3>2, <4>2, <1>o DEF PermissionAdd
        <5>2. allocations' \in [Ports -> Allocation \cup {None}]
          BY <5>1, AddPermissionsTypes
        <5>3. QED
          BY <3>2, <5>2 DEF PermissionAdd, TablesOK
      <4>3. QED
        BY <4>1, <4>2
    <3>3. QED
      BY <1>8, <3>1, <3>2
  <2>2. QED
    BY <1>8, <1>r, <1>s, <2>1 DEF RefreshSet, PermissionAdd, RelaysOK, CleanersOK
<1>9. CASE ChannelBind(f)
  <2>1. TablesOK'
    <3> DEFINE late == port[f] \notin Live \/ allocations[port[f]].gen # seen[f]
               bound(peer) == [peer |-> peer, gen |-> seen[f], late |-> late]
    <3>1. \A peer \in Peers : bound(peer) \in ChannelBinding
      BY DEF FlowsOK, ChannelBinding
    <3>2. \/ UNCHANGED channels
          \/ \E ch \in Channels, peer \in Peers : channels' = [channels EXCEPT ![port[f]][ch] = bound(peer)]
      BY <1>9, ZenonT(30) DEF ChannelBind
    <3>4. port[f] \in Ports
      BY <1>9 DEF ChannelBind, FlowsOK, WithPort, PCs
    <3>5. CASE UNCHANGED channels
      BY <1>9, <3>5 DEF ChannelBind, TablesOK
    <3>6. CASE ~UNCHANGED channels
      <4>1. PICK ch \in Channels, peer \in Peers : channels' = [channels EXCEPT ![port[f]][ch] = bound(peer)]
        BY <3>2, <3>6, ZenonT(30)
      <4>2. bound(peer) \in ChannelBinding
        BY <3>1
      <4> HIDE DEF bound
      <4>3. channels' \in [Ports -> [Channels -> ChannelBinding \cup {None}]]
        BY <3>4, <4>1, <4>2 DEF TablesOK
      <4>4. QED
        BY <1>9, <4>3 DEF ChannelBind, TablesOK
    <3>7. QED
      BY <3>5, <3>6
  <2>2. QED
    BY <1>9, <1>r, <1>s, <2>1, ZenonT(30) DEF ChannelBind, RelaysOK, CleanersOK
<1>10. CASE ChannelDataSend(f) \/ SendCheck(f) \/ SendDone(f)
  BY <1>10, <1>r, <1>s, <1>o, FoundMove, ZenonT(30) DEF PCs, ChannelDataSend, SendCheck, SendDone,
     TablesOK, RelaysOK, CleanersOK
<1>11. QED
  BY <1>1, <1>2, <1>3, <1>4, <1>5, <1>6, <1>7, <1>8, <1>9, <1>10 DEF Handler

\* Every step of cleanup_expired keeps types and locals.
LEMMA CleanerTypes ==
    ASSUME TablesOK, RelaysOK, FlowsOK, CleanersOK, NEW c \in Cleaners, Cleaner(c)
    PROVE  TablesOK' /\ RelaysOK' /\ FlowsOK' /\ CleanersOK'
<1> USE DEF tables, relays, senders, flows
<1>1. FlowsOK'
  BY DEF Cleaner, CleanGuard, CleanBegin, CleanRemove, CleanUnbind, CleanEnd, FlowsOK, ClientsOK
<1>2. TablesOK' /\ RelaysOK'
  BY TakeOutTypes, RemoveForRelayedTypes DEF CleanRemove, TablesOK, RelaysOK, CleanersOK,
     CleanUnbind, CleanGuard, CleanBegin, CleanEnd, Cleaner
<1>3. CleanersOK'
  BY DEF Cleaner, CleanGuard, CleanBegin, CleanRemove, CleanUnbind, CleanEnd, CleanersOK, Live
<1>4. QED
  BY <1>1, <1>2, <1>3, SMTT(30)

\* The passing of time and the end of relay tasks and sockets keep types and locals.
LEMMA OtherTypes ==
    ASSUME TablesOK, RelaysOK, FlowsOK, CleanersOK,
           \/ \E p \in Ports, ch \in Channels : ChannelExpire(p, ch)
           \/ \E p \in Ports : Expire(p) \/ TaskEnd(p) \/ SocketClose(p)
           \/ SetMainSocket
    PROVE  TablesOK' /\ RelaysOK' /\ FlowsOK' /\ CleanersOK'
<1> USE DEF tables, relays, senders, flows, cleaners
<1>1. TablesOK' /\ RelaysOK'
  <2>1. ASSUME NEW p \in Ports, NEW ch \in Channels, ChannelExpire(p, ch)
        PROVE  TablesOK' /\ RelaysOK'
    BY <2>1 DEF ChannelExpire, TablesOK, RelaysOK
  <2>2. ASSUME NEW p \in Ports, Expire(p)
        PROVE  TablesOK' /\ RelaysOK'
    BY <2>2, SetExpiredTypes, ZenonT(30) DEF Expire, TablesOK, RelaysOK
  <2>3. ASSUME NEW p \in Ports, TaskEnd(p) \/ SocketClose(p)
        PROVE  TablesOK' /\ RelaysOK'
    <3>1. [socket EXCEPT ![p].open = FALSE] \in [Ports -> [open : BOOLEAN, gen : Nat]]
      BY ZenonT(30) DEF RelaysOK
    <3>2. [task EXCEPT ![p] = "gone"] \in [Ports -> {"running", "aborted", "gone"}]
      BY DEF RelaysOK
    <3>3. QED
      BY <2>3, <3>1, <3>2, ZenonT(30) DEF TaskEnd, SocketClose, TablesOK, RelaysOK
  <2>4. CASE SetMainSocket
    BY <2>4 DEF SetMainSocket, TablesOK, RelaysOK
  <2>5. QED
    BY <2>1, <2>2, <2>3, <2>4
<1>2. FlowsOK' /\ CleanersOK'
  BY DEF ChannelExpire, Expire, TaskEnd, SocketClose, SetMainSocket, FlowsOK, ClientsOK, CleanersOK
<1>3. QED
  BY <1>1, <1>2

\* The types hold in every reachable state, and so does what the locals are relied on for.
THEOREM TypeCorrect == Spec => [](TypeOK /\ LocalsOK)
<1>1. Init => TypeOK /\ LocalsOK
  BY InitTypes
<1>2. (TypeOK /\ LocalsOK) /\ [Next]_vars => (TypeOK /\ LocalsOK)'
  <2> SUFFICES ASSUME TablesOK, RelaysOK, FlowsOK, CleanersOK, [Next]_vars
               PROVE  TablesOK' /\ RelaysOK' /\ FlowsOK' /\ CleanersOK'
    BY Parts, PTL
  <2>1. ASSUME NEW f \in Flows, Request(f)
        PROVE  TablesOK' /\ RelaysOK' /\ FlowsOK' /\ CleanersOK'
    BY <2>1, RequestTypes, SMTT(30) DEF tables, relays, senders, cleaners, TablesOK, RelaysOK, CleanersOK
  <2>2. CASE UNCHANGED vars
    BY <2>2 DEF vars, tables, relays, senders, flows, cleaners, TablesOK, RelaysOK, FlowsOK, ClientsOK, CleanersOK
  <2>3. QED
    BY <2>1, <2>2, HandlerTypes, CleanerTypes, OtherTypes DEF Next
<1>3. QED
  BY <1>1, <1>2, PTL DEF Spec
-----------------------------------------------------------------------------
(* What the steps do to the table's entries and to the other flows         *)

\* No entry enters or leaves the table, and none changes its client or its socket.
SameEntries ==
    \A p \in Ports :
        /\ allocations'[p] = None <=> allocations[p] = None
        /\ allocations[p] # None => /\ allocations'[p].client = allocations[p].client
                                   /\ allocations'[p].gen = allocations[p].gen

\* When the entries stay the ones they were, so do the sets derived from them.
LEMMA SameEntriesViews ==
    ASSUME SameEntries
    PROVE  /\ Live' = Live
           /\ \A c \in Clients : OwnedBy(c)' = OwnedBy(c)
           /\ \A p \in Live : allocations'[p].gen = allocations[p].gen
  BY DEF SameEntries, Live, OwnedBy

\* A step that leaves the allocation table alone leaves its entries alone.
LEMMA UnchangedEntries ==
    ASSUME UNCHANGED allocations
    PROVE  SameEntries
BY DEF SameEntries

\* An entry whose lifetime is set, or that is given permissions, stays the entry it was.
LEMMA ExpiredEntry ==
    ASSUME NEW a \in Allocation, NEW e \in BOOLEAN
    PROVE  LET b == [a EXCEPT !.expired = e] IN b # None /\ b.client = a.client /\ b.gen = a.gen
<1> DEFINE b == [a EXCEPT !.expired = e]
<1>1. None \notin Allocation
  BY TablesAssumption DEF Allocation
<1>2. b \in Allocation
  BY DEF Allocation
<1>3. b.client = a.client /\ b.gen = a.gen
  BY DEF Allocation
<1> HIDE DEF b
<1>4. b # None /\ b.client = a.client /\ b.gen = a.gen
  BY <1>1, <1>2, <1>3
<1>5. QED
  BY <1>4 DEF b

\* An entry that is given permissions by add_permissions stays the entry it was.
LEMMA PermittedEntry ==
    ASSUME NEW a \in Allocation, NEW s \in SUBSET Peers
    PROVE  LET b == [a EXCEPT !.permissions = @ \cup s] IN b # None /\ b.client = a.client /\ b.gen = a.gen
<1> DEFINE b == [a EXCEPT !.permissions = @ \cup s]
<1>1. None \notin Allocation
  BY TablesAssumption DEF Allocation
<1>2. b \in Allocation
  BY DEF Allocation
<1>3. b.client = a.client /\ b.gen = a.gen
  BY DEF Allocation
<1> HIDE DEF b
<1>4. b # None /\ b.client = a.client /\ b.gen = a.gen
  BY <1>1, <1>2, <1>3
<1>5. QED
  BY <1>4 DEF b

\* refresh_allocation, and the end of a lifetime, add and remove no entry.
LEMMA SetExpiredEntries ==
    ASSUME TablesOK, NEW p \in Live, NEW e \in BOOLEAN,
           allocations' = [allocations EXCEPT ![p].expired = e]
    PROVE  SameEntries
  BY LiveEntry, ExpiredEntry DEF Live, TablesOK, SameEntries

\* add_permissions adds and removes no entry.
LEMMA AddPermissionsEntries ==
    ASSUME TablesOK, NEW p \in Live, NEW s \in SUBSET Peers,
           allocations' = [allocations EXCEPT ![p].permissions = @ \cup s]
    PROVE  SameEntries
<1>1. p \in Ports /\ allocations[p] \in Allocation /\ allocations[p] # None
  BY LiveEntry DEF Live
<1>2. allocations'[p] = [allocations[p] EXCEPT !.permissions = @ \cup s]
  BY <1>1 DEF TablesOK
<1>3. \A q \in Ports \ {p} : allocations'[q] = allocations[q]
  BY DEF TablesOK
<1>4. QED
  BY <1>1, <1>2, <1>3, PermittedEntry DEF SameEntries

\* Taking an entry out of the table (remove_allocation, cleanup_expired) takes out no other.
LEMMA TakeOutEntries ==
    ASSUME TablesOK, NEW p \in Ports, TakeOut(p)
    PROVE  /\ Live' = Live \ {p}
           /\ \A c \in Clients : OwnedBy(c)' = OwnedBy(c) \ {p}
           /\ \A q \in Live \ {p} : allocations'[q] = allocations[q]
  BY DEF TakeOut, TablesOK, Live, OwnedBy

\* create_allocation's insert adds one entry, for the requesting client, and changes no other.
LEMMA InsertEntries ==
    ASSUME TablesOK, FlowsOK, NEW f \in Flows, CreateInsert(f), port[f] \in Ports
    PROVE  /\ Live' = Live \cup {port[f]}
           /\ allocations'[port[f]].client = client[f]
           /\ allocations'[port[f]].gen = seen[f]
           /\ \A q \in Live \ {port[f]} : allocations'[q] = allocations[q]
<1> DEFINE e == [client |-> client[f], gen |-> seen[f], expired |-> FALSE, permissions |-> {}]
<1>1. \A q \in Ports : allocations'[q] = IF q = port[f] THEN e ELSE allocations[q]
  BY DEF CreateInsert, TablesOK
<1>2. e # None
  <2>1. e \in Allocation
    BY DEF FlowsOK, ClientsOK, Allocation
  <2>2. None \notin Allocation
    BY TablesAssumption DEF Allocation
  <2> HIDE DEF e
  <2>3. QED
    BY <2>1, <2>2
<1>3. e.client = client[f] /\ e.gen = seen[f]
  OBVIOUS
<1> HIDE DEF e
<1>4. QED
  BY <1>1, <1>2, <1>3, SMTT(30) DEF Live

\* Steps that leave the entries as they are.
LEMMA QuietHandler ==
    ASSUME TablesOK, FlowsOK, NEW f \in Flows, Handler(f) \/ Request(f),
           ~AllocateRemove(f), ~RefreshRemove(f), ~CreateInsert(f)
    PROVE  SameEntries
<1>1. CASE RefreshSet(f)
  BY UnchangedEntries, <1>1, SetExpiredEntries, ZenonT(30) DEF RefreshSet
<1>2. CASE PermissionAdd(f)
  BY UnchangedEntries, <1>2, AddPermissionsEntries DEF PermissionAdd, OwnedBy
<1>3. CASE ~RefreshSet(f) /\ ~PermissionAdd(f)
  <2>1. UNCHANGED allocations
    <3>1. CASE Request(f)
      BY <3>1, RequestTypes DEF tables
    <3>2. CASE Handler(f)
      BY <1>3, <3>2, ZenonT(30) DEF Handler, AllocateRemoveGone, AllocateUnbind, CreateQuota, CreatePort, CreateBind,
         CreateBindFails, RefreshRemoveGone, RefreshUnbind, ChannelBind, ChannelDataSend, SendCheck, SendDone,
         tables
    <3>3. QED
      BY <3>1, <3>2
  <2>2. QED
    BY <2>1, UnchangedEntries
<1>4. QED
  BY <1>1, <1>2, <1>3

\* A flow's step leaves the other flows' locals and the cleanup tasks alone.
OtherFlowsSame(f) ==
    /\ \A g \in Flows \ {f} : /\ pc'[g] = pc[g] /\ port'[g] = port[g]
                             /\ seen'[g] = seen[g] /\ reply'[g] = reply[g]
    /\ \A g \in Flows \ {f} : client'[g] = client[g]
    /\ UNCHANGED cleaners

\* A step of one handler leaves the locals of the other handlers alone.
LEMMA FlowFrame ==
    ASSUME FlowsOK, NEW f \in Flows, Handler(f) \/ Request(f)
    PROVE  OtherFlowsSame(f)
<1>0. \A g \in Flows \ {f} : client'[g] = client[g]
  BY RequestIsLookup DEF Handler, AllocateFind, FindOr, FlowsOK, ClientsOK
<1>1. UNCHANGED cleaners
  BY ZenonT(30) DEF Handler, Request, AllocateRemove, RefreshRemove, RemoveEntry, AllocateRemoveGone, AllocateUnbind,
     CreateQuota, CreatePort, CreateBind, CreateBindFails, CreateInsert, RefreshRemoveGone, RefreshUnbind,
     RefreshSet, PermissionAdd, ChannelBind, ChannelDataSend, SendCheck, SendDone, AllocateFind,
     RefreshFind, RefreshZeroFind, PermissionFind, BindFind, ChannelDataFind, SendFind, FindOr
<1>2. \A next, p, r : Found(f, p, next) \/ Continue(f, next) \/ Respond(f, r) =>
        \A g \in Flows \ {f} : /\ pc'[g] = pc[g] /\ port'[g] = port[g]
                               /\ seen'[g] = seen[g] /\ reply'[g] = reply[g]
  BY ZenonT(30) DEF FlowsOK, Found, Continue, Respond
<1>3. CASE Request(f)
  BY <1>3, <1>0, <1>1, <1>2, ZenonT(30) DEF Request, AllocateFind, RefreshFind, RefreshZeroFind, PermissionFind,
     BindFind, ChannelDataFind, SendFind, FindOr, OtherFlowsSame
<1>4. CASE AllocateRemoveGone(f) \/ AllocateUnbind(f) \/ CreateQuota(f) \/ CreateInsert(f)
           \/ RefreshRemoveGone(f) \/ RefreshUnbind(f) \/ RefreshSet(f) \/ PermissionAdd(f)
           \/ ChannelBind(f) \/ ChannelDataSend(f) \/ SendCheck(f) \/ SendDone(f)
  <2>1. \/ \E next, p : Found(f, p, next)
        \/ \E next : Continue(f, next)
        \/ \E r : Respond(f, r)
    BY <1>4, ZenonT(30) DEF AllocateRemoveGone, AllocateUnbind, CreateQuota, CreateInsert, RefreshRemoveGone,
       RefreshUnbind, RefreshSet, PermissionAdd, ChannelBind, ChannelDataSend, SendCheck, SendDone
  <2>2. QED
    BY <1>0, <1>1, <1>2, <2>1, ZenonT(30) DEF OtherFlowsSame
<1>5. CASE AllocateRemove(f) \/ RefreshRemove(f) \/ CreateBind(f)
  BY <1>0, <1>1, <1>5, ZenonT(30) DEF AllocateRemove, RefreshRemove, RemoveEntry, CreateBind, FlowsOK, OtherFlowsSame
<1>6. CASE CreatePort(f) \/ CreateBindFails(f)
  BY <1>0, <1>1, <1>2, <1>6 DEF OtherFlowsSame, CreatePort, CreateBindFails, FlowsOK
<1>7. QED
  BY <1>3, <1>4, <1>5, <1>6, ZenonT(30) DEF Handler
\* Inside a removal the flow's handler only changes that flow's place.
LEMMA RemovingMoves ==
    ASSUME FlowsOK, NEW f \in Flows, Handler(f) \/ Request(f)
    PROVE  pc'[f] \in Removing <=> AllocateRemove(f) \/ RefreshRemove(f)
<1>1. CASE AllocateRemove(f) \/ RefreshRemove(f)
  BY <1>1 DEF AllocateRemove, RefreshRemove, RemoveEntry, Removing, FlowsOK
<1>2. CASE ~AllocateRemove(f) /\ ~RefreshRemove(f)
  <2>1. CASE Request(f)
    BY <1>2, <2>1, RequestIsLookup DEF AllocateFind, Found, Continue, Removing, FlowsOK, FindOr,
       Respond, LookupPCs
  <2>2. CASE Handler(f)
    BY <1>2, <2>2, ZenonT(30) DEF Handler, AllocateRemoveGone, AllocateUnbind, CreateQuota, CreatePort, CreateBind,
       CreateBindFails, CreateInsert, RefreshRemoveGone, RefreshUnbind, RefreshSet, PermissionAdd,
       ChannelBind, ChannelDataSend, SendCheck, SendDone, Found, Continue, Respond, Removing, FlowsOK
  <2>3. QED
    BY <2>1, <2>2
<1>3. QED
  BY <1>1, <1>2
-----------------------------------------------------------------------------
(* The exclusive lock                                                      *)

\* No step of a handler lets two tasks hold the write lock of the allocation table.
LEMMA FlowLock ==
    ASSUME TablesOK, FlowsOK, CleanersOK, LockOK, NEW f \in Flows, Handler(f) \/ Request(f)
    PROVE  LockOK'
<1>1. OtherFlowsSame(f)
  BY FlowFrame
<1>2. pc'[f] \in Removing => TableUnlocked
  BY RemovingMoves DEF AllocateRemove, RefreshRemove, RemoveEntry
<1>3. \A c \in Cleaners : todo'[c] \subseteq Live'
  <2>1. CASE AllocateRemove(f) \/ RefreshRemove(f)
    BY <2>1, <1>1, SMTT(30) DEF AllocateRemove, RefreshRemove, RemoveEntry, TableUnlocked, Cleaning, CleanersOK,
       OtherFlowsSame, cleaners
  <2>2. CASE CreateInsert(f)
    BY <2>2, <1>1, InsertEntries, ZenonT(30) DEF CreateInsert, FlowsOK, WithPort, PCs, Creating,
       LockOK, OtherFlowsSame, cleaners
  <2>3. CASE ~AllocateRemove(f) /\ ~RefreshRemove(f) /\ ~CreateInsert(f)
    BY <2>3, <1>1, QuietHandler, SameEntriesViews, ZenonT(30) DEF LockOK, OtherFlowsSame, cleaners
  <2>4. QED
    BY <2>1, <2>2, <2>3, SMTT(30)
<1>4. QED
  BY <1>1, <1>2, <1>3 DEF LockOK, OtherFlowsSame, cleaners, TableUnlocked, Cleaning

\* No step of cleanup_expired lets two tasks hold the write lock of the allocation table.
LEMMA CleanerLock ==
    ASSUME TablesOK, FlowsOK, CleanersOK, LockOK, NEW c \in Cleaners, Cleaner(c)
    PROVE  LockOK'
<1>1. UNCHANGED pc
  BY SMTT(30) DEF Cleaner, CleanGuard, CleanBegin, CleanRemove, CleanUnbind, CleanEnd, flows
<1>2. \A d \in Cleaners \ {c} : cpc'[d] = cpc[d] /\ todo'[d] = todo[d]
  BY DEF Cleaner, CleanGuard, CleanBegin, CleanRemove, CleanUnbind, CleanEnd, CleanersOK
<1>3. CASE CleanBegin(c)
  BY <1>3, <1>1, <1>2 DEF CleanBegin, tables, Live, CleanersOK, TableUnlocked, Cleaning, LockOK
<1>4. CASE CleanRemove(c)
  BY <1>4, TakeOutEntries, <1>2, <1>1 DEF CleanRemove, CleanersOK, LockOK, Cleaning
<1>5. CASE CleanUnbind(c) \/ CleanEnd(c)
  BY <1>5, <1>1, <1>2 DEF CleanUnbind, CleanEnd, Live, LockOK, Cleaning
<1>6. CASE CleanGuard(c)
  BY <1>6, <1>1, <1>2 DEF CleanGuard, tables, Live, CleanersOK, LockOK, Cleaning
<1>7. QED
  BY <1>3, <1>4, <1>5, <1>6, SMTT(30) DEF Cleaner

\* The other steps leave the entries and the control state alone.
LEMMA OtherFrame ==
    ASSUME TablesOK,
           \/ \E p \in Ports, ch \in Channels : ChannelExpire(p, ch)
           \/ \E p \in Ports : Expire(p) \/ TaskEnd(p) \/ SocketClose(p)
           \/ SetMainSocket
    PROVE  SameEntries /\ UNCHANGED <<portBits, active, flows, cleaners>>
  BY SetExpiredEntries, UnchangedEntries, ZenonT(30) DEF Expire, TaskEnd, SocketClose,
     ChannelExpire, SetMainSocket, tables

\* Steps that move no handler and no cleanup task, and keep the entries, keep the lock's layer.
LEMMA OtherLock ==
    ASSUME TablesOK, LockOK, SameEntries, UNCHANGED <<flows, cleaners>>
    PROVE  LockOK'
BY SameEntriesViews DEF LockOK, flows, cleaners, Cleaning

\* remove_allocation and cleanup_expired exclude each other for the whole of their
\* critical sections, and what cleanup_expired has collected stays in the table until
\* it removes it.
THEOREM LockIsExclusive == Spec => []LockOK
<1>1. Init => LockOK
  BY DEF Init, LockOK, Removing, Cleaning, Live
<1>2. TypeOK /\ LocalsOK /\ LockOK /\ [Next]_vars => LockOK'
  <2> SUFFICES ASSUME TablesOK, FlowsOK, CleanersOK, LockOK, [Next]_vars PROVE LockOK'
    BY Parts
  <2>1. CASE UNCHANGED vars
    BY <2>1, OtherLock, UnchangedEntries DEF vars, tables
  <2>2. CASE Next
    BY <2>2, FlowLock, CleanerLock, OtherFrame, OtherLock DEF Next
  <2>3. QED
    BY <2>1, <2>2
<1>3. QED
  BY <1>1, <1>2, TypeCorrect, PTL DEF Spec
-----------------------------------------------------------------------------
(* Port ownership                                                          *)

\* Handler steps that neither take nor give up a port.
LEMMA PortlessHandler ==
    ASSUME FlowsOK, TablesOK, NEW f \in Flows, Handler(f) \/ Request(f),
           ~AllocateRemove(f), ~RefreshRemove(f), ~CreatePort(f), ~CreateBind(f),
           ~CreateBindFails(f), ~CreateInsert(f)
    PROVE  portBits' = portBits /\ ~HoldsBit(f) /\ ~HoldsBit(f)'
<1>1. CASE Request(f)
  BY <1>1, RequestTypes, RequestIsLookup DEF tables, FindOr, AllocateFind, HoldsBit, Found,
     Continue, FlowsOK, Respond, LookupPCs
<1>2. CASE Handler(f)
  BY <1>2, ZenonT(30) DEF Handler, AllocateRemoveGone, AllocateUnbind, CreateQuota, RefreshRemoveGone, RefreshUnbind,
     RefreshSet, PermissionAdd, ChannelBind, ChannelDataSend, SendCheck, SendDone, Found, Continue, Respond,
     HoldsBit, FlowsOK, tables
<1>3. QED
  BY <1>1, <1>2, ZenonT(30)

\* Every step of a handler keeps port bits and their owners in agreement.
LEMMA FlowPorts ==
    ASSUME TablesOK, FlowsOK, PortBitHasOneOwner, NEW f \in Flows, Handler(f) \/ Request(f)
    PROVE  PortBitHasOneOwner'
<1>0. \A g \in Flows \ {f} : pc'[g] = pc[g] /\ port'[g] = port[g]
  BY FlowFrame, SMTT(30) DEF OtherFlowsSame
<1>1. CASE AllocateRemove(f) \/ RefreshRemove(f)
  <2>1. port[f] \in Live /\ port[f] \in Ports /\ TakeOut(port[f]) /\ port' = port
    BY <1>1 DEF AllocateRemove, RefreshRemove, RemoveEntry, Live
  <2>2. Live' = Live \ {port[f]} /\ portBits' = portBits \ {port[f]}
    BY <2>1, TakeOutEntries, ZenonT(30) DEF TakeOut
  <2>3. ~HoldsBit(f) /\ ~HoldsBit(f)'
    BY <1>1, ZenonT(30) DEF AllocateRemove, RefreshRemove, RemoveEntry, HoldsBit, FlowsOK
  <2>4. QED
    BY <1>0, <2>1, <2>2, <2>3, SMTT(30) DEF PortBitHasOneOwner, HoldsBit
<1>2. CASE CreatePort(f)
  BY <1>2, <1>0 DEF CreatePort, Live, HoldsBit, PortBitHasOneOwner, Respond, FlowsOK
<1>3. CASE CreateBind(f)
  BY <1>3, <1>0 DEF CreateBind, Live, HoldsBit, tables, FlowsOK, PortBitHasOneOwner
<1>4. CASE CreateBindFails(f)
  BY <1>4, <1>0 DEF CreateBindFails, Live, HoldsBit, Respond, FlowsOK, PortBitHasOneOwner
<1>5. CASE CreateInsert(f)
  <2>1. port[f] \in Ports
    BY <1>5, SMTT(30) DEF CreateInsert, FlowsOK, WithPort, PCs, Creating
  <2>2. Live' = Live \cup {port[f]} /\ portBits' = portBits /\ HoldsBit(f)
    BY <1>5, <2>1, InsertEntries, ZenonT(30) DEF CreateInsert, HoldsBit
  <2>3. ~HoldsBit(f)'
    BY <1>5, SMTT(30) DEF CreateInsert, HoldsBit, Respond, FlowsOK
  <2>4. QED
    BY <1>0, <2>1, <2>2, <2>3, SMTT(30) DEF PortBitHasOneOwner, HoldsBit
<1>6. CASE /\ ~AllocateRemove(f) /\ ~RefreshRemove(f) /\ ~CreatePort(f) /\ ~CreateBind(f)
           /\ ~CreateBindFails(f) /\ ~CreateInsert(f)
  BY <1>6, QuietHandler, SameEntriesViews, PortlessHandler, <1>0 DEF HoldsBit, PortBitHasOneOwner
<1>7. QED
  BY <1>1, <1>2, <1>3, <1>4, <1>5, <1>6, SMTT(30)

\* Every step of cleanup_expired keeps port bits and their owners in agreement.
LEMMA CleanerPorts ==
    ASSUME TablesOK, CleanersOK, LockOK, PortBitHasOneOwner, NEW c \in Cleaners, Cleaner(c)
    PROVE  PortBitHasOneOwner'
<1>0. UNCHANGED <<pc, port>>
  BY DEF Cleaner, CleanGuard, CleanBegin, CleanRemove, CleanUnbind, CleanEnd, flows
<1>1. CASE CleanRemove(c)
  <2>1. PICK p \in todo[c] : TakeOut(p)
    BY <1>1 DEF CleanRemove
  <2>2. p \in Ports /\ p \in Live
    BY <2>1 DEF CleanersOK, LockOK
  <2>3. Live' = Live \ {p} /\ portBits' = portBits \ {p}
    BY <2>1, <2>2, TakeOutEntries, ZenonT(30) DEF TakeOut
  <2>4. QED
    BY <1>0, <2>2, <2>3 DEF PortBitHasOneOwner, HoldsBit
<1>2. CASE CleanGuard(c) \/ CleanBegin(c) \/ CleanUnbind(c) \/ CleanEnd(c)
  BY <1>2, <1>0 DEF CleanGuard, CleanBegin, CleanUnbind, CleanEnd, tables, Live, PortBitHasOneOwner, HoldsBit
<1>3. QED
  BY <1>1, <1>2 DEF Cleaner

\* Steps that keep the entries, the port bits and the handlers keep the ports' layer.
LEMMA OtherPorts ==
    ASSUME TablesOK, PortBitHasOneOwner, SameEntries, UNCHANGED <<portBits, flows>>
    PROVE  PortBitHasOneOwner'
BY SameEntriesViews, ZenonT(30) DEF PortBitHasOneOwner, HoldsBit, flows

\* For any number of clients, ports and cleanup tasks, the port bitmap and the owners of
\* relay ports agree: create_allocation, remove_allocation and cleanup_expired leak no
\* port and never free a port somebody else owns.
THEOREM PortsHaveOneOwner == Spec => []PortBitHasOneOwner
<1>1. Init => PortBitHasOneOwner
  BY DEF Init, PortBitHasOneOwner, HoldsBit, Live
<1>2. TypeOK /\ LocalsOK /\ LockOK /\ PortBitHasOneOwner /\ [Next]_vars => PortBitHasOneOwner'
  <2> SUFFICES ASSUME TablesOK, FlowsOK, CleanersOK, LockOK, PortBitHasOneOwner, [Next]_vars
               PROVE  PortBitHasOneOwner'
    BY Parts
  <2>1. CASE UNCHANGED vars
    BY <2>1, OtherPorts, UnchangedEntries DEF vars, tables
  <2>2. CASE Next
    BY <2>2, FlowPorts, CleanerPorts, OtherFrame, OtherPorts DEF Next
  <2>3. QED
    BY <2>1, <2>2
<1>3. QED
  BY <1>1, <1>2, TypeCorrect, LockIsExclusive, PTL DEF Spec
\* No entry is replaced by another.
EntriesKept == \A p \in Ports : allocations[p] # None /\ allocations'[p] # None =>
                  /\ allocations'[p].client = allocations[p].client
                  /\ allocations'[p].gen = allocations[p].gen

\* For any instance, no step replaces an allocation by another: the port create_allocation
\* inserts at is not in the table, because its bit was set by this handler.
THEOREM PortsAreNotTakenOver == Spec => NoTakeover
<1>1. ASSUME TablesOK, FlowsOK, CleanersOK, PortBitHasOneOwner, [Next]_vars
      PROVE  EntriesKept
  <2>0. SameEntries => EntriesKept
    BY DEF SameEntries, EntriesKept
  <2>t. \A p \in Ports : TakeOut(p) => EntriesKept
    BY <1>1, TakeOutEntries DEF EntriesKept, Live
  <2>1. CASE UNCHANGED vars
    BY <2>0, <2>1, UnchangedEntries DEF vars, tables
  <2>2. ASSUME NEW f \in Flows, Handler(f) \/ Request(f) PROVE EntriesKept
    <3>1. CASE AllocateRemove(f) \/ RefreshRemove(f)
      BY <3>1, <2>t, ZenonT(30) DEF AllocateRemove, RefreshRemove, RemoveEntry, Live
    <3>2. CASE CreateInsert(f)
      BY <1>1, <3>2, InsertEntries DEF CreateInsert, FlowsOK, WithPort, PCs, Creating,
         PortBitHasOneOwner, HoldsBit, EntriesKept, Live
    <3>3. CASE ~AllocateRemove(f) /\ ~RefreshRemove(f) /\ ~CreateInsert(f)
      BY <1>1, <2>0, <2>2, <3>3, QuietHandler, ZenonT(30)
    <3>4. QED
      BY <3>1, <3>2, <3>3
  <2>3. ASSUME NEW c \in Cleaners, Cleaner(c) PROVE EntriesKept
    BY <1>1, <2>t, <2>0, <2>3, UnchangedEntries DEF CleanRemove, CleanersOK, Cleaner, CleanGuard, CleanBegin,
       CleanUnbind, CleanEnd, tables
  <2>4. QED
    BY <1>1, <2>0, <2>1, <2>2, <2>3, OtherFrame DEF Next
<1>2. TypeOK /\ LocalsOK /\ PortBitHasOneOwner /\ [Next]_vars => [EntriesKept]_allocations
  BY <1>1, Parts
<1>3. QED
  BY <1>2, TypeCorrect, PortsHaveOneOwner, PTL DEF Spec, NoTakeover, EntriesKept
=============================================================================
