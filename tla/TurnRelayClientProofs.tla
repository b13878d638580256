------------------------ MODULE TurnRelayClientProofs ------------------------
(***************************************************************************)
(* Proofs about TurnRelay, on top of the layers of TurnRelayProofs: what   *)
(* sockets are open and for whom, which channel bindings survive, and what *)
(* allocations a client has.                                               *)
(***************************************************************************)
EXTENDS TurnRelayProofs

\* The ports whose entry the lock holder has taken out, and whose bindings it is about
\* to remove.
Unbinding ==
    {p \in Ports : \/ \E f \in Flows : pc[f] \in Removing /\ port[f] = p
                  \/ \E c \in Cleaners : cpc[c] = "unbind" /\ cport[c] = p}

SocketOK ==
    /\ ArcKeepsSocket
    /\ \A p \in Unbinding : socket[p].open /\ p \notin Live
    /\ \A f \in Flows : pc[f] = "al_insert" => port[f] \notin Unbinding

\* A binding that was not late belongs to the open socket of its port, whose allocation
\* is in the table or being removed.
BindingOK ==
    \A p \in Ports, ch \in Channels :
        channels[p][ch] # None /\ ~channels[p][ch].late =>
            /\ socket[p].open
            /\ socket[p].gen = channels[p][ch].gen
            /\ p \in Live \/ p \in Unbinding

\* What the flow's handler, or the last response on it, knows of its client's
\* allocations when no other flow has the same client.
Knows(f) ==
    \A c \in Clients : c = client[f] =>
        /\ pc[f] \in Creating \cup Removing => OwnedBy(c) = {}
        /\ pc[f] \in {"al_remove", "rf_remove", "rf_set"} => OwnedBy(c) \subseteq {port[f]}
        /\ reply[f] \in {"deleted", "mismatch"} => OwnedBy(c) = {}

ClientOK ==
    OneFlowPerClient => /\ \A c \in Clients : \A p, q \in OwnedBy(c) : p = q
                        /\ \A f \in Flows : Knows(f)

-----------------------------------------------------------------------------
(* Sockets                                                                 *)

\* Where a handler owns an Arc of an allocation or of its socket.
Holding == Removing \cup {"al_insert", "cd_send", "sd_send"}

\* Handler steps that open no socket and touch no entry leave the flow without an Arc, or
\* with the Arc of the entry it has just found.
LEMMA QuietArcs ==
    ASSUME FlowsOK, TablesOK, NEW f \in Flows, Handler(f) \/ Request(f),
           ~AllocateRemove(f), ~RefreshRemove(f), ~CreateBind(f), ~CreateInsert(f)
    PROVE  /\ UNCHANGED <<socket, defaultSender>>
           /\ pc'[f] \in Holding => /\ pc'[f] \in {"cd_send", "sd_send"}
                                    /\ port'[f] \in Live
                                    /\ seen'[f] = allocations[port'[f]].gen
<1> USE DEF FlowsOK, Holding, Removing, relays, senders
<1>o. \A c : OwnedBy(c) \subseteq Live
  BY DEF OwnedBy
<1>1. CASE Request(f)
  BY <1>o, <1>1, RequestIsLookup DEF AllocateFind, Found, Continue, FindOr, Respond, LookupPCs
<1>2. CASE SendCheck(f)
  BY <1>2, <1>o, SMTT(30) DEF SendCheck, Found, Respond
<1>3. CASE Handler(f) /\ ~SendCheck(f)
  BY <1>3, ZenonT(30) DEF Handler, AllocateRemoveGone, AllocateUnbind, CreateQuota, CreatePort, CreateBindFails,
     RefreshRemoveGone, RefreshUnbind, RefreshSet, PermissionAdd, ChannelBind, ChannelDataSend, SendDone,
     Continue, Respond
<1>4. QED
  BY <1>1, <1>2, <1>3

\* Every step of a handler keeps the sockets in use open, with the generation their users hold.
LEMMA FlowSockets ==
    ASSUME TablesOK, RelaysOK, FlowsOK, CleanersOK, PortBitHasOneOwner, SocketOK,
           NEW f \in Flows, Handler(f) \/ Request(f)
    PROVE  SocketOK'
<1>0. /\ \A g \in Flows \ {f} : pc'[g] = pc[g] /\ port'[g] = port[g] /\ seen'[g] = seen[g]
      /\ UNCHANGED <<cpc, cport>>
  BY FlowFrame DEF OtherFlowsSame, cleaners
<1>1. CASE AllocateRemove(f) \/ RefreshRemove(f)
  <2>1. /\ port[f] \in Live /\ port[f] \in Ports /\ TakeOut(port[f])
        /\ UNCHANGED <<port, seen, socket, defaultSender>>
        /\ pc[f] \notin Holding /\ pc'[f] \in Removing
    BY <1>1 DEF AllocateRemove, RefreshRemove, RemoveEntry, Live, Removing, Holding, FlowsOK, senders
  <2>2. /\ Live' = Live \ {port[f]}
        /\ \A q \in Live' : allocations'[q] = allocations[q]
    BY <2>1, TakeOutEntries
  <2>3. Unbinding' = Unbinding \cup {port[f]}
    BY <1>0, <2>1 DEF Unbinding, Holding
  <2>4. ArcKeepsSocket'
    BY <1>0, <2>1, <2>2 DEF SocketOK, ArcKeepsSocket, Holding, Removing
  <2>5. \A q \in Unbinding' : socket'[q].open /\ q \notin Live'
    BY <2>1, <2>2, <2>3 DEF SocketOK, ArcKeepsSocket
  <2>6. ASSUME NEW g \in Flows, pc'[g] = "al_insert" PROVE port'[g] \notin Unbinding'
    BY <1>0, <2>1, <2>6, <2>3 DEF Removing, PortBitHasOneOwner, HoldsBit, FlowsOK, WithPort, PCs,
       Creating, SocketOK
  <2>7. QED
    BY <2>1, <2>4, <2>5, <2>6 DEF SocketOK
<1>2. CASE CreateBind(f)
  <2> DEFINE p == port[f]
  <2>1. p \in Ports /\ pc[f] = "al_bind" /\ pc'[f] = "al_insert" /\ port' = port
    BY <1>2 DEF CreateBind, FlowsOK, WithPort, PCs, Creating
  <2>2. /\ ~socket[p].open
        /\ socket'[p].open /\ socket'[p].gen = seen'[f]
        /\ \A q \in Ports \ {p} : socket'[q] = socket[q]
        /\ defaultSender' \in {defaultSender, p}
    BY <1>2, <2>1 DEF CreateBind, RelaysOK, FlowsOK
  <2>3. allocations' = allocations /\ Live' = Live
    BY <1>2 DEF CreateBind, tables, Live
  <2>4. p \notin Live /\ p \notin Unbinding
    BY <2>1, <2>2 DEF SocketOK, ArcKeepsSocket
  <2>5. Unbinding' = Unbinding
    BY <1>0, <2>1 DEF Unbinding, Removing
  <2>6. \A g \in Flows \ {f} : pc[g] \in Holding => port[g] \in Ports \ {p}
    BY <2>2 DEF SocketOK, ArcKeepsSocket, Holding, FlowsOK, WithPort, PCs, Removing, Creating
  <2>7. ArcKeepsSocket'
    BY <1>0, <2>1, <2>2, <2>3, <2>4, <2>6 DEF SocketOK, ArcKeepsSocket, Holding, Live, RelaysOK
  <2>8. \A q \in Unbinding' : socket'[q].open /\ q \notin Live'
    BY <2>4, <2>2, <2>3, <2>5 DEF Unbinding, SocketOK
  <2>9. \A g \in Flows : pc'[g] = "al_insert" => port'[g] \notin Unbinding'
    BY <1>0, <2>1, <2>4, <2>5, <2>6 DEF SocketOK, Holding
  <2>10. QED
    BY <2>7, <2>8, <2>9 DEF SocketOK
<1>3. CASE CreateInsert(f)
  <2>1. port[f] \in Ports /\ pc[f] = "al_insert" /\ pc'[f] = "idle" /\ UNCHANGED <<socket, defaultSender>>
    BY <1>3 DEF CreateInsert, FlowsOK, WithPort, PCs, Creating, Respond, relays, senders
  <2>2. /\ Live' = Live \cup {port[f]}
        /\ allocations'[port[f]].gen = seen[f]
        /\ \A q \in Live \ {port[f]} : allocations'[q] = allocations[q]
    BY <1>3, <2>1, InsertEntries
  <2>3. Unbinding' = Unbinding
    BY <1>0, <2>1 DEF Unbinding, Removing
  <2>4. ArcKeepsSocket'
    BY <1>0, <2>1, <2>2 DEF SocketOK, ArcKeepsSocket, Removing
  <2>5. \A q \in Unbinding' : socket'[q].open /\ q \notin Live'
    BY <2>1, <2>2, <2>3 DEF SocketOK
  <2>6. \A g \in Flows : pc'[g] = "al_insert" => port'[g] \notin Unbinding'
    BY <1>0, <2>1, <2>3 DEF SocketOK
  <2>7. QED
    BY <2>4, <2>5, <2>6 DEF SocketOK
<1>4. CASE ~AllocateRemove(f) /\ ~RefreshRemove(f) /\ ~CreateBind(f) /\ ~CreateInsert(f)
  BY <1>4, QuietHandler, SameEntriesViews, QuietArcs, <1>0 DEF Unbinding, Holding, Removing,
     SocketOK, ArcKeepsSocket
<1>5. QED
  BY <1>1, <1>2, <1>3, <1>4
\* Every step of cleanup_expired keeps the sockets in use open.
LEMMA CleanerSockets ==
    ASSUME TablesOK, CleanersOK, LockOK, PortBitHasOneOwner, SocketOK, FlowsOK,
           NEW c \in Cleaners, Cleaner(c)
    PROVE  SocketOK'
<1>0. UNCHANGED <<pc, port, seen, socket, defaultSender>>
  BY DEF Cleaner, CleanGuard, CleanBegin, CleanRemove, CleanUnbind, CleanEnd, flows, relays, senders
<1>1. CASE CleanRemove(c)
  BY <1>1, TakeOutEntries, <1>0 DEF CleanRemove, CleanersOK, LockOK, Unbinding, SocketOK,
     ArcKeepsSocket, PortBitHasOneOwner, HoldsBit
<1>2. CASE CleanGuard(c) \/ CleanBegin(c) \/ CleanUnbind(c) \/ CleanEnd(c)
  BY <1>2, <1>0 DEF CleanGuard, CleanBegin, CleanUnbind, CleanEnd, tables, Live, CleanersOK, Unbinding,
     SocketOK, ArcKeepsSocket
<1>3. QED
  BY <1>1, <1>2 DEF Cleaner

\* A socket closed by the drop of its last Arc is nobody's, so the sockets' layer survives it.
LEMMA OtherSockets ==
    ASSUME TablesOK, RelaysOK, SocketOK, SameEntries, UNCHANGED <<flows, cleaners>>,
           \/ UNCHANGED socket /\ defaultSender' \in {defaultSender, None}
           \/ \E p \in Ports : SocketClose(p)
    PROVE  SocketOK'
<1>1. Live' = Live /\ \A q \in Live : allocations'[q].gen = allocations[q].gen
  BY SameEntriesViews
<1>2. UNCHANGED <<pc, port, seen, cpc, cport, Unbinding>>
  BY DEF flows, cleaners, Unbinding
<1>3. CASE UNCHANGED socket /\ defaultSender' \in {defaultSender, None}
  BY <1>1, <1>2, <1>3 DEF SocketOK, ArcKeepsSocket
<1>4. ASSUME NEW p \in Ports, SocketClose(p)
      PROVE  SocketOK'
  BY <1>4, <1>1, <1>2 DEF SocketClose, HeldByHandler, Unbinding, Live, Holding, RelaysOK, SocketOK,
     ArcKeepsSocket, senders
<1>5. QED
  BY <1>3, <1>4

\* The sockets' layer is an invariant.
LEMMA SocketInvariant == Spec => []SocketOK
<1>1. Init => SocketOK
  BY DEF Init, SocketOK, ArcKeepsSocket, Unbinding, Removing, Live
<1>2. TypeOK /\ LocalsOK /\ LockOK /\ PortBitHasOneOwner /\ SocketOK /\ [Next]_vars => SocketOK'
  <2> SUFFICES ASSUME TablesOK, RelaysOK, FlowsOK, CleanersOK, LockOK, PortBitHasOneOwner, SocketOK,
                      [Next]_vars
               PROVE  SocketOK'
    BY Parts
  <2>1. CASE UNCHANGED vars
    BY <2>1, OtherSockets, UnchangedEntries DEF vars, tables, relays, senders
  <2>2. ASSUME \/ \E p \in Ports, ch \in Channels : ChannelExpire(p, ch)
               \/ \E p \in Ports : Expire(p) \/ TaskEnd(p) \/ SocketClose(p)
               \/ SetMainSocket
        PROVE  SocketOK'
    BY <2>2, OtherFrame, OtherSockets DEF Expire, TaskEnd, ChannelExpire, SetMainSocket, relays, senders
  <2>3. QED
    BY <2>1, <2>2, FlowSockets, CleanerSockets DEF Next
<1>3. QED
  BY <1>1, <1>2, TypeCorrect, LockIsExclusive, PortsHaveOneOwner, PTL DEF Spec

\* For any instance: an allocation's socket, and the socket behind every Arc a handler or
\* a cleanup task keeps, stays open and stays the same while it is used.
THEOREM SocketsOutliveTheirUse == Spec => []ArcKeepsSocket
<1>1. SocketOK => ArcKeepsSocket
  BY DEF SocketOK
<1>2. QED
  BY <1>1, SocketInvariant, PTL
-----------------------------------------------------------------------------
(* Channel bindings                                                        *)

\* remove_for_relayed drops the bindings of one port and no other.
LEMMA RemovedBindings ==
    ASSUME TablesOK, NEW p, RemoveForRelayed(p)
    PROVE  \A q \in Ports, ch \in Channels :
               channels'[q][ch] = IF q = p THEN None ELSE channels[q][ch]
BY DEF TablesOK, RemoveForRelayed

\* A step that keeps the bindings and the sockets, and no used port becomes unused.
LEMMA KeptBindings ==
    ASSUME BindingOK, UNCHANGED <<channels, socket>>,
           Live \cup Unbinding \subseteq Live' \cup Unbinding'
    PROVE  BindingOK'
BY DEF BindingOK

\* A step that removes the bindings of the ports that become unused.
LEMMA DroppedBindings ==
    ASSUME BindingOK, UNCHANGED socket, NEW p,
           \A q \in Ports, ch \in Channels :
               channels'[q][ch] = IF q = p THEN None ELSE channels[q][ch],
           (Live \cup Unbinding) \ {p} \subseteq Live' \cup Unbinding'
    PROVE  BindingOK'
BY DEF BindingOK

\* Every step of a handler keeps the channel bindings that were not late tied to their allocation.
LEMMA FlowBindings ==
    ASSUME TablesOK, RelaysOK, FlowsOK, CleanersOK, PortBitHasOneOwner, SocketOK, BindingOK,
           NEW f \in Flows, Handler(f) \/ Request(f)
    PROVE  BindingOK'
<1>0. /\ \A g \in Flows \ {f} : pc'[g] = pc[g] /\ port'[g] = port[g]
      /\ UNCHANGED <<cpc, cport>>
  BY FlowFrame DEF OtherFlowsSame, cleaners
<1>1. CASE AllocateRemove(f) \/ RefreshRemove(f)
  BY <1>1, TakeOutEntries, <1>0, KeptBindings DEF AllocateRemove, RefreshRemove, RemoveEntry, Live,
     Removing, FlowsOK, Unbinding
<1>2. CASE AllocateUnbind(f) \/ RefreshUnbind(f)
  BY <1>2, <1>0, RemovedBindings, DroppedBindings DEF AllocateUnbind, RefreshUnbind, relays,
     Unbinding, Live
<1>3. ASSUME pc[f] \notin Removing, Live \subseteq Live'
      PROVE  Live \cup Unbinding \subseteq Live' \cup Unbinding'
  BY <1>0, <1>3 DEF Unbinding
<1>4. CASE CreateBind(f)
  BY <1>4, <1>3 DEF CreateBind, FlowsOK, WithPort, PCs, Creating, Removing, tables, RelaysOK, Live,
     BindingOK
<1>5. CASE CreateInsert(f)
  BY <1>5, InsertEntries, <1>3, KeptBindings, ZenonT(30) DEF CreateInsert, FlowsOK, WithPort, PCs,
     Creating, Removing, relays
<1>6. CASE ChannelBind(f)
  <2>1. /\ port[f] \in Ports /\ UNCHANGED <<allocations, socket>> /\ pc[f] \notin Removing
    BY <1>6 DEF ChannelBind, FlowsOK, WithPort, PCs, Removing, relays
  <2>2. Live \cup Unbinding \subseteq Live' \cup Unbinding'
    BY <1>3, <2>1, SMTT(30) DEF Live
  <2>3. CASE UNCHANGED channels
    BY <2>1, <2>2, <2>3, KeptBindings, SMTT(30)
  <2>4. CASE ~UNCHANGED channels
    <3> DEFINE late == port[f] \notin Live \/ allocations[port[f]].gen # seen[f]
               bound(peer) == [peer |-> peer, gen |-> seen[f], late |-> late]
    <3>1. PICK ch \in Channels, peer \in Peers : channels' = [channels EXCEPT ![port[f]][ch] = bound(peer)]
      BY <1>6, <2>4, SMTT(30) DEF ChannelBind
    <3>2. bound(peer).late = late /\ bound(peer).gen = seen[f]
      OBVIOUS
    <3>3. ~late => /\ port[f] \in Live /\ socket[port[f]].open /\ socket[port[f]].gen = seen[f]
      BY SMTT(30) DEF SocketOK, ArcKeepsSocket
    <3> HIDE DEF bound, late
    <3>4. /\ channels'[port[f]][ch] = bound(peer)
          /\ \A q \in Ports, h \in Channels :
                q # port[f] \/ h # ch => channels'[q][h] = channels[q][h]
      BY <2>1, <3>1 DEF TablesOK
    <3>5. QED
      BY <2>1, <2>2, <3>2, <3>3, <3>4, SMTT(30) DEF BindingOK
  <2>5. QED
    BY <2>3, <2>4
<1>7. CASE /\ ~AllocateRemove(f) /\ ~RefreshRemove(f) /\ ~AllocateUnbind(f) /\ ~RefreshUnbind(f)
           /\ ~CreateBind(f) /\ ~CreateInsert(f) /\ ~ChannelBind(f)
  <2>1. Live' = Live
    BY <1>7, QuietHandler, SameEntriesViews
  <2>2. UNCHANGED socket
    BY <1>7, QuietArcs
  <2>3. UNCHANGED channels /\ pc[f] \notin Removing
    <3>1. CASE Request(f)
      BY <3>1, RequestTypes, RequestIsLookup DEF tables, AllocateFind, FindOr, Removing
    <3>2. CASE Handler(f)
      BY <1>7, <3>2 DEF Handler, AllocateRemoveGone, CreateQuota, CreatePort, CreateBindFails,
         RefreshRemoveGone, RefreshSet, PermissionAdd, ChannelDataSend, SendCheck, SendDone, tables, Removing
    <3>3. QED
      BY <3>1, <3>2, SMTT(30)
  <2>4. QED
    BY <1>3, <2>1, <2>2, <2>3, KeptBindings
<1>8. QED
  BY <1>1, <1>2, <1>4, <1>5, <1>6, <1>7

\* Every step of cleanup_expired keeps the channel bindings that were not late tied to their
\* allocation.
LEMMA CleanerBindings ==
    ASSUME TablesOK, CleanersOK, LockOK, BindingOK, NEW c \in Cleaners, Cleaner(c)
    PROVE  BindingOK'
<1>0. UNCHANGED <<pc, port, socket>>
  BY DEF Cleaner, CleanGuard, CleanBegin, CleanRemove, CleanUnbind, CleanEnd, flows, relays
<1>1. CASE CleanRemove(c)
  BY <1>1, <1>0, TakeOutEntries, KeptBindings DEF CleanRemove, CleanersOK, Unbinding
<1>2. CASE CleanUnbind(c)
  BY <1>2, <1>0, RemovedBindings DEF CleanUnbind, Unbinding, CleanersOK, Live, BindingOK
<1>3. CASE CleanGuard(c) \/ CleanBegin(c) \/ CleanEnd(c)
  BY <1>3, <1>0, KeptBindings DEF CleanGuard, CleanBegin, CleanEnd, tables, Live, Unbinding, CleanersOK,
     Cleaning
<1>4. QED
  BY <1>1, <1>2, <1>3 DEF Cleaner

\* The passing of time and the end of tasks and sockets keep the bindings' layer.
LEMMA OtherBindings ==
    ASSUME TablesOK, RelaysOK, BindingOK,
           \/ \E p \in Ports, ch \in Channels : ChannelExpire(p, ch)
           \/ \E p \in Ports : Expire(p) \/ TaskEnd(p) \/ SocketClose(p)
           \/ SetMainSocket
    PROVE  BindingOK'
<1>1. Live' = Live
  BY OtherFrame, SameEntriesViews, SMTT(30)
<1>2. Unbinding' = Unbinding
  BY OtherFrame DEF flows, cleaners, Unbinding
<1>3. CASE SetMainSocket \/ \E p \in Ports : Expire(p) \/ TaskEnd(p)
  BY <1>1, <1>2, <1>3, KeptBindings, SMTT(30) DEF Expire, TaskEnd, SetMainSocket, tables, relays
<1>4. ASSUME NEW p \in Ports, SocketClose(p)
      PROVE  BindingOK'
  BY <1>4, <1>1, <1>2 DEF SocketClose, HeldByHandler, Unbinding, Live, RelaysOK, tables, BindingOK
<1>5. ASSUME NEW p \in Ports, NEW ch \in Channels, ChannelExpire(p, ch)
      PROVE  BindingOK'
  BY <1>5, <1>1, <1>2 DEF ChannelExpire, relays, TablesOK, BindingOK
<1>6. QED
  BY <1>3, <1>4, <1>5

\* For any instance: a binding that survives on the port of a later allocation was
\* inserted after its own allocation had been removed; remove_for_relayed, inside the
\* removal's critical section, misses no other.
THEOREM OnlyLateBindingsSurvive == Spec => []BindingsDieWithAllocation
<1>1. Init => BindingOK
  BY DEF Init, BindingOK
<1>2. TypeOK /\ LocalsOK /\ LockOK /\ PortBitHasOneOwner /\ SocketOK /\ BindingOK /\ [Next]_vars
        => BindingOK'
  <2> SUFFICES ASSUME TablesOK, RelaysOK, FlowsOK, CleanersOK, LockOK, PortBitHasOneOwner, SocketOK,
                      BindingOK, [Next]_vars
               PROVE  BindingOK'
    BY Parts
  <2>1. CASE UNCHANGED vars
    BY <2>1, KeptBindings DEF vars, tables, relays, flows, cleaners, Live, Unbinding
  <2>2. CASE \E f \in Flows : Handler(f) \/ Request(f)
    BY <2>2, FlowBindings
  <2>3. CASE \E c \in Cleaners : Cleaner(c)
    BY <2>3, CleanerBindings
  <2>4. QED
    BY <2>1, <2>2, <2>3, OtherBindings, ZenonT(30) DEF Next
<1>3. BindingOK => BindingsDieWithAllocation
  BY SMTT(30) DEF BindingOK, BindingsDieWithAllocation
<1>4. QED
  BY <1>1, <1>2, <1>3, TypeCorrect, LockIsExclusive, PortsHaveOneOwner, SocketInvariant, PTL DEF Spec
-----------------------------------------------------------------------------
(* The client's allocations                                                *)

\* A handler's step that neither removes nor inserts an entry keeps what the flow knows of its
\* client's allocations.
LEMMA QuietKnows ==
    ASSUME FlowsOK, TablesOK, NEW f \in Flows, Handler(f) \/ Request(f), Knows(f),
           ~AllocateRemove(f), ~RefreshRemove(f), ~CreateInsert(f),
           \A c \in Clients : \A p, q \in OwnedBy(c) : p = q
    PROVE  Knows(f)'
<1> SUFFICES ASSUME NEW c \in Clients, c = client'[f]
             PROVE  /\ pc'[f] \in Creating \cup Removing => OwnedBy(c)' = {}
                    /\ pc'[f] \in {"al_remove", "rf_remove", "rf_set"} => OwnedBy(c)' \subseteq {port'[f]}
                    /\ reply'[f] \in {"deleted", "mismatch"} => OwnedBy(c)' = {}
  BY ZenonT(30) DEF Knows
<1> DEFINE own == OwnedBy(c)
<1>o. own' = own /\ own \subseteq Live /\ \A p, q \in own : p = q
  BY QuietHandler, SameEntriesViews, SMTT(30) DEF OwnedBy
<1>k. Handler(f) => /\ c = client[f]
                    /\ pc[f] \in Creating \cup Removing => own = {}
                    /\ pc[f] \in {"al_remove", "rf_remove", "rf_set"} => own \subseteq {port[f]}
  BY ZenonT(30) DEF Knows, Handler
<1>g. SUFFICES /\ pc'[f] \in Creating \cup Removing => own = {}
               /\ pc'[f] \in {"al_remove", "rf_remove", "rf_set"} => own \subseteq {port'[f]}
               /\ reply'[f] \in {"deleted", "mismatch"} => own = {}
  BY <1>o, SMTT(30)
<1> HIDE DEF own
<1>1. CASE AllocateFind(f)
  BY <1>1, <1>o DEF AllocateFind, FlowsOK, ClientsOK, own, Found, Continue, Creating, Removing
<1>2. ASSUME NEW next \in LookupPCs, NEW r \in {"none", "mismatch"}, FindOr(f, next, r)
      PROVE  /\ pc'[f] \in Creating \cup Removing => own = {}
             /\ pc'[f] \in {"al_remove", "rf_remove", "rf_set"} => own \subseteq {port'[f]}
             /\ reply'[f] \in {"deleted", "mismatch"} => own = {}
  <2>1. client \in [Flows -> Clients] /\ DOMAIN pc = Flows /\ DOMAIN port = Flows /\ DOMAIN reply = Flows
    BY DEF FlowsOK, ClientsOK
  <2>2. \/ pc'[f] = next /\ port'[f] \in own /\ reply'[f] = "none"
        \/ pc'[f] = "idle" /\ own = {}
    BY <1>2, <2>1, ZenonT(30) DEF FindOr, own, Found, Respond
  <2>3. QED
    BY <2>2, <1>o DEF LookupPCs, Creating, Removing
<1>3. CASE /\ Handler(f)
           /\ AllocateRemoveGone(f) \/ RefreshRemoveGone(f) \/ AllocateUnbind(f) \/ RefreshUnbind(f)
  BY <1>3, <1>k, <1>o, ZenonT(30) DEF AllocateRemoveGone, RefreshRemoveGone, AllocateUnbind, RefreshUnbind,
     Removing
<1>4. CASE Handler(f) /\ (CreateQuota(f) \/ CreatePort(f) \/ CreateBind(f) \/ CreateBindFails(f))
  BY <1>4, <1>k DEF CreateQuota, CreatePort, CreateBind, CreateBindFails, Creating
<1>5. CASE Handler(f) /\ (RefreshSet(f) \/ PermissionAdd(f))
  BY <1>5, <1>o, <1>k DEF RefreshSet, PermissionAdd, Respond, FlowsOK, own, Creating, Removing
<1>6. CASE ChannelBind(f) \/ ChannelDataSend(f) \/ SendCheck(f) \/ SendDone(f)
  BY <1>6 DEF ChannelBind, ChannelDataSend, SendCheck, SendDone, Found, Respond, FlowsOK, Creating,
     Removing
<1>7. QED
  BY <1>1, <1>2, <1>3, <1>4, <1>5, <1>6, RequestIsLookup, ZenonT(30) DEF Handler

\* What holds of the other flows' clients after a step that gives them nothing.
LEMMA OthersKnow ==
    ASSUME NEW g \in Flows, Knows(g), client'[g] = client[g], pc'[g] = pc[g], port'[g] = port[g],
           reply'[g] = reply[g], \A c \in Clients : c = client[g] => OwnedBy(c)' \subseteq OwnedBy(c)
    PROVE  Knows(g)'
BY DEF Knows

\* Every step of a handler keeps each client at one allocation, and what the flows know of it.
LEMMA FlowClients ==
    ASSUME TablesOK, FlowsOK, FlowsOK', ClientOK, OneFlowPerClient,
           NEW f \in Flows, Handler(f) \/ Request(f)
    PROVE  /\ \A c \in Clients : \A p, q \in OwnedBy(c)' : p = q
           /\ \A g \in Flows : Knows(g)'
<1>0. \A g \in Flows \ {f} : /\ pc'[g] = pc[g] /\ port'[g] = port[g] /\ reply'[g] = reply[g]
                             /\ client'[g] = client[g] /\ client[g] # client'[f]
  BY FlowFrame DEF FlowsOK, ClientsOK, OneFlowPerClient, OtherFlowsSame
<1>1. /\ \A c \in Clients : \A p, q \in OwnedBy(c) : p = q
      /\ \A g \in Flows : Knows(g)
  BY ZenonT(30) DEF ClientOK
<1>2. ASSUME \A c \in Clients : c # client'[f] => OwnedBy(c)' \subseteq OwnedBy(c)
      PROVE  \A g \in Flows \ {f} : Knows(g)'
  BY <1>0, <1>1, <1>2, OthersKnow, ZenonT(30)
<1>3. CASE AllocateRemove(f) \/ RefreshRemove(f)
  <2>1. /\ port[f] \in Ports /\ TakeOut(port[f]) /\ client' = client
        /\ pc[f] \in {"al_remove", "rf_remove"}
    BY <1>3, ZenonT(30) DEF AllocateRemove, RefreshRemove, RemoveEntry, Live, Handler, Request, AllocateFind, RefreshFind,
       RefreshZeroFind, PermissionFind, BindFind, ChannelDataFind, SendFind, FindOr
  <2>2. \A c \in Clients : OwnedBy(c)' = OwnedBy(c) \ {port[f]}
    BY <2>1, TakeOutEntries, ZenonT(30)
  <2>3. \A c \in Clients : c = client'[f] => OwnedBy(c)' = {}
    BY <1>1, <2>1, <2>2 DEF Knows
  <2>4. Knows(f)'
    BY <2>3 DEF Knows
  <2>5. QED
    BY <1>1, <1>2, <2>2, <2>4, SMTT(30)
<1>4. CASE CreateInsert(f)
  <2>1. /\ port[f] \in Ports /\ client' = client
        /\ pc'[f] = "idle" /\ reply'[f] = "granted"
    BY <1>4, ZenonT(30) DEF CreateInsert, FlowsOK, WithPort, PCs, Creating, Respond, Handler, Request, AllocateFind,
       RefreshFind, RefreshZeroFind, PermissionFind, BindFind, ChannelDataFind, SendFind, FindOr
  <2>2. /\ Live' = Live \cup {port[f]}
        /\ allocations'[port[f]].client = client[f]
        /\ \A q \in Live \ {port[f]} : allocations'[q] = allocations[q]
    BY <1>4, <2>1, InsertEntries, ZenonT(30)
  <2>3. \A c \in Clients : c = client[f] => OwnedBy(c) = {}
    BY <1>1, <1>4, SMTT(30) DEF CreateInsert, Creating, Knows
  <2>4. \A c \in Clients : /\ c = client[f] => OwnedBy(c)' \subseteq {port[f]}
                           /\ c # client[f] => OwnedBy(c)' \subseteq OwnedBy(c)
    BY <2>2, <2>3, SMTT(30) DEF OwnedBy
  <2>5. Knows(f)'
    BY <2>1 DEF Knows, Creating, Removing
  <2>6. \A g \in Flows \ {f} : Knows(g)'
    BY <1>2, <2>1, <2>4, SMTT(30)
  <2>7. \A c \in Clients : \A p, q \in OwnedBy(c)' : p = q
    BY <1>1, <2>4
  <2>8. QED
    BY <2>5, <2>6, <2>7, SMTT(30)
<1>5. CASE ~AllocateRemove(f) /\ ~RefreshRemove(f) /\ ~CreateInsert(f)
  BY <1>5, QuietHandler, SameEntriesViews, <1>1, QuietKnows, <1>2
<1>6. QED
  BY <1>3, <1>4, <1>5

\* Steps of nobody's handler that only take entries out keep the clients' layer.
LEMMA OtherClients ==
    ASSUME ClientOK, OneFlowPerClient, UNCHANGED flows,
           \A c \in Clients : OwnedBy(c)' \subseteq OwnedBy(c)
    PROVE  /\ \A c \in Clients : \A p, q \in OwnedBy(c)' : p = q
           /\ \A g \in Flows : Knows(g)'
BY OthersKnow DEF ClientOK, flows

\* The clients' layer is an invariant.
LEMMA ClientInvariant == Spec => []ClientOK
<1>1. Init => ClientOK
  BY DEF Init, ClientOK, Knows, OwnedBy, Live, Creating, Removing
<1>2. TypeOK /\ LocalsOK /\ TypeOK' /\ LocalsOK' /\ ClientOK /\ [Next]_vars => ClientOK'
  <2> SUFFICES ASSUME TablesOK, FlowsOK, CleanersOK, FlowsOK', ClientOK, OneFlowPerClient, [Next]_vars
               PROVE  /\ \A c \in Clients : \A p, q \in OwnedBy(c)' : p = q
                      /\ \A g \in Flows : Knows(g)'
    <3>1. TypeOK' /\ LocalsOK' => FlowsOK'
      BY DEF TypeOK, LocalsOK, FlowsOK, ClientsOK
    <3>2. QED
      BY <3>1, Parts, ZenonT(30) DEF ClientOK
  <2>1. CASE UNCHANGED vars
    BY <2>1, OtherClients, UnchangedEntries, SameEntriesViews, SMTT(30) DEF vars, tables
  <2>2. ASSUME \/ \E p \in Ports, ch \in Channels : ChannelExpire(p, ch)
               \/ \E p \in Ports : Expire(p) \/ TaskEnd(p) \/ SocketClose(p)
               \/ SetMainSocket
        PROVE  \A c \in Clients : OwnedBy(c)' \subseteq OwnedBy(c)
    BY <2>2, OtherFrame, SameEntriesViews, ZenonT(30)
  <2>3. ASSUME NEW k \in Cleaners, Cleaner(k)
        PROVE  UNCHANGED flows /\ \A c \in Clients : OwnedBy(c)' \subseteq OwnedBy(c)
    BY <2>3, TakeOutEntries, UnchangedEntries, SameEntriesViews DEF Cleaner, CleanGuard, CleanBegin,
       CleanRemove, CleanUnbind, CleanEnd, CleanersOK, tables
  <2>4. QED
    BY <2>1, <2>2, <2>3, FlowClients, OtherFrame, OtherClients, SMTT(30) DEF Next
<1>3. QED
  BY <1>1, <1>2, TypeCorrect, PTL DEF Spec

\* For any instance without two flows of one client, handle_allocate's separate lookup,
\* removal and insertion never leave a client with two allocations.
THEOREM AtMostOneAllocation == Spec => []OneAllocationPerClient
<1>1. ClientOK => OneAllocationPerClient
  BY DEF ClientOK, OneAllocationPerClient
<1>2. QED
  BY <1>1, ClientInvariant, PTL

\* For any instance without two flows of one client, a "deleted" or 437 response is true
\* until the client's next request.
THEOREM DeletedStaysDeleted == Spec => []NoAllocationAfterDeleted
<1>1. TypeOK /\ ClientOK => NoAllocationAfterDeleted
  BY SMTT(30) DEF ClientOK, NoAllocationAfterDeleted, Knows, TypeOK
<1>2. QED
  BY <1>1, ClientInvariant, TypeCorrect, PTL
=============================================================================
