------------------------- MODULE TurnRelayTableProofs -------------------------
(***************************************************************************)
(* Proofs about the allocation table of TurnRelay: its counter             *)
(* active_allocations agrees with it, and the quota checked against the    *)
(* counter is exceeded by a bounded amount only.                           *)
(***************************************************************************)
EXTENDS TurnRelayClientProofs, FiniteSetTheorems

\* How far the counter is ahead of the table while c is inside cleanup_expired.
Ahead(c) == count[c] + (IF cpc[c] = "unbind" THEN 1 ELSE 0)

\* The handlers that have passed the quota check and not yet inserted.
Admitted == {f \in Flows : pc[f] \in {"al_port", "al_bind", "al_insert"}}

\* The table is finite, and so are the handlers that passed the check.
LEMMA FiniteTable ==
    /\ IsFiniteSet(Live) /\ Cardinality(Live) \in Nat
    /\ IsFiniteSet(Admitted) /\ Cardinality(Admitted) \in Nat
    /\ Cardinality(Flows) \in Nat
  BY FS_Subset, TablesAssumption, FlowsAssumption, FS_CardinalityType DEF Live, Admitted

\* A step that keeps the table's size and the counter.
LEMMA SameCount ==
    ASSUME ActiveIsTableSize, Live' = Live, UNCHANGED <<active, cpc, count>>
    PROVE  ActiveIsTableSize'
BY DEF ActiveIsTableSize, Cleaning

\* Every step of a handler keeps the active counter in agreement with the table.
LEMMA FlowCount ==
    ASSUME TablesOK, FlowsOK, CleanersOK, PortBitHasOneOwner, ActiveIsTableSize,
           NEW f \in Flows, Handler(f) \/ Request(f)
    PROVE  ActiveIsTableSize'
<1>0. UNCHANGED <<cpc, count>>
  BY FlowFrame DEF OtherFlowsSame, cleaners
<1>1. CASE AllocateRemove(f) \/ RefreshRemove(f)
  <2>1. /\ port[f] \in Live /\ port[f] \in Ports /\ TakeOut(port[f]) /\ active' = active - 1
        /\ \A c \in Cleaners : ~Cleaning(c)
    BY <1>1 DEF AllocateRemove, RefreshRemove, RemoveEntry, Live, TableUnlocked
  <2>2. Live' = Live \ {port[f]}
    BY <2>1, TakeOutEntries
  <2>3. Cardinality(Live') = Cardinality(Live) - 1
    BY <2>1, <2>2, FiniteTable, FS_RemoveElement, ZenonT(30)
  <2>4. QED
    BY <1>0, <2>1, <2>3, FiniteTable DEF ActiveIsTableSize, Cleaning, TablesOK
<1>2. CASE CreateInsert(f)
  <2>1. /\ port[f] \in Ports /\ port[f] \notin Live /\ active' = active + 1
        /\ \A c \in Cleaners : ~Cleaning(c)
    BY <1>2 DEF CreateInsert, FlowsOK, WithPort, PCs, Creating, TableUnlocked, PortBitHasOneOwner, HoldsBit
  <2>2. Live' = Live \cup {port[f]}
    BY <1>2, <2>1, InsertEntries
  <2>3. Cardinality(Live') = Cardinality(Live) + 1
    BY <2>1, <2>2, FiniteTable, FS_AddElement, ZenonT(30)
  <2>4. QED
    BY <1>0, <2>1, <2>3, FiniteTable DEF ActiveIsTableSize, Cleaning, TablesOK
<1>3. CASE ~AllocateRemove(f) /\ ~RefreshRemove(f) /\ ~CreateInsert(f)
  <2>1. Live' = Live
    BY <1>3, QuietHandler, SameEntriesViews
  <2>2. UNCHANGED active
    <3>1. CASE Request(f)
      BY <3>1, RequestTypes, SMTT(30) DEF tables
    <3>2. CASE Handler(f)
      BY <1>3, <3>2, ZenonT(30) DEF Handler, AllocateRemoveGone, AllocateUnbind, CreateQuota, CreatePort, CreateBind,
         CreateBindFails, RefreshRemoveGone, RefreshUnbind, RefreshSet, PermissionAdd, ChannelBind,
         ChannelDataSend, SendCheck, SendDone, tables
    <3>3. QED
      BY <3>1, <3>2
  <2>3. QED
    BY <1>0, <2>1, <2>2, SameCount
<1>4. QED
  BY <1>1, <1>2, <1>3

\* Every step of cleanup_expired keeps the active counter in agreement with the table.
LEMMA CleanerCount ==
    ASSUME TablesOK, CleanersOK, LockOK, ActiveIsTableSize, NEW c \in Cleaners, Cleaner(c)
    PROVE  ActiveIsTableSize'
<1>0. \A d \in Cleaners \ {c} : cpc'[d] = cpc[d]
  BY DEF Cleaner, CleanGuard, CleanBegin, CleanRemove, CleanUnbind, CleanEnd, CleanersOK
<1>1. ~CleanGuard(c) => \A d \in Cleaners \ {c} : ~Cleaning(d)
  BY DEF Cleaner, CleanGuard, CleanBegin, CleanRemove, CleanUnbind, CleanEnd, LockOK, Cleaning, TableUnlocked
<1>g. CASE CleanGuard(c)
  <2>1. \A d \in Cleaners : Cleaning(d)' <=> Cleaning(d)
    BY <1>g DEF CleanGuard, CleanersOK, Cleaning
  <2>2. \A d \in Cleaners : cpc'[d] = "unbind" <=> cpc[d] = "unbind"
    BY <1>g DEF CleanGuard, CleanersOK
  <2>3. Live' = Live /\ UNCHANGED <<active, count>>
    BY <1>g DEF CleanGuard, tables, Live
  <2>4. QED
    BY <2>1, <2>2, <2>3 DEF ActiveIsTableSize
<1> SUFFICES ASSUME ~CleanGuard(c) PROVE ActiveIsTableSize'
  BY <1>g
<1>2. /\ ~Cleaning(c) => active = Cardinality(Live)
      /\ Cleaning(c) => active = Cardinality(Live) + Ahead(c)
      /\ active \in Int /\ count[c] \in Nat /\ Cardinality(Live) \in Nat
  BY <1>1, FiniteTable DEF ActiveIsTableSize, Cleaning, TablesOK, CleanersOK, Ahead
<1>3. SUFFICES /\ ~Cleaning(c)' => active' = Cardinality(Live')
               /\ Cleaning(c)' => active' = Cardinality(Live') + Ahead(c)'
  BY <1>0, <1>1 DEF ActiveIsTableSize, Cleaning, Ahead
<1>4. CASE CleanBegin(c)
  BY <1>4, <1>2 DEF CleanBegin, tables, Live, CleanersOK, Cleaning, Ahead
<1>5. CASE CleanRemove(c)
  <2>1. PICK p \in todo[c] : TakeOut(p)
    BY <1>5 DEF CleanRemove
  <2>2. /\ p \in Ports /\ p \in Live /\ active' = active /\ count' = count
        /\ cpc[c] = "next" /\ cpc'[c] = "unbind"
    BY <1>5, <2>1 DEF CleanRemove, CleanersOK, LockOK
  <2>3. Cardinality(Live') = Cardinality(Live) - 1
    BY <2>1, <2>2, TakeOutEntries, FiniteTable, FS_RemoveElement
  <2>4. QED
    BY <1>2, <2>2, <2>3 DEF Ahead, Cleaning
<1>6. CASE CleanUnbind(c)
  BY <1>6, <1>2 DEF CleanUnbind, Live, CleanersOK, Cleaning, Ahead
<1>7. CASE CleanEnd(c)
  BY <1>7, <1>2 DEF CleanEnd, Live, CleanersOK, Cleaning, Ahead
<1>8. QED
  BY <1>4, <1>5, <1>6, <1>7 DEF Cleaner

\* For any instance: active_allocations is the size of the allocation table whenever no
\* cleanup is under way, and ahead by exactly the entries removed so far while one is;
\* it therefore never underflows.
THEOREM CounterAgreesWithTable == Spec => []ActiveIsTableSize
<1>1. Init => ActiveIsTableSize
  <2>1. Init => Live = {} /\ active = 0 /\ \A c \in Cleaners : ~Cleaning(c)
    BY DEF Init, Live, Cleaning
  <2>2. QED
    BY <2>1, FS_EmptySet DEF ActiveIsTableSize
<1>2. TypeOK /\ LocalsOK /\ LockOK /\ PortBitHasOneOwner /\ ActiveIsTableSize /\ [Next]_vars
        => ActiveIsTableSize'
  <2> SUFFICES ASSUME TablesOK, FlowsOK, CleanersOK, LockOK, PortBitHasOneOwner, ActiveIsTableSize,
                      [Next]_vars
               PROVE  ActiveIsTableSize'
    BY Parts
  <2>1. CASE UNCHANGED vars
    BY <2>1, SameCount DEF vars, tables, cleaners, Live
  <2>2. ASSUME \/ \E p \in Ports, ch \in Channels : ChannelExpire(p, ch)
               \/ \E p \in Ports : Expire(p) \/ TaskEnd(p) \/ SocketClose(p)
               \/ SetMainSocket
        PROVE  ActiveIsTableSize'
    BY <2>2, OtherFrame, SameEntriesViews, SameCount DEF cleaners
  <2>3. QED
    BY <2>1, <2>2, FlowCount, CleanerCount DEF Next
<1>3. QED
  BY <1>1, <1>2, TypeCorrect, LockIsExclusive, PortsHaveOneOwner, PTL DEF Spec
-----------------------------------------------------------------------------
(* The quota                                                               *)

\* A step that admits nobody and does not raise the counter.
LEMMA QuotaKept ==
    ASSUME TablesOK, TablesOK', QuotaOvershootBounded, Admitted' \subseteq Admitted, active' <= active
    PROVE  QuotaOvershootBounded'
  BY FiniteTable, FS_Subset, FS_CardinalityType, BoundsAssumption DEF QuotaOvershootBounded,
     Admitted, TablesOK

\* Every step of a handler keeps the overshoot of max_concurrent_allocations within the handlers
\* that are past its check.
LEMMA FlowQuota ==
    ASSUME TablesOK, FlowsOK, TablesOK', QuotaOvershootBounded, NEW f \in Flows, Handler(f) \/ Request(f)
    PROVE  QuotaOvershootBounded'
<1>0. \A g \in Flows \ {f} : pc'[g] = pc[g]
  BY FlowFrame DEF OtherFlowsSame
<1>1. active + Cardinality(Admitted) <= MaxAllocations - 1 + Cardinality(Flows)
  BY DEF QuotaOvershootBounded, Admitted
<1>2. CASE CreateQuota(f)
  <2>1. CASE Respond(f, "refused")
    BY <1>0, <2>1, <1>2, QuotaKept DEF Respond, Admitted, FlowsOK, CreateQuota, tables, TablesOK
  <2>2. CASE ~Respond(f, "refused")
    BY <1>2, <2>2, FS_Subset, FlowsAssumption, FS_CardinalityType, FiniteTable, BoundsAssumption DEF
       CreateQuota, tables, Admitted, TablesOK, QuotaOvershootBounded
  <2>3. QED
    BY <2>1, <2>2
<1>3. CASE CreateInsert(f)
  <2>1. f \in Admitted /\ Admitted' = Admitted \ {f} /\ active' = active + 1
    BY <1>0, <1>3 DEF CreateInsert, Respond, Admitted, FlowsOK
  <2>2. Cardinality(Admitted') = Cardinality(Admitted) - 1
    BY <2>1, FiniteTable, FS_RemoveElement, ZenonT(30)
  <2>3. active' + Cardinality(Admitted') <= MaxAllocations - 1 + Cardinality(Flows)
    BY <1>1, <2>1, <2>2, FiniteTable, BoundsAssumption DEF TablesOK
  <2>4. QED
    BY <2>3 DEF QuotaOvershootBounded, Admitted
<1>4. CASE ~CreateQuota(f) /\ ~CreateInsert(f)
  <2>1. active' <= active
    <3>1. CASE Request(f)
      BY <3>1, RequestTypes DEF tables, TablesOK
    <3>2. CASE AllocateRemove(f) \/ RefreshRemove(f)
      BY <3>2 DEF AllocateRemove, RefreshRemove, RemoveEntry, TablesOK
    <3>3. CASE Handler(f) /\ ~AllocateRemove(f) /\ ~RefreshRemove(f)
      <4>1. UNCHANGED active
        BY <1>4, <3>3, ZenonT(30) DEF Handler, AllocateRemoveGone, AllocateUnbind, CreatePort, CreateBind,
           CreateBindFails, RefreshRemoveGone, RefreshUnbind, RefreshSet, PermissionAdd, ChannelBind,
           ChannelDataSend, SendCheck, SendDone, tables
      <4>2. QED
        BY <4>1, SMTT(30) DEF TablesOK
    <3>4. QED
      BY <3>1, <3>2, <3>3
  <2>2. pc'[f] \in {"al_port", "al_bind", "al_insert"} => pc[f] \in {"al_port", "al_bind", "al_insert"}
    <3>1. CASE AllocateFind(f)
      BY <3>1 DEF AllocateFind, Found, Continue, FlowsOK
    <3>2. ASSUME NEW next \in LookupPCs, NEW r \in {"none", "mismatch"}, FindOr(f, next, r)
          PROVE  pc'[f] \notin {"al_port", "al_bind", "al_insert"}
      BY <3>2, SMTT(30) DEF FindOr, Found, Respond, LookupPCs, FlowsOK
    <3>3. CASE Handler(f)
      BY <1>4, <3>3, ZenonT(30) DEF Handler, AllocateRemove, RefreshRemove, RemoveEntry, AllocateRemoveGone,
         AllocateUnbind, CreatePort, CreateBind, CreateBindFails, RefreshRemoveGone, RefreshUnbind,
         RefreshSet, PermissionAdd, ChannelBind, ChannelDataSend, SendCheck, SendDone, Found, Continue,
         Respond, FlowsOK
    <3>4. QED
      BY <3>1, <3>2, <3>3, RequestIsLookup, SMTT(30)
  <2>3. Admitted' \subseteq Admitted
    BY <1>0, <2>2 DEF Admitted
  <2>4. QED
    BY <2>1, <2>3, QuotaKept
<1>5. QED
  BY <1>2, <1>3, <1>4

\* For any instance: the check-then-increment race on max_concurrent_allocations lets at
\* most one allocation per flow but the first exceed the limit.
THEOREM QuotaOvershoot == Spec => []QuotaOvershootBounded
<1>1. Init => QuotaOvershootBounded
  BY FS_EmptySet, FiniteTable, BoundsAssumption DEF Init, Admitted, QuotaOvershootBounded
<1>2. TypeOK /\ LocalsOK /\ TypeOK' /\ LocalsOK' /\ QuotaOvershootBounded /\ [Next]_vars
        => QuotaOvershootBounded'
  <2> SUFFICES ASSUME TablesOK, FlowsOK, CleanersOK, TypeOK', LocalsOK', QuotaOvershootBounded, [Next]_vars
               PROVE  QuotaOvershootBounded'
    BY Parts
  <2>0. TablesOK'
    BY DEF TypeOK, TablesOK
  <2>k. UNCHANGED flows /\ active' <= active => QuotaOvershootBounded'
    <3>1. UNCHANGED flows => Admitted' = Admitted
      BY DEF flows, Admitted
    <3>2. QED
      BY <2>0, <3>1, QuotaKept
  <2>1. CASE UNCHANGED vars
    BY <2>1, <2>k DEF vars, tables, TablesOK
  <2>2. ASSUME NEW c \in Cleaners, Cleaner(c) PROVE UNCHANGED flows /\ active' <= active
    BY <2>2 DEF Cleaner, CleanGuard, CleanBegin, CleanRemove, CleanUnbind, CleanEnd, tables, TablesOK, CleanersOK
  <2>3. ASSUME \/ \E p \in Ports, ch \in Channels : ChannelExpire(p, ch)
               \/ \E p \in Ports : Expire(p) \/ TaskEnd(p) \/ SocketClose(p)
               \/ SetMainSocket
        PROVE  UNCHANGED flows /\ active' <= active
    BY <2>3, OtherFrame DEF TablesOK
  <2>4. QED
    BY <2>0, <2>k, <2>1, <2>2, <2>3, FlowQuota DEF Next
<1>3. QED
  BY <1>1, <1>2, TypeCorrect, PTL DEF Spec
=============================================================================
