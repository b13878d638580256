------------------------------ MODULE TurnRelay ------------------------------
(***************************************************************************)
(* The allocation lifecycle of the server: the allocation table, the port  *)
(* bitmap, the relay sockets with their tasks, and the channel table, as   *)
(* the request handlers and the cleanup tasks interleave on them.          *)
(*                                                                         *)
(* A flow serves requests one after the other: it is a UDP worker with the *)
(* client addresses that hash to it, or one TCP, TLS or DTLS connection.   *)
(* The tables are keyed by the client's address alone, whatever its        *)
(* transport, so two flows may serve the same client address.              *)
(*                                                                         *)
(* A step is one critical section of the code or one await.  Requests are  *)
(* authenticated and well formed.  Time is abstracted to the fact that an  *)
(* allocation has outlived its lifetime (module AllocationLifetime has the *)
(* clock).  The relayed address is external_addr with the relay port, so a *)
(* relay port stands for it.                                               *)
(***************************************************************************)
EXTENDS Integers, FiniteSets

CONSTANTS Flows,          \* UDP workers and connections
          Clients,        \* client socket addresses
          ClientsOf,      \* the client addresses each flow serves
          Cleaners,       \* allocation cleanup tasks
          Ports,          \* relay ports min_port..max_port
          Peers,          \* peer addresses
          Channels,       \* channel numbers
          MaxAllocations, \* max_concurrent_allocations, when it is set
          MaxAttempts,    \* MAX_ATTEMPTS
          UdpFirst,       \* a UDP listener is up before the first request
          MaxGen,         \* bound: sockets opened on one port
          None            \* the absent value of an Option

ASSUME FlowsAssumption ==
    /\ IsFiniteSet(Flows)
    /\ ClientsOf \in [Flows -> SUBSET Clients]
    /\ UdpFirst \in BOOLEAN

ASSUME TablesAssumption ==
    /\ IsFiniteSet(Ports)
    /\ None \notin Ports
    /\ None \notin Flows
    /\ None \notin [client : Clients, gen : Nat, expired : BOOLEAN, permissions : SUBSET Peers]
    /\ None \notin [peer : Peers, gen : Nat, late : BOOLEAN]

ASSUME BoundsAssumption ==
    /\ MaxAllocations \in Nat \ {0}
    /\ MaxAttempts \in Nat \ {0}
    /\ MaxGen \in Nat

VARIABLES
    \* AllocationTable
    allocations,   \* relay port -> Allocation or None
    portBits,      \* the ports whose bit is set in PortAllocator
    active,        \* stats.active_allocations
    \* ChannelTable
    channels,      \* relay port -> channel number -> ChannelBinding or None
    \* relay sockets and their tasks
    socket,        \* port -> is its relay socket open, and the number of the last one opened
    task,          \* port -> state of the relay task of the last socket
    mainSocket,    \* a UDP listener has set main_socket
    defaultSender, \* the relay port whose socket is the registry's default_sender, or None
    \* request handlers
    client,        \* the client address of the flow's current or last request
    pc,            \* where each flow's handler stands
    port,          \* the relay port its locals hold, or None
    seen,          \* socket number of the allocation it found (ghost but for held Arcs)
    tries,         \* attempts of create_allocation
    reply,         \* kind of the last response sent on the flow
    \* cleanup tasks
    cpc, cport,    \* where it stands, and the entry it is removing
    todo, count    \* expired ports left, entries removed

tables == <<allocations, portBits, active, channels>>
senders == <<mainSocket, defaultSender>>
relays == <<socket, task, senders>>
flows == <<client, pc, port, seen, tries, reply>>
cleaners == <<cpc, cport, todo, count>>
vars == <<tables, relays, flows, cleaners>>

Allocation == [client : Clients, gen : Nat, expired : BOOLEAN, permissions : SUBSET Peers]

\* gen and late are ghosts: the socket of the allocation the ChannelBind was made
\* for, and whether that allocation had already left the table at the insertion.
ChannelBinding == [peer : Peers, gen : Nat, late : BOOLEAN]

Removing == {"al_unbind", "rf_unbind"}
Creating == {"al_quota", "al_port", "al_bind", "al_insert"}
PCs == Removing \cup Creating \cup
       {"idle", "al_remove", "rf_remove", "rf_set", "pm_add", "cb_bind",
        "cd_send", "sd_check", "sd_send"}
Replies == {"none", "granted", "deleted", "ok", "mismatch", "refused"}

TypeOK ==
    /\ allocations \in [Ports -> Allocation \cup {None}]
    /\ portBits \in SUBSET Ports
    /\ active \in Int
    /\ channels \in [Ports -> [Channels -> ChannelBinding \cup {None}]]
    /\ socket \in [Ports -> [open : BOOLEAN, gen : Nat]]
    /\ task \in [Ports -> {"running", "aborted", "gone"}]
    /\ mainSocket \in BOOLEAN
    /\ defaultSender \in Ports \cup {None}
    /\ client \in [Flows -> Clients]
    /\ pc \in [Flows -> PCs]
    /\ port \in [Flows -> Ports \cup {None}]
    /\ seen \in [Flows -> Nat]
    /\ tries \in [Flows -> 0..MaxAttempts - 1]
    /\ reply \in [Flows -> Replies]
    /\ cpc \in [Cleaners -> {"idle", "guard", "next", "unbind"}]
    /\ cport \in [Cleaners -> Ports \cup {None}]
    /\ todo \in [Cleaners -> SUBSET Ports]
    /\ count \in [Cleaners -> Nat]

Init ==
    /\ allocations = [p \in Ports |-> None]
    /\ portBits = {}
    /\ active = 0
    /\ channels = [p \in Ports |-> [ch \in Channels |-> None]]
    /\ socket = [p \in Ports |-> [open |-> FALSE, gen |-> 0]]
    /\ task = [p \in Ports |-> "gone"]
    /\ mainSocket = UdpFirst
    /\ defaultSender = None
    /\ client \in {c \in [Flows -> Clients] : \A f \in Flows : c[f] \in ClientsOf[f]}
    /\ pc = [f \in Flows |-> "idle"]
    /\ port = [f \in Flows |-> None]
    /\ seen = [f \in Flows |-> 0]
    /\ tries = [f \in Flows |-> 0]
    /\ reply = [f \in Flows |-> "none"]
    /\ cpc = [c \in Cleaners |-> "idle"]
    /\ cport = [c \in Cleaners |-> None]
    /\ todo = [c \in Cleaners |-> {}]
    /\ count = [c \in Cleaners |-> 0]
-----------------------------------------------------------------------------
(* Locks, lookups and the flow's control state                             *)

Live == {p \in Ports : allocations[p] # None}
OwnedBy(c) == {p \in Live : allocations[p].client = c}

\* The cleanup task is inside cleanup_expired, with allocations.write().
Cleaning(c) == cpc[c] \in {"next", "unbind"}

\* allocations.read() and allocations.write() are granted while no handler is inside
\* remove_allocation and no cleanup task is inside cleanup_expired.
TableUnlocked ==
    /\ \A f \in Flows : pc[f] \notin Removing
    /\ \A c \in Cleaners : ~Cleaning(c)

\* channel_table.write() is granted while no cleanup task holds its read guard, which it
\* takes before it waits for the allocation table.
ChannelTableWritable == \A c \in Cleaners : cpc[c] = "idle"

Found(f, p, next) ==
    /\ pc' = [pc EXCEPT ![f] = next]
    /\ port' = [port EXCEPT ![f] = p]
    /\ seen' = [seen EXCEPT ![f] = allocations[p].gen]
    /\ reply' = [reply EXCEPT ![f] = "none"]
    /\ UNCHANGED tries

Continue(f, next) ==
    /\ pc' = [pc EXCEPT ![f] = next]
    /\ reply' = [reply EXCEPT ![f] = "none"]
    /\ UNCHANGED <<port, seen, tries>>

Respond(f, r) ==
    /\ pc' = [pc EXCEPT ![f] = "idle"]
    /\ port' = [port EXCEPT ![f] = None]
    /\ seen' = [seen EXCEPT ![f] = 0]
    /\ tries' = [tries EXCEPT ![f] = 0]
    /\ reply' = [reply EXCEPT ![f] = r]

\* Mutant: the lookup skips expired allocations.
FindSkipsExpired(f, next, r) ==
    LET usable(c) == {p \in OwnedBy(c) : ~allocations[p].expired} IN
    /\ pc[f] = "idle"
    /\ TableUnlocked
    /\ \E c \in ClientsOf[f] :
         /\ client' = [client EXCEPT ![f] = c]
         /\ \/ \E p \in usable(c) : Found(f, p, next)
            \/ usable(c) = {} /\ Respond(f, r)
    /\ UNCHANGED <<tables, relays, cleaners>>

\* find_allocation_by_client at the head of a handler: any of the client's
\* allocations, expired or not, or r when there is none.
FindOr(f, next, r) ==
    /\ pc[f] = "idle"
    /\ TableUnlocked
    /\ \E c \in ClientsOf[f] :
         /\ client' = [client EXCEPT ![f] = c]
         /\ \/ \E p \in OwnedBy(c) : Found(f, p, next)
            \/ OwnedBy(c) = {} /\ Respond(f, r)
    /\ UNCHANGED <<tables, relays, cleaners>>
-----------------------------------------------------------------------------
(* remove_allocation, used by Allocate and by Refresh with lifetime 0      *)

\* Mutant: the relay task is not aborted.
TakeOutKeepsTask(p) ==
    /\ allocations' = [allocations EXCEPT ![p] = None]
    /\ portBits' = portBits \ {p}
    /\ UNCHANGED task

\* Under allocations.write(): the entry leaves the table whoever owns it, its task
\* is aborted, its port bit is cleared and active_allocations is decremented.
TakeOut(p) ==
    /\ allocations' = [allocations EXCEPT ![p] = None]
    /\ portBits' = portBits \ {p}
    /\ task' = [task EXCEPT ![p] = IF @ = "running" THEN "aborted" ELSE @]

RemoveEntry(f, from, unbind) ==
    /\ pc[f] = from
    /\ TableUnlocked
    /\ port[f] \in Live
    /\ TakeOut(port[f])
    /\ active' = active - 1
    /\ pc' = [pc EXCEPT ![f] = unbind]
    /\ UNCHANGED <<channels, socket, senders, port, seen, tries, reply, cleaners>>

\* Mutant: the bindings stay.
RemoveNoBinding(p) == UNCHANGED channels

\* ChannelTable::remove_for_relayed, still under the lock and with the removed Arc
\* held by the caller.
RemoveForRelayed(p) == channels' = [channels EXCEPT ![p] = [ch \in Channels |-> None]]
-----------------------------------------------------------------------------
(* handle_allocate                                                         *)

\* Mutant: the client's existing allocation is left in place.
AllocateKeepsOld(f) ==
    /\ pc[f] = "idle"
    /\ TableUnlocked
    /\ \E c \in ClientsOf[f] : client' = [client EXCEPT ![f] = c]
    /\ Continue(f, "al_quota")
    /\ UNCHANGED <<tables, relays, cleaners>>

AllocateFind(f) ==
    /\ pc[f] = "idle"
    /\ TableUnlocked
    /\ \E c \in ClientsOf[f] :
         /\ client' = [client EXCEPT ![f] = c]
         /\ \/ \E p \in OwnedBy(c) : Found(f, p, "al_remove")
            \/ OwnedBy(c) = {} /\ Continue(f, "al_quota")
    /\ UNCHANGED <<tables, relays, cleaners>>

AllocateRemove(f) == RemoveEntry(f, "al_remove", "al_unbind")

AllocateRemoveGone(f) ==
    /\ pc[f] = "al_remove"
    /\ TableUnlocked
    /\ port[f] \notin Live
    /\ Continue(f, "al_quota")
    /\ UNCHANGED <<tables, relays, cleaners>>

\* Mutant: the bindings are removed under channel_table.write(), which is polled for.
UnbindWithGuard(f) ==
    /\ pc[f] = "al_unbind"
    /\ \/ /\ ChannelTableWritable
          /\ RemoveForRelayed(port[f])
          /\ Continue(f, "al_quota")
          /\ UNCHANGED <<allocations, portBits, active, relays, cleaners>>
       \/ ~ChannelTableWritable /\ UNCHANGED vars

AllocateUnbind(f) ==
    /\ pc[f] = "al_unbind"
    /\ RemoveForRelayed(port[f])
    /\ Continue(f, "al_quota")
    /\ UNCHANGED <<allocations, portBits, active, relays, cleaners>>

\* Mutant: the quota is refused one allocation late.
QuotaOffByOne(f) ==
    /\ pc[f] = "al_quota"
    /\ \/ active > MaxAllocations /\ Respond(f, "refused")
       \/ active <= MaxAllocations /\ Continue(f, "al_port")
    /\ UNCHANGED <<tables, relays, cleaners>>

\* The quota is checked on an unlocked read of active_allocations.
CreateQuota(f) ==
    /\ pc[f] = "al_quota"
    /\ \/ active >= MaxAllocations /\ Respond(f, "refused")
       \/ active < MaxAllocations /\ Continue(f, "al_port")
    /\ UNCHANGED <<tables, relays, cleaners>>

\* PortAllocator::allocate, a call of PortPool in one step.  Its scan goes word by word and can
\* miss ports that are released behind it (module PortAllocator).
CreatePort(f) ==
    /\ pc[f] = "al_port"
    /\ \/ \E p \in Ports \ portBits :
            /\ portBits' = portBits \cup {p}
            /\ port' = [port EXCEPT ![f] = p]
            /\ pc' = [pc EXCEPT ![f] = "al_bind"]
            /\ UNCHANGED <<seen, tries, reply>>
       \/ /\ portBits # {}
          /\ Respond(f, "refused")
          /\ UNCHANGED portBits
    /\ UNCHANGED <<allocations, active, channels, relays, cleaners>>

\* UdpSocket::bind succeeds only when no socket is open on the port; the relay task
\* is spawned at once.  While there is no main_socket the new socket becomes the
\* default_sender, and the one before it is dropped.
CreateBind(f) ==
    LET p == port[f] IN
    /\ pc[f] = "al_bind"
    /\ ~socket[p].open
    /\ socket[p].gen < MaxGen
    /\ socket' = [socket EXCEPT ![p] = [open |-> TRUE, gen |-> @.gen + 1]]
    /\ task' = [task EXCEPT ![p] = "running"]
    /\ defaultSender' = IF mainSocket THEN defaultSender ELSE p
    /\ seen' = [seen EXCEPT ![f] = socket[p].gen + 1]
    /\ pc' = [pc EXCEPT ![f] = "al_insert"]
    /\ UNCHANGED <<tables, mainSocket, port, tries, reply, cleaners>>

\* Mutant: the port is not released.
BindFailsLeaksPort(f) ==
    /\ pc[f] = "al_bind"
    /\ UNCHANGED portBits
    /\ \/ /\ tries[f] + 1 < MaxAttempts
          /\ tries' = [tries EXCEPT ![f] = @ + 1]
          /\ port' = [port EXCEPT ![f] = None]
          /\ pc' = [pc EXCEPT ![f] = "al_port"]
          /\ UNCHANGED <<seen, reply>>
       \/ /\ tries[f] + 1 >= MaxAttempts
          /\ Respond(f, "refused")
    /\ UNCHANGED <<allocations, active, channels, relays, cleaners>>

\* The bind fails, because the port's last socket is still open or for a reason of
\* the system's: the port is released and another is tried, MaxAttempts times.
CreateBindFails(f) ==
    /\ pc[f] = "al_bind"
    /\ portBits' = portBits \ {port[f]}
    /\ \/ /\ tries[f] + 1 < MaxAttempts
          /\ tries' = [tries EXCEPT ![f] = @ + 1]
          /\ port' = [port EXCEPT ![f] = None]
          /\ pc' = [pc EXCEPT ![f] = "al_port"]
          /\ UNCHANGED <<seen, reply>>
       \/ /\ tries[f] + 1 >= MaxAttempts
          /\ Respond(f, "refused")
    /\ UNCHANGED <<allocations, active, channels, relays, cleaners>>

CreateInsert(f) ==
    /\ pc[f] = "al_insert"
    /\ TableUnlocked
    /\ allocations' = [allocations EXCEPT ![port[f]] =
                         [client |-> client[f], gen |-> seen[f],
                          expired |-> FALSE, permissions |-> {}]]
    /\ active' = active + 1
    /\ Respond(f, "granted")
    /\ UNCHANGED <<portBits, channels, relays, cleaners>>
-----------------------------------------------------------------------------
(* handle_refresh                                                          *)

RefreshFind(f) == FindOr(f, "rf_set", "mismatch")
RefreshZeroFind(f) == FindOr(f, "rf_remove", "mismatch")

RefreshRemove(f) == RemoveEntry(f, "rf_remove", "rf_unbind")

RefreshRemoveGone(f) ==
    /\ pc[f] = "rf_remove"
    /\ TableUnlocked
    /\ port[f] \notin Live
    /\ Respond(f, "deleted")
    /\ UNCHANGED <<tables, relays, cleaners>>

RefreshUnbind(f) ==
    /\ pc[f] = "rf_unbind"
    /\ RemoveForRelayed(port[f])
    /\ Respond(f, "deleted")
    /\ UNCHANGED <<allocations, portBits, active, relays, cleaners>>

\* refresh_allocation sets the lifetime of whatever allocation is at the address;
\* whether that has been outlived depends on its age, so either is possible.
RefreshSet(f) ==
    /\ pc[f] = "rf_set"
    /\ TableUnlocked
    /\ \/ /\ port[f] \in Live
          /\ \E e \in BOOLEAN : allocations' = [allocations EXCEPT ![port[f]].expired = e]
          /\ Respond(f, "ok")
       \/ /\ port[f] \notin Live
          /\ Respond(f, "mismatch")
          /\ UNCHANGED allocations
    /\ UNCHANGED <<portBits, active, channels, relays, cleaners>>
-----------------------------------------------------------------------------
(* handle_create_permission, handle_channel_bind                           *)

PermissionFind(f) == FindOr(f, "pm_add", "mismatch")

\* add_permissions scans again and takes the first allocation of the client; a
\* request without a usable peer address is refused.
PermissionAdd(f) ==
    /\ pc[f] = "pm_add"
    /\ \/ Respond(f, "refused") /\ UNCHANGED allocations
       \/ /\ TableUnlocked
          /\ \/ \E p \in OwnedBy(client[f]), peers \in SUBSET Peers \ {{}} :
                  /\ allocations' = [allocations EXCEPT ![p].permissions = @ \cup peers]
                  /\ Respond(f, "ok")
             \/ /\ OwnedBy(client[f]) = {}
                /\ Respond(f, "mismatch")
                /\ UNCHANGED allocations
    /\ UNCHANGED <<portBits, active, channels, relays, cleaners>>

BindFind(f) == FindOr(f, "cb_bind", "none")

\* ChannelTable::bind under channel_table.write(): only the address found earlier is
\* used, the allocation table is not looked at again.  A request that lacks the peer
\* or the channel number is dropped.
ChannelBind(f) ==
    LET p == port[f]
        binding(peer) == [peer |-> peer, gen |-> seen[f],
                          late |-> p \notin Live \/ allocations[p].gen # seen[f]]
        conflict(ch, peer) == channels[p][ch] # None /\ channels[p][ch].peer # peer
    IN
    /\ pc[f] = "cb_bind"
    /\ \/ Respond(f, "none") /\ UNCHANGED channels
       \/ /\ ChannelTableWritable
          /\ \E ch \in Channels, peer \in Peers :
               \/ /\ ~conflict(ch, peer)
                  /\ channels' = [channels EXCEPT ![p][ch] = binding(peer)]
                  /\ Respond(f, "ok")
               \/ /\ conflict(ch, peer)
                  /\ Respond(f, "refused")
                  /\ UNCHANGED channels
    /\ UNCHANGED <<allocations, portBits, active, relays, cleaners>>
-----------------------------------------------------------------------------
(* Data from the client: handle_channel_data and handle_send               *)

\* get_allocation_by_client: the handler keeps the Arc across the await.
ChannelDataFind(f) == FindOr(f, "cd_send", "none")

\* The binding is looked up by the Arc's address and the payload, if any, is sent
\* from the Arc's socket; then the Arc is dropped.
ChannelDataSend(f) ==
    /\ pc[f] = "cd_send"
    /\ Respond(f, "none")
    /\ UNCHANGED <<tables, relays, cleaners>>

SendFind(f) == FindOr(f, "sd_check", "none")

\* send_to_peer under allocations.read(): the peer must be permitted, then a clone of the
\* socket is kept across the await.  An indication without a peer or data, or for a peer that
\* is not permitted, or of a client whose allocation is gone by now, is dropped.
SendCheck(f) ==
    /\ pc[f] = "sd_check"
    /\ \/ /\ TableUnlocked
          /\ \E p \in OwnedBy(client[f]) :
               allocations[p].permissions # {} /\ Found(f, p, "sd_send")
       \/ Respond(f, "none")
    /\ UNCHANGED <<tables, relays, cleaners>>

SendDone(f) ==
    /\ pc[f] = "sd_send"
    /\ Respond(f, "none")
    /\ UNCHANGED <<tables, relays, cleaners>>
-----------------------------------------------------------------------------
(* cleanup_expired and ChannelTable::cleanup_expired                       *)

\* The task's timer fires and it takes the read guard of the channel table.  Of the
\* rounds that find nothing to remove only those that lost it meanwhile are modelled.
CleanGuard(c) ==
    /\ cpc[c] = "idle"
    /\ \E p \in Live : allocations[p].expired
    /\ cpc' = [cpc EXCEPT ![c] = "guard"]
    /\ UNCHANGED <<tables, relays, flows, cport, todo, count>>

\* Mutant: an allocation with permissions is taken for one in use.
CleanOnlyUnused(c) ==
    /\ cpc[c] = "guard"
    /\ TableUnlocked
    /\ todo' = [todo EXCEPT ![c] = {p \in Live : allocations[p].expired /\ allocations[p].permissions = {}}]
    /\ cpc' = [cpc EXCEPT ![c] = "next"]
    /\ UNCHANGED <<tables, relays, flows, cport, count>>

CleanBegin(c) ==
    /\ cpc[c] = "guard"
    /\ TableUnlocked
    /\ todo' = [todo EXCEPT ![c] = {p \in Live : allocations[p].expired}]
    /\ cpc' = [cpc EXCEPT ![c] = "next"]
    /\ UNCHANGED <<tables, relays, flows, cport, count>>

CleanRemove(c) ==
    /\ cpc[c] = "next"
    /\ \E p \in todo[c] :
         /\ TakeOut(p)
         /\ todo' = [todo EXCEPT ![c] = @ \ {p}]
         /\ cport' = [cport EXCEPT ![c] = p]
    /\ cpc' = [cpc EXCEPT ![c] = "unbind"]
    /\ UNCHANGED <<active, channels, socket, senders, flows, count>>

CleanUnbind(c) ==
    /\ cpc[c] = "unbind"
    /\ RemoveForRelayed(cport[c])
    /\ cpc' = [cpc EXCEPT ![c] = "next"]
    /\ cport' = [cport EXCEPT ![c] = None]
    /\ count' = [count EXCEPT ![c] = @ + 1]
    /\ UNCHANGED <<allocations, portBits, active, relays, flows, todo>>

\* Mutant: the entries removed are not subtracted.
CleanUncounted(c) ==
    /\ cpc[c] = "next"
    /\ todo[c] = {}
    /\ count' = [count EXCEPT ![c] = 0]
    /\ cpc' = [cpc EXCEPT ![c] = "idle"]
    /\ UNCHANGED <<tables, relays, flows, cport, todo>>

CleanEnd(c) ==
    /\ cpc[c] = "next"
    /\ todo[c] = {}
    /\ active' = active - count[c]
    /\ count' = [count EXCEPT ![c] = 0]
    /\ cpc' = [cpc EXCEPT ![c] = "idle"]
    /\ UNCHANGED <<allocations, portBits, channels, relays, flows, cport, todo>>

\* The channel cleanup task drops a binding that was not refreshed for 600 s.
ChannelExpire(p, ch) ==
    /\ channels[p][ch] # None
    /\ channels' = [channels EXCEPT ![p][ch] = None]
    /\ UNCHANGED <<allocations, portBits, active, relays, flows, cleaners>>

\* Time passes beyond the lifetime of an allocation.
Expire(p) ==
    /\ p \in Live
    /\ ~allocations[p].expired
    /\ allocations' = [allocations EXCEPT ![p].expired = TRUE]
    /\ UNCHANGED <<portBits, active, channels, relays, flows, cleaners>>
-----------------------------------------------------------------------------
(* The relay task, the socket's life and the default sender                *)

\* run_udp sets the listener's socket as main_socket and as default_sender.
SetMainSocket ==
    /\ ~mainSocket
    /\ mainSocket' = TRUE
    /\ defaultSender' = None
    /\ UNCHANGED <<tables, socket, task, flows, cleaners>>

\* The task ends: an abort takes effect, or recv_from fails.
TaskEnd(p) ==
    /\ task[p] # "gone"
    /\ task' = [task EXCEPT ![p] = "gone"]
    /\ UNCHANGED <<tables, socket, senders, flows, cleaners>>

\* Handlers and cleanup tasks that own an Arc of the port's allocation or socket.
HeldByHandler(p) ==
    \/ \E f \in Flows : pc[f] \in Removing \cup {"al_insert", "cd_send", "sd_send"} /\ port[f] = p
    \/ \E c \in Cleaners : cpc[c] = "unbind" /\ cport[c] = p

\* Mutant: the socket is closed with the relay task, whoever still holds it.
SocketCloseWithTask(p) ==
    /\ socket[p].open
    /\ task[p] = "gone"
    /\ p \notin Live
    /\ socket' = [socket EXCEPT ![p].open = FALSE]
    /\ UNCHANGED <<tables, task, senders, flows, cleaners>>

\* The last reference to the socket is dropped, which closes it.  A relay task that sends
\* through the default sender keeps it for the length of that send only.
SocketClose(p) ==
    /\ socket[p].open
    /\ task[p] = "gone"
    /\ p \notin Live
    /\ ~HeldByHandler(p)
    /\ defaultSender # p
    /\ socket' = [socket EXCEPT ![p].open = FALSE]
    /\ UNCHANGED <<tables, task, senders, flows, cleaners>>
-----------------------------------------------------------------------------
\* The rest of a handler serves the client its request came from.
Handler(f) ==
    /\ \/ AllocateRemove(f) \/ AllocateRemoveGone(f) \/ AllocateUnbind(f)
       \/ CreateQuota(f) \/ CreatePort(f) \/ CreateBind(f) \/ CreateBindFails(f) \/ CreateInsert(f)
       \/ RefreshRemove(f) \/ RefreshRemoveGone(f) \/ RefreshUnbind(f) \/ RefreshSet(f)
       \/ PermissionAdd(f) \/ ChannelBind(f) \/ ChannelDataSend(f) \/ SendCheck(f) \/ SendDone(f)
    /\ UNCHANGED client

Request(f) ==
    \/ AllocateFind(f) \/ RefreshFind(f) \/ RefreshZeroFind(f)
    \/ PermissionFind(f) \/ BindFind(f) \/ ChannelDataFind(f) \/ SendFind(f)

Cleaner(c) == CleanGuard(c) \/ CleanBegin(c) \/ CleanRemove(c) \/ CleanUnbind(c) \/ CleanEnd(c)

Next ==
    \/ \E f \in Flows : Handler(f) \/ Request(f)
    \/ \E c \in Cleaners : Cleaner(c)
    \/ \E p \in Ports, ch \in Channels : ChannelExpire(p, ch)
    \/ \E p \in Ports : Expire(p) \/ TaskEnd(p) \/ SocketClose(p)
    \/ SetMainSocket

Spec == Init /\ [][Next]_vars

\* tokio runs every ready task, and the locks (parking_lot, tokio) are granted in
\* turn, so a step that waits for a lock that is free again and again is taken.  An
\* aborted task is dropped at its next poll.  Nothing obliges a client to send, a
\* clock to run out or a socket to fail.
Fairness ==
    /\ \A f \in Flows : SF_vars(Handler(f))
    /\ \A c \in Cleaners : SF_vars(Cleaner(c))
    /\ \A p \in Ports : WF_vars(task[p] = "aborted" /\ TaskEnd(p)) /\ WF_vars(SocketClose(p))

FairSpec == Spec /\ Fairness
-----------------------------------------------------------------------------
(* Properties                                                              *)

HoldsBit(f) == pc[f] \in {"al_bind", "al_insert"}

\* A port bit is set exactly while one allocation of the table or one handler inside
\* create_allocation owns the port: no error path of create_allocation and no removal
\* leaks a relay port, and none frees the port of another owner.
PortBitHasOneOwner ==
    /\ \A p \in Ports : p \in portBits <=> p \in Live \/ \E f \in Flows : HoldsBit(f) /\ port[f] = p
    /\ \A f \in Flows : HoldsBit(f) => port[f] \notin Live
    /\ \A f, g \in Flows : f # g /\ HoldsBit(f) /\ HoldsBit(g) => port[f] # port[g]

\* Every allocation of the table owns the open socket of its relay port, and whoever
\* kept an Arc of an allocation (ChannelData and Send handlers across their await, a
\* removal until its bindings are gone) still finds that socket on the port, never the
\* socket of a later allocation on the same port; nor is the default sender ever closed.
ArcKeepsSocket ==
    /\ \A p \in Live : socket[p].open /\ socket[p].gen = allocations[p].gen
    /\ \A f \in Flows : pc[f] \in Removing \cup {"al_insert", "cd_send", "sd_send"} =>
                          socket[port[f]].open
    /\ \A f \in Flows : pc[f] \in {"al_insert", "cd_send", "sd_send"} =>
                          socket[port[f]].gen = seen[f]
    /\ defaultSender # None => socket[defaultSender].open

\* active_allocations, which the quota is checked against, is the size of the table
\* whenever the table's lock is free, and inside cleanup_expired it is ahead by
\* exactly the entries already removed: the two separate updates never drift apart,
\* and the unsigned counter never goes below zero.
ActiveIsTableSize ==
    LET ahead(c) == count[c] + (IF cpc[c] = "unbind" THEN 1 ELSE 0) IN
    /\ (\A c \in Cleaners : ~Cleaning(c)) => active = Cardinality(Live)
    /\ \A c \in Cleaners : Cleaning(c) => active = Cardinality(Live) + ahead(c)

\* The quota check of create_allocation and the increment of the counter are separate
\* steps, so the limit can be exceeded, but by no more than the handlers that passed
\* the check together: one for each worker or connection but the first, however many
\* clients they serve.
QuotaOvershootBounded ==
    active + Cardinality({f \in Flows : pc[f] \in {"al_port", "al_bind", "al_insert"}})
        <= MaxAllocations - 1 + Cardinality(Flows)

\* Removing an allocation removes the channel bindings made while it was in the table
\* before another allocation can open the port: a binding of an earlier allocation on
\* an open socket's port can only be one inserted after that allocation was removed.
BindingsDieWithAllocation ==
    \A p \in Ports, ch \in Channels :
        /\ channels[p][ch] # None
        /\ socket[p].open
        /\ channels[p][ch].gen # socket[p].gen
        => channels[p][ch].late

OneFlowPerClient == \A f, g \in Flows : f # g => ClientsOf[f] \cap ClientsOf[g] = {}

\* When no two flows share a client address, a client never has two allocations,
\* although handle_allocate looks up, removes and inserts in separate steps.
OneAllocationPerClient ==
    OneFlowPerClient => \A c \in Clients : \A p, q \in OwnedBy(c) : p = q

\* When no two flows share a client address, a client told that its allocation is
\* deleted (Refresh with lifetime 0) or does not exist (437) has no allocation until
\* its flow takes up another request, whatever the other flows and the cleanup do.
NoAllocationAfterDeleted ==
    OneFlowPerClient =>
        \A f \in Flows : reply[f] \in {"deleted", "mismatch"} => OwnedBy(client[f]) = {}

\* A relay port passes from one client to another only through being unallocated: no
\* step of any handler replaces an allocation by another in one go.
NoTakeover ==
    [][\A p \in Ports : allocations[p] # None /\ allocations'[p] # None =>
          /\ allocations'[p].client = allocations[p].client
          /\ allocations'[p].gen = allocations[p].gen]_allocations

\* Every request handler finishes: no handler waits for ever on a lock, and the bind
\* retries of create_allocation end.
HandlersFinish == \A f \in Flows : pc[f] # "idle" ~> pc[f] = "idle"

\* An allocation that has outlived its lifetime is removed by the cleanup task, unless
\* it leaves the table or a Refresh prolongs it first.
ExpiredGetsRemoved ==
    \A p \in Ports : (p \in Live /\ allocations[p].expired) ~>
                     (p \notin Live \/ ~allocations[p].expired)

\* After an allocation left the table its relay socket is closed (or reopened by a new
\* allocation), so that its port can be bound again, unless the registry keeps it as the
\* default sender: without a UDP listener that lasts until the next allocation is made.
RemovedSocketCloses ==
    \A p \in Ports : (p \notin Live /\ socket[p].open) ~>
                     (p \in Live \/ ~socket[p].open \/ defaultSender = p)

\* "Remove any existing allocation for this client before creating a new one": what an
\* Allocate removes is an allocation of its own client.
AllocateRemovesOwn ==
    [][\A f \in Flows : pc[f] = "al_remove" /\ pc'[f] = "al_unbind" =>
          allocations[port[f]].client = client[f]]_vars
=============================================================================
