--------------------------- MODULE ClientTransport ---------------------------
(***************************************************************************)
(* How packets reach one client address over TCP and TLS: the registry of  *)
(* client senders, the connection tasks that answer requests, and the      *)
(* relay tasks of the client's allocations, which write peer data to the   *)
(* same streams.  A stream's writer is behind an async mutex; a frame is   *)
(* written in pieces (write_all, then the padding), and a task waits       *)
(* between the pieces, where a relay task may be aborted.  A relay task    *)
(* keeps the registry's read guard until its packet is sent, so that       *)
(* connections wait for it to register and to unregister.                  *)
(***************************************************************************)
EXTENDS Naturals, Sequences, Absent

CONSTANTS Conns,      \* connections from the client's address (an id is used again)
          Relays,     \* relay tasks of the client's allocations (likewise)
          MaxFrames   \* bound on the frames written to a connection

Writers == Conns \cup Relays

ASSUME TransportAssumption == None \notin Writers /\ Conns \cap Relays = {} /\ MaxFrames \in Nat

VARIABLES
    sender,   \* client_senders[client_addr]
    ahead,    \* the connections that queue for the registry in front of the relay task
    task,     \* where each task stands
    dest,     \* the connection whose writer the task uses
    holder,   \* the task that holds the connection's writer mutex
    dead,     \* writes to the connection fail
    stream    \* ghost: the pieces written to it, with their writers; "cut" marks a frame left unfinished

transportVars == <<sender, ahead, task, dest, holder, dead, stream>>

Pieces == {"data", "rest", "cut"}

\* A task in one of these states waits for a stream's writer or has it.
Writing == {"lock", "data", "rest"}

\* A connection in one of these states waits for client_senders.write().
Queueing == {"registering", "closing"}

Tasks == {"off", "reading", "lookup"} \cup Writing \cup Queueing

TransportTypeOK ==
    /\ sender \in Conns \cup {None}
    /\ ahead \in [Relays -> SUBSET Conns]
    /\ task \in [Writers -> Tasks]
    /\ dest \in [Writers -> Conns \cup {None}]
    /\ holder \in [Conns -> Writers \cup {None}]
    /\ dead \in [Conns -> BOOLEAN]
    /\ stream \in [Conns -> Seq(Writers \X Pieces)]
    /\ \A w \in Writers : task[w] \in Writing => dest[w] # None

TransportInit ==
    /\ sender = None
    /\ ahead = [r \in Relays |-> {}]
    /\ task = [w \in Writers |-> "off"]
    /\ dest = [w \in Writers |-> None]
    /\ holder = [c \in Conns |-> None]
    /\ dead = [c \in Conns |-> FALSE]
    /\ stream = [c \in Conns |-> <<>>]
-----------------------------------------------------------------------------
(* The registry's lock                                                     *)

\* Mutant: a relay task keeps the guard as long as it runs.
GuardForLife == \A r \in Relays : task[r] = "off"

\* client_senders.write() is granted while no relay task holds the read guard.
RegistryWritable == \A r \in Relays : task[r] \notin Writing

\* A connection gets the lock, sets the entry of the address and lets those behind it on.
SetSender(c, entry) ==
    /\ RegistryWritable
    /\ sender' = entry
    /\ ahead' = [r \in Relays |-> ahead[r] \ {c}]
-----------------------------------------------------------------------------
(* Connection tasks                                                        *)

\* A connection whose handshake succeeds; the task goes to register a sender.
Accept(c) ==
    /\ task[c] = "off"
    /\ task' = [task EXCEPT ![c] = "registering"]
    /\ dead' = [dead EXCEPT ![c] = FALSE]
    /\ stream' = [stream EXCEPT ![c] = <<>>]
    /\ UNCHANGED <<sender, ahead, dest, holder>>

\* The sender takes the place of an earlier connection's.
Register(c) ==
    /\ task[c] = "registering"
    /\ SetSender(c, c)
    /\ task' = [task EXCEPT ![c] = "reading"]
    /\ UNCHANGED <<dest, holder, dead, stream>>

\* Fewer than MaxFrames frames have been begun.
MayWrite(c) == Len(stream[c]) < 2 * MaxFrames

\* A whole request has arrived and its handler returns a response.
Request(c) ==
    /\ task[c] = "reading"
    /\ MayWrite(c)
    /\ task' = [task EXCEPT ![c] = "lock"]
    /\ dest' = [dest EXCEPT ![c] = c]
    /\ UNCHANGED <<sender, ahead, holder, dead, stream>>

\* End of file, a read error, or the buffer limit.
Close(c) ==
    /\ task[c] = "reading"
    /\ task' = [task EXCEPT ![c] = "closing"]
    /\ UNCHANGED <<sender, ahead, dest, holder, dead, stream>>

\* The entry of the address goes, whichever connection it names.
Unregister(c) ==
    /\ task[c] = "closing"
    /\ SetSender(c, None)
    /\ task' = [task EXCEPT ![c] = "off"]
    /\ UNCHANGED <<dest, holder, dead, stream>>
-----------------------------------------------------------------------------
(* Relay tasks                                                             *)

Spawn(r) ==
    /\ task[r] = "off"
    /\ task' = [task EXCEPT ![r] = "reading"]
    /\ UNCHANGED <<sender, ahead, dest, holder, dead, stream>>

\* A peer's packet arrives and the task queues for the registry's read guard.
PeerPacket(r) ==
    /\ task[r] = "reading"
    /\ task' = [task EXCEPT ![r] = "lookup"]
    /\ ahead' = [ahead EXCEPT ![r] = {c \in Conns : task[c] \in Queueing}]
    /\ UNCHANGED <<sender, dest, holder, dead, stream>>

\* The guard is granted in the order of arrival.  It is kept while the packet is sent to
\* the sender found; without one it is dropped and the packet goes out as a datagram.
LookUp(r) ==
    /\ task[r] = "lookup"
    /\ ahead[r] = {}
    /\ \/ /\ sender # None
          /\ MayWrite(sender)
          /\ task' = [task EXCEPT ![r] = "lock"]
          /\ dest' = [dest EXCEPT ![r] = sender]
       \/ /\ sender = None
          /\ task' = [task EXCEPT ![r] = "reading"]
          /\ UNCHANGED dest
    /\ UNCHANGED <<sender, ahead, holder, dead, stream>>

\* Mutant: the writer stays locked.
AbortKeepsLock(r) ==
    /\ task[r] # "off"
    /\ task' = [task EXCEPT ![r] = "off"]
    /\ dest' = [dest EXCEPT ![r] = None]
    /\ stream' = IF task[r] = "rest" THEN [stream EXCEPT ![dest[r]] = Append(@, <<r, "cut">>)]
                                   ELSE stream
    /\ ahead' = [ahead EXCEPT ![r] = {}]
    /\ UNCHANGED <<sender, holder, dead>>

\* The allocation is removed and its task aborted; dropping the task's state unlocks the writer
\* and the registry.
Abort(r) ==
    /\ task[r] # "off"
    /\ task' = [task EXCEPT ![r] = "off"]
    /\ dest' = [dest EXCEPT ![r] = None]
    /\ holder' = [c \in Conns |-> IF holder[c] = r THEN None ELSE holder[c]]
    /\ stream' = IF task[r] = "rest" THEN [stream EXCEPT ![dest[r]] = Append(@, <<r, "cut">>)]
                                   ELSE stream
    /\ ahead' = [ahead EXCEPT ![r] = {}]
    /\ UNCHANGED <<sender, dead>>
-----------------------------------------------------------------------------
(* write_locked_stream_frame                                               *)

\* Mutant: the frame is written without the mutex.
LockShared(w) ==
    /\ task[w] = "lock"
    /\ holder' = [holder EXCEPT ![dest[w]] = w]
    /\ task' = [task EXCEPT ![w] = "data"]
    /\ UNCHANGED <<sender, ahead, dest, dead, stream>>

Lock(w) ==
    /\ task[w] = "lock"
    /\ holder[dest[w]] = None
    /\ holder' = [holder EXCEPT ![dest[w]] = w]
    /\ task' = [task EXCEPT ![w] = "data"]
    /\ UNCHANGED <<sender, ahead, dest, dead, stream>>

WriteData(w) ==
    /\ task[w] = "data"
    /\ ~dead[dest[w]]
    /\ stream' = [stream EXCEPT ![dest[w]] = Append(@, <<w, "data">>)]
    /\ task' = [task EXCEPT ![w] = "rest"]
    /\ UNCHANGED <<sender, ahead, dest, holder, dead>>

\* The task is done with the writer and goes on as next.
Release(w, next) ==
    /\ task' = [task EXCEPT ![w] = next]
    /\ dest' = [dest EXCEPT ![w] = None]
    /\ holder' = [holder EXCEPT ![dest[w]] = None]
    /\ UNCHANGED <<sender, ahead>>

WriteRest(w) ==
    /\ task[w] = "rest"
    /\ ~dead[dest[w]]
    /\ stream' = [stream EXCEPT ![dest[w]] = Append(@, <<w, "rest">>)]
    /\ Release(w, "reading")
    /\ UNCHANGED dead

\* Mutant: the failed write is tried again.
WriteRetries(w) ==
    /\ task[w] \in {"data", "rest"}
    /\ dead' = [dead EXCEPT ![dest[w]] = TRUE]
    /\ task' = [task EXCEPT ![w] = "data"]
    /\ UNCHANGED <<sender, ahead, dest, holder, stream>>

\* A write fails: a connection task ends, a relay task logs it and goes on.
WriteFails(w) ==
    /\ task[w] \in {"data", "rest"}
    /\ dead' = [dead EXCEPT ![dest[w]] = TRUE]
    /\ stream' = IF task[w] = "rest" THEN [stream EXCEPT ![dest[w]] = Append(@, <<w, "cut">>)]
                                   ELSE stream
    /\ Release(w, IF w \in Conns THEN "closing" ELSE "reading")
-----------------------------------------------------------------------------
Write(w) == Lock(w) \/ WriteData(w) \/ WriteRest(w) \/ WriteFails(w)

TransportNext ==
    \/ \E c \in Conns : Accept(c) \/ Register(c) \/ Request(c) \/ Close(c) \/ Unregister(c)
    \/ \E r \in Relays : Spawn(r) \/ PeerPacket(r) \/ LookUp(r) \/ Abort(r)
    \/ \E w \in Writers : Write(w)

TransportSpec == TransportInit /\ [][TransportNext]_transportVars

\* Tasks that can run do, tokio's locks are handed over in the order of the waiters, and the
\* client reads its stream or closes it.
TransportFairness ==
    /\ \A w \in Writers : SF_transportVars(Lock(w)) /\ WF_transportVars(WriteData(w) \/ WriteRest(w) \/ WriteFails(w))
    /\ \A c \in Conns : SF_transportVars(Register(c)) /\ SF_transportVars(Unregister(c))

TransportFairSpec == TransportSpec /\ TransportFairness
-----------------------------------------------------------------------------
(* Properties                                                              *)

\* A frame's pieces are adjacent: once a frame is begun, the next piece on the stream ends
\* or cuts that same frame, whoever else answers or relays meanwhile.
FramesExclusive ==
    \A c \in Conns : \A i \in 2..Len(stream[c]) :
        LET piece == stream[c][i]
            last == stream[c][i - 1]
        IN IF last[2] = "data" THEN piece[1] = last[1] /\ piece[2] # "data"
                               ELSE piece[2] = "data"

\* The writer is locked exactly while a task is writing to it: an abort or an error in the
\* middle of a frame never leaves the mutex held.
LockedOnlyWhileWriting ==
    \A c \in Conns, w \in Writers : holder[c] = w <=> dest[w] = c /\ task[w] \in {"data", "rest"}

\* A relay task writes only to the connection that is registered, and never to one that has
\* ended: the registry's guard, kept across the send, lets nobody replace or remove it meanwhile.
SendsToRegistered ==
    /\ sender # None => task[sender] \notin {"off", "registering"}
    /\ \A r \in Relays : task[r] \in Writing => dest[r] = sender

\* A response that waits for the writer is written, or its connection ends: relay tasks
\* that share the stream cannot hold a connection up for ever.
ResponsesWritten == \A c \in Conns : task[c] = "lock" ~> task[c] \in {"reading", "closing"}

\* A new connection comes to be registered and an ended one to be taken out, although relay
\* tasks hold the registry while they wait for, and write to, a connection's stream.
RegistrationsFinish ==
    /\ \A c \in Conns : task[c] = "registering" ~> task[c] = "reading"
    /\ \A c \in Conns : task[c] = "closing" ~> task[c] = "off"
=============================================================================
