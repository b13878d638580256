# Verification of miuturn

TLA+ models of the miuturn TURN server, checked with TLC on small instances and, for the
main safety properties, proved with TLAPS for every value of the constants.

## The system

miuturn is a STUN/TURN server on the tokio multi-threaded runtime. A client sends an Allocate
request and gets a *relay port*; what it sends goes to its peers from that port, and what
peers send to the port goes to the client.

| Part | State | Operations | Source |
|---|---|---|---|
| Allocation table | allocations by relayed address, number of active ones | create, remove, refresh, find by client, add permissions, cleanup | `allocation.rs` |
| Port allocator | bitmap of relay ports in atomics, a counter | allocate, release | `allocation.rs` |
| Relay sockets and tasks | one socket and one task per allocation | receive from peers, abort | `allocation.rs` |
| Channel table | bindings (relayed address, channel) to peer | bind, lookup, remove for an address, cleanup | `allocation.rs` |
| Request handlers | locals across awaits | Allocate, Refresh, CreatePermission, ChannelBind, Send, ChannelData | `server.rs` |
| Periodic tasks | interval timers | cleanup of allocations (30 s), channels (60 s), nonces (30 s) | `server.rs` |
| Client transports | registry of senders by client address, stream writers behind a mutex | register, unregister, send | `allocation.rs`, `server.rs` |
| UDP dispatch | bounded queue per worker | hash by client, try_send | `server.rs` |
| Authentication | nonces, users, ACL | 401 with nonce, verify, cleanup | `server.rs`, `auth.rs` |
| Bandwidth | token buckets | try_consume, register, unregister | `bandwidth.rs` |
| Admin interface | users, ACL, configuration file | add, update, delete, save | `health.rs`, `config.rs`, `main.rs` |
| Certificates | cached files, ACME account and challenges, dynamic resolver, watcher | load, order, fetch, watch, acknowledge | `tls.rs`, `sds.rs`, `main.rs` |
| Wire format | bytes | encode, parse, cut a stream into frames | `message.rs`, `server.rs`, `allocation.rs` |

What makes it hard: handlers look an address up in one critical section and use it in a later
one; a relay port, a socket, a task and the bindings belong together but are released one after
the other; the task is aborted at whatever await it stands; the port bitmap and its counter are
separate atomics; the cleanup runs beside everything; several requests rewrite one file; nonce,
user and rules are read in separate critical sections while they change; certificate and key are
two files that two tasks write; a token bucket is two cells that are not updated together.

What correctness means here: no relay port is leaked or has two owners; nobody uses the socket
of another allocation; bindings end with their allocation; counters agree with what they count;
expired state goes; frames on a stream stay whole and apart, and mean to the reader what the
writer meant; a change made in the console is in the file; datagrams of a client are handled in
order and known users are served; listeners present what was acknowledged, and never something
older; rates are kept.

## Modules

| Module | Models | Proofs |
|---|---|---|
| `TurnRelay` | allocation table, handlers, relay sockets and tasks, channel table, cleanup | `TurnRelayProofs`, `TurnRelayClientProofs`, `TurnRelayTableProofs` |
| `PortPool` | abstract specification: allocate and release as single steps on a set of ports | |
| `PortAllocator` | the bitmap, one step per atomic access | `PortAllocatorProofs` |
| `AllocationLifetime` | lifetimes, reported grants, cleanup ticks, on a clock | `AdminConfigProofs` |
| `ClientTransport` | senders, stream writers, relay tasks of one client address | `TrafficProofs` |
| `AclRules` | operators: what `add_acl_rule`, `remove_acl_rule` and `check_acl` make of a list of rules | `AdminConfigProofs` |
| `AdminConfig` | users, rules and the configuration file, with restarts | `AdminConfigProofs` |
| `Certificates` | certificate sources, cache, watcher, ACME order, with restarts | `CertificatesProofs` |
| `TurnRequests` | UDP dispatch, ACL, nonces, users, signing | `TurnRequestsProofs` |
| `BandwidthLimiter` | token bucket and manager, one step per access | `TrafficProofs` |
| `WireFormat` | message codec and stream framing, in bytes | |

The modules share no variables, but they rest on each other: `TurnRelay` takes from `TurnRequests`
that a client address over UDP is one flow in order and that its requests are authenticated, from
`PortAllocator` that a port is taken in one step, from `AllocationLifetime` when things expire;
`ClientTransport` writes the frames `WireFormat` is about; `TurnRequests` reads the users and rules
`AdminConfig` saves, and both use the lists of `AclRules`. `Absent` declares the value `None` that
components share. `MC*` modules instantiate them for TLC. `PROJECT.json` gives for each definition
the lines of source it stands for.

### TurnRelay

A *flow* serves requests one after the other: a UDP worker with the client addresses that hash
to it, or one connection. Two flows may share a client address, since the tables are keyed by
the address whatever the transport. A step is one critical section or one await; `pc` says where
a handler stands, `port` and `seen` are the relayed address and the allocation in its locals.
`TableUnlocked` stands for the lock of the allocation table, held by `remove_allocation` until
the bindings are gone and by `cleanup_expired` throughout. A socket is open or closed and has a
number (`gen`), so that two allocations on one port can be told apart; it closes when table,
task, handlers and the registry have dropped it: as long as no UDP listener has set `main_socket`
(`SetMainSocket`), the newest relay socket is also the registry's `default_sender`, and stays open
after its allocation is gone until another takes that place. `RemovedSocketCloses` excepts it.
`CleanGuard` is the read lock on the channel table that the cleanup keeps while it runs. An allocation is expired or not, time itself is in
`AllocationLifetime`. Requests are authenticated and well formed. `CreatePort` takes the port in
one step, which `PortAllocator` justifies; it may also refuse while ports are free, because the
scan misses ports released behind it.

### PortAllocator and PortPool

One step is one access to a shared atomic. `compare_exchange_weak` may fail spuriously. Loads
read the latest value: coherence gives this for one atomic, and the lag a weak memory order
allows between the bitmap and the counter is not modelled. Callers release only ports they
own, as `AllocationTable` does. The ghosts `owners` and `free` record who holds a port and which
ports were free throughout a call. `PortPool` states what callers rely on, linearizability: between
its call and its return a call takes effect in one step, on its own port and no other, and allocate
refuses only if no port was free throughout. The mapping takes a call's step of effect to be its
successful swap.

### AllocationLifetime

A clock in seconds; requests are atomic here. A cleanup runs in the second of its tick: time
does not pass while one is due. `told` is a ghost: until when the last response promises the
allocation.

### ClientTransport

One client address with several connections and relay tasks. A frame is two pieces, because
`write_stream_frame` awaits between data and padding, and a `write_all` may itself stop half way.
`Abort` drops a relay task at any await, and its mutex guard with it. `send_to_client` keeps the read
guard of the registry until the send is over, so that connections wait with `Register` and
`Unregister` (`RegistryWritable`); a client that does not read delays the registration of every
other. The lock is granted in the
order of arrival: `ahead` has the connections that queue in front of a relay task's look-up. DTLS is
left out.

### AdminConfig

Each handler is cut into its critical sections and file operations: change, list users, list
rules, read the file back, truncate, write. `Stop` ends the process anywhere; `Start` reads the
file and adds its rules one by one, which sorts them (`SortOf`). The first file is the operator's,
with the rules in any order. A write into a file another request has written since the truncation may leave the rest of
a longer content behind, which makes the file unreadable; that such a rest could happen to be
valid TOML is left out.

### Certificates

A chain and its key are a number, the order of issue; a file holds a number, nothing, or damage.
`pc` follows `main` through the load for TLS and then for DTLS (`job`), `wpc` the watcher task.
Writing a file is two steps, truncation and content, and `Stop` ends the process between any two.
`due` are the certificates inside `renew_before_days`. `cached_certificate_is_usable` looks at the
chain only, as in the code; whether chain and key fit is found out by rustls for TLS (external) and
by nobody for DTLS. The control plane sends its secret, or a response without it, one response at a
time, and the whole again on a new stream. State-of-the-world and delta streams have the same
steps. The ghost `cut` remembers a write left unfinished, `overlapped` that the second load and the
watcher used the files at once, `promised` the newest secret acknowledged.

Three things the code does and the properties except or follow: a fetched secret that cannot be
parsed fails the load although a good cache exists (`FetchUnparsable`); an account or chain file
that a crash left half-written makes every later ACME start fail until it is removed (`CacheError`,
`AcmeFails`); with a DTLS listener only, an RSA secret or a failed load starts no watcher.

### TurnRequests

The listener gives a datagram to the worker its sender hashes to or drops it; a worker goes through
ACL, nonce, password, handler and signature, one critical section per step, while administrators
change users and rules (an update removes and adds in two steps), and nonces and users age. Clients
are conforming ones: Binding, Send, or a request signed with their password, with a nonce they were
given, however old, or none. A rule is the set of clients it matches. What a handler does is
`TurnRelay`'s matter; here it succeeds or answers with an error. Nonces are random in the code and
never repeat here. The cleanup is never late by more than the granularity of the clock. The ghost
`steady` says of each request under way that no change has touched its client since it was taken:
neither the client's user nor what the rules decide for it; a change that concerns others only
leaves it set.

### BandwidthLimiter

One step is one access to the clock, `last_update` or `tokens`; the swap may fail spuriously. Words
saturate at `MaxWord`. A caller keeps the map's read lock while it uses the bucket of an address,
so `RegisterAllocation` and `UnregisterAllocation` wait (`TrackersUnlocked`). `ideal` is the bucket without rounding,
`spent` and `admitted` count what passed, `crowded` names the buckets on which two calls met.
The server registers and unregisters allocations (`allocation.rs` 733, 771, 1045) and calls
`try_relay` nowhere: the module shows what the manager offers.

### WireFormat

The encoders and parsers as operators on sequences of bytes, both header formats included, and a
small machine around them: a writer puts frames on a stream or sends datagrams, the reader gets any
number of bytes at a time and runs the loop over `extract_stream_frame`. Items are what
conforming peers and the server itself send, with payloads of every length modulo 4. Of an IPv6
address the code writes the family and the port only, and a Binding response to one is four bytes
shorter than its header says ("simplified, full impl needs more bytes", `message.rs` 259):
`Short` names this frame and both properties end where it occurs; the mapped address of an
Allocate response to an IPv6 client cannot be read either, and `DecodedIsSent` asks for the other
attributes of that response only.

## Runs

| Run | Question | Instance |
|---|---|---|
| `RelayTwoWorkers` | consistency of ports, counter and table, excess of the quota, one allocation per client | 2 workers with 2 clients each, 2 ports, 2 sockets per port, limit 2 |
| `RelayTwoTransports` | one client address on two flows: ports, sockets, bindings; handlers finish, expired allocations go, sockets close | 1 port, 2 peers, 1 channel, UDP listener at any time, fair |
| `RelayReusedAddress` | see below | 2 workers with a client each, 1 port |
| `PortAllocatorCalls` | ownership, counter, meaning of `None`, linearizability (`PortPool`), lock freedom | 2 threads, 3 ports in words of 2 bits, fair |
| `LifetimeExpiry` | nothing outlives its time | lifetimes 0, 1, 3, 5 with a cap of 4, 12 s |
| `TransportFrames` | frames do not mix, the mutex is never leaked, responses get written, connections get registered and unregistered | 2 connections, 1 relay task, no request or packet after the first complete frame of a connection, fair |
| `AdminFile` | file follows memory, rules in order | 2 handlers, 2 users, 2 rules, any first file |
| `CertificateSources` | pairs, acknowledgements, order, restarts, ACME issue, challenges; TLS follows the control plane | 3 certificates (one unparsable, one RSA), 2 starts, 2 domains, every source and set of listeners, fair |
| `RequestHandling` | order per client, life of nonces, known users, queues drain | 2 clients, 2 workers, queues of 2, 3 datagrams, with or without a global password, 1 change, 3 time units, fair |
| `BandwidthRates` | rounding, excess of overlapping calls, payment before relay | 2 threads, 1 address, rate 2 and 1, 2 ticks a second |
| `WireRoundTrip` | what is sent is what is decoded, at once | 2 items of about 90, any cut of the stream |
| `LifetimeRefresh` | see below | lifetimes as in `LifetimeExpiry` |

Bounds. `MaxGen` is 2 so that a port is used again after a removal, which is all that stale
addresses need. Four clients on two workers are more than the limit of two, so that Allocates are
refused, and pass the check together, while others leave. Words of 2 bits with 3 ports give a second, partly used word and a wrap-around.
Lifetimes lie on both sides of the cap (4) and of the cleanup interval (2), and include 0. Three
certificates give one before, one that cannot be used and one after it; two starts a restart from
what the first left. Three datagrams give a challenge, its use, and one that overtakes or fills the
queue; a nonce lives 1 unit and the cleanup comes every 2, so that it is met before, at and after
its limit and with the cleanup late. Words of at most 3 saturate at a burst of 2 seconds at rate 2.
Two items show that a frame leaves the next one in step. Two flows, threads or
handlers, or a connection and a relay task on one stream, have every race between two; the proofs
cover larger numbers. Symmetry is used on ports, handlers, channels and peers, and only in runs
without liveness.

Fairness. tokio polls every ready task, and parking_lot and tokio locks are granted in turn:
handlers and cleaners get strong fairness, since others may take the lock in between. An aborted
task is dropped at its next poll. A weak compare-and-swap on an unchanged word does not fail for
ever. The client reads its stream or closes it; the registry's lock is granted in turn, too. UDP workers, `main` and the watcher are tasks that
keep running (weak fairness); a control plane that is connected to again and again answers at last
and one of its responses gets through (strong fairness of `Respond` on an open stream and of
`Receive`), and the ACME service validates a challenge it can reach. Nothing obliges clients to
send, sockets to fail or time to run out.

### Where code and documents disagree

`LifetimeRefresh` ends in a counterexample to `GrantHonoured`: a refreshed lifetime runs from the
creation of the allocation, not from the Refresh. `RelayReusedAddress` ends in one to
`AllocateRemovesOwn`: an Allocate finds the address of its client's old allocation, the cleanup
removes that one as expired, another client's Allocate gets the port, and the first one then
removes the allocation of the other client (`server.rs` 1351, under the comment "Remove any existing
allocation for this client before creating a new one", 1347). `PROJECT.json` quotes the text and the
lines of both.

Three further disagreements between the code and its comments or tests show as the exceptions of
properties that hold otherwise:

| Code | Says | Does | Property and its exception |
|---|---|---|---|
| `server.rs` 1663 | "to prevent stale bindings from leaking into a new allocation that reuses the same port." (`allocation.rs` 1384) | a ChannelBind that looked its allocation up before the removal inserts its binding after it, and the port's next allocation inherits it | `BindingsDieWithAllocation`, up to such late bindings |
| `allocation.rs` 763, `server.rs` 172 | `test_write_stream_frame_pads_channel_data` expects frames whole (`server.rs` 2022) | a relay task aborted between data and padding leaves the frame unfinished on a stream in use | `FramesExclusive`, in which a frame may end cut |
| `health.rs` 154, `config.rs` 210 | "Load existing config to preserve server and http settings" (`health.rs` 152) | a request that reads the file while another has it truncated saves default settings | `FileFollowsMemory`, up to overlapping changes |

Three weaker effects are stated by a property with its bound. Allocates that pass the quota check
together exceed the limit (`QuotaOvershootBounded` says by how much). The port counter may exceed
the number of ports between a swap and its count (`CountDrift`). Overlapping calls of
`try_consume` count the same time more than once (`OveradmissionBounded`).

## Proofs

All from the named assumptions of the modules (finite sets, absent values distinct from present
ones, positive bounds). `TrafficProofs` has the proofs of two components side by side and
`AdminConfigProofs` those of `AllocationLifetime` as well, which is why three components prefix the
names of their specifications (`TransportSpec`, `BandwidthSpec`, `LifetimeSpec`).

* **TurnRelay.** Types and locals first; then that the lock is exclusive; on it
  `PortBitHasOneOwner` (all in `TurnRelayProofs`); on that, in `TurnRelayClientProofs`, the socket invariant (an allocation, and each Arc in a handler,
  has the open socket with its number), without which `ArcKeepsSocket` is not inductive; on that
  the bindings (a binding of an older socket on an open port is a late one), and, with one flow
  per client, what a flow knows of its client's allocations. Theorems: `TypeCorrect`,
  `LockIsExclusive`, `PortsHaveOneOwner`,
  `PortsAreNotTakenOver`, `SocketsOutliveTheirUse`, `OnlyLateBindingsSurvive`,
  `AtMostOneAllocation`, `DeletedStaysDeleted`. `TurnRelayTableProofs` adds cardinalities,
  `CounterAgreesWithTable` and `QuotaOvershoot`.
* **PortAllocator.** Ownership of every set bit by one party; the counter's drift; for
  `NoneOnlyIfExhausted` that the words already scanned hold no port that was free throughout. On
  ownership and `NoneMeansExhausted` rests `AllocatorImplementsPool`, action by action: a swap sets or
  clears the bit of its own call and is the call's step in `PortPool`; the scan and the counter are
  stutters.
* **TurnRequests.** One inductive invariant for the four results (`Inv`). Its core is `QueueOK`: every
  datagram waits at the worker its sender hashes to, the queue is ordered by arrival, and what the
  worker has in hand, and what was taken last, is older; without the place of a datagram nothing
  says that two workers do not have datagrams of one client. `PhaseOK` says what a worker has
  established at each step, `NonceOK` that the map holds a nonce with the time it was given out at,
  until the cleanup takes it out after its expiry, and `CleanupOK` that the clock does not run past
  a cleanup that is due. `HandledInOrder`, `NoncesLast` and `NoncesForgotten` follow.
  `KnownUsersServed` adds `Served`, what the steps behind a worker have shown of its client as long
  as nothing concerning it changes: one lemma for the worker's own steps, one for everybody else's.
  What the rules look like plays no part, only what they decide.
* **AllocationLifetime.** A pending tick is at most one interval away, and what is left at a tick
  was granted until then: `GrantsEnd`, `BindingsEnd`.
* **ClientTransport.** The lock is held exactly by the task that writes, so the last piece of a
  stream belongs to its holder: `WriterLockIsNeverLeaked`, `FramesDoNotMix`. `RelaysWriteToRegistered`
  is about the registry's guard: while a relay task sends, nobody replaces or removes its sender.
* **BandwidthLimiter.** `OnlyRoundingIsLost`: as long as no two calls overlap in a bucket,
  `try_consume` hands out no more than a bucket filled continuously would, and loses less than one
  token for each packet. `TracksExactBucket` is not inductive: between its reads and its exchange a
  call holds values of its own. `BucketInv` adds that a call on a bucket without overlap is alone
  there, and that what it has read (the elapsed time as tokens, the tokens before) is still so
  (`AloneOK`). The arithmetic is apart from the steps: `Refill` bounds what the two roundings and the
  two saturations of `tokens_to_add` lose, `Taken` carries the bounds over one packet, the cap of the
  bucket included. TLC has checked `BucketInv` on the instance of `BandwidthRates`.
* **AdminConfig.** Without overlap one handler is busy, and what it has read is what the memory
  holds: `FileKeepsUp`. For `RulesStayOrdered` the invariant covers the list in memory and in the
  hands of the handlers; the file may be in any order, and `SortOrdered` says that a start sorts it.
  That a sorted list is its own sort (`OrderedIsItsSort`) is why a saved file comes back as it was.
* **AclRules.** The proofs need to know where the elements of `Retained` and `WithRule` come from. The
  elements of a finite set of numbers have ranks, and the ranks are exactly the numbers up to its
  cardinality (`Ranks`); so `Retained` lists the kept positions in their order (`RetainedKeepsOrder`)
  and the new rule goes behind exactly those that are not below it (`WithRulePlaces`). This replaces
  an induction over the list. From it: both keep the order, and `RetainedAdmits` and
  `WithRuleAdmits`: a rule that does not match a client makes no difference to what `check_acl`
  decides for that client, since the rules that match it stay the same in the same order
  (`SameDecision`).
* **Certificates.** Where `main` and the watcher stand in a write says what each file holds, which
  makes `PairsAreKept` inductive. What the watcher has in hand and what is on its stream is never
  older than what TLS presents (`TlsNeverGoesBack`); between `Apply` and `Ack` the secret in hand
  is the one TLS presents and, step by step, the one in the files (`AckedSecretIsInUse`); so the
  files never fall behind what was acknowledged, which is what a start reads
  (`AckedSecretSurvivesRestart`). `ReadyChallengesAreAnswered` needs that tokens are stored first.
  For `IssuedWhenDue` the last certificate issued is in both files, or `main` is writing it there,
  and an order is under way only when there is none or it is due (`SavedOK`), as long as no write
  was cut; the step of `provision_letsencrypt` that looks at the cache then finds the last one.

Only model-checked: liveness (`HandlersFinish`, `ExpiredGetsRemoved`, `RemovedSocketCloses`,
`LockFree`, `ResponsesWritten`, `RegistrationsFinish`, `TlsFollowsControlPlane`, `QueuesDrain`), which the proof system
does not reach; in `BandwidthLimiter`, `OveradmissionBounded`, whose argument sums over the threads
that are under way, and `RelayedWasPaid`, which is stated with a sum over them; and everything in
`WireFormat`, which is recursive and bitwise arithmetic. A sum over a set is a recursion over data,
which the proof system cannot unfold for a set that is not given.

Only proved: `TypeOK` (as a theorem for `TurnRelay`, `PortAllocator` and `Certificates`, within the
inductive invariant for `AllocationLifetime`, `ClientTransport`, `BandwidthLimiter` and, without the
rules, for `TurnRequests`), `NoTakeover`,
`SendsToRegistered`, `NoOldNonces`, `RetainedAdmits`, `WithRuleAdmits`. In `AdminConfig` `TypeOK` declares the types of the
state; none of the listed runs checks it.

## Not modelled

* Cryptography: HMAC, the handshakes of TLS and DTLS, X.509. A signature verifies with the password
  it was made with, a certificate parses or does not.
* `oauth.rs` and `short_term.rs`, and `available_tokens`, `reset` and `UserBandwidthTracker` of
  `bandwidth.rs`: nothing in the server calls them.
* The login and the sessions of the console, its read-only pages, TURN REST credentials,
  `reload_handler` (which changes no state), the formatting of logs, HTML, JSON and metrics, and
  statistics that no decision reads. They have no interleaving that a model would add to.
* The matching of addresses against IP ranges: a rule is the set of clients it matches.
* Malformed input: clients and control planes are conforming ones, up to loss, delay and repetition.
* DTLS connections, whose sender writes whole datagrams without a lock.
* The number of ports in 16 bits (`allocation.rs` 246): the allocator is modelled for ranges whose
  size fits.
