----------------------------- MODULE TurnRequests -----------------------------
(***************************************************************************)
(* How a datagram becomes an answer: the UDP listener gives it to the      *)
(* worker its sender's address is hashed to, workers take one datagram     *)
(* after the other, and verify_turn_auth looks at the ACL, the nonce and   *)
(* the password one after the other, each under a lock of its own, while   *)
(* admin handlers change users and rules, nonces are cleaned up, and       *)
(* credentials expire.  The handler then does its work and reads the       *)
(* password again to sign the answer.                                      *)
(*                                                                         *)
(* Clients send what conforming clients send: a Binding request, a Send    *)
(* indication, or a request that is signed with the password they have and *)
(* carries no nonce or one a challenge gave them, again and again and late *)
(* if need be.  What a request does is TurnRelay's matter.                 *)
(***************************************************************************)
EXTENDS AclRules, Absent

CONSTANTS Clients,
          Workers,
          Setups,        \* configurations (stun_enabled, turn_enabled, auth_disabled, the password
                         \* for users that have none of their own, or None), each with the workers
                         \* that the clients' addresses are hashed to
          Capacity,      \* of a worker's queue (1024)
          Password,      \* client -> the password it signs with; it is its username too
          Passwords,
          Accounts,      \* what users may be given: a password and expires_at, which may be Never
          Managed,       \* clients whose users are changed
          Rules,         \* ACL rules: the clients in range, the action, the priority
          FirstRule,     \* the one in the configuration
          NonceExpiry,   \* NONCE_EXPIRY_SECONDS
          CleanupInterval,
          MaxTime, MaxDatagrams, MaxChanges,  \* bounds
          Never         \* expires_at of a user that stays

ASSUME RequestsAssumption ==
    /\ Capacity \in Nat \ {0} /\ NonceExpiry \in Nat /\ CleanupInterval \in Nat \ {0}
    /\ MaxTime \in Nat /\ MaxDatagrams \in Nat /\ MaxChanges \in Nat
    /\ Password \in [Clients -> Passwords]
    /\ Accounts \subseteq [password : Passwords, expires : Nat \cup {Never}]
    /\ Managed \subseteq Clients
    /\ Rules \subseteq [match : SUBSET Clients, allow : BOOLEAN, priority : Nat]
    /\ FirstRule \in Rules
    /\ Setups \subseteq [stun : BOOLEAN, turn : BOOLEAN, auth_disabled : BOOLEAN,
                        password : Passwords \cup {None}, hash : [Clients -> Workers]]
    /\ None \notin Passwords /\ None \notin Nat /\ Never \notin Nat

VARIABLES
    config,    \* the configuration and the hash
    queue,     \* the datagrams that wait for each worker
    pc, job, answer,  \* where each worker stands, its datagram, and the answer to it
    clock, cleaned,  \* the time, and when nonces were last cleaned up
    nonces,    \* nonce_map: nonce -> created_at
    users,     \* AuthManager: client's username -> [password, expires] or None
    acl,       \* AuthManager: rules in the order they are tried
    adding,    \* what an update has removed and is about to add: a user with the account, or a rule
    arrived,   \* ghost: datagrams so far; each is numbered
    last,      \* ghost: the last datagram of each client that was handled
    issued,    \* ghost: nonce -> the client it was given to and when; it has the number of the datagram
    changes,   \* ghost: administrative changes so far
    steady     \* ghost: the user of the worker's client and what the rules say of it stayed the same

auth == <<users, acl, adding, changes>>
time == <<clock, cleaned>>
vars == <<config, queue, pc, job, answer, time, nonces, auth, arrived, last, issued, steady>>

Kinds == {"binding", "send", "request"}
Nonces == 1..MaxDatagrams
Datagram == [no : 1..MaxDatagrams, from : Clients, kind : Kinds, nonce : Nonces \cup {None}]
Challenges == {"challenge", "stale", "unknown", "integrity"}
Outcomes == Challenges \cup {"none", "bound", "forbidden", "error", "success"}
Answer == [how : Outcomes, key : Passwords \cup {None}]
PCs == {"recv", "process", "nonce", "password", "handle", "sign", "send"}

ASSUME NoneAssumption == None \notin Datagram /\ None \notin Answer

\* The types of what the workers use.
WorkTypeOK ==
    /\ config \in Setups
    /\ queue \in [Workers -> Seq(Datagram)] /\ \A w \in Workers : Len(queue[w]) <= Capacity
    /\ pc \in [Workers -> PCs]
    /\ job \in [Workers -> Datagram \cup {None}]
    /\ answer \in [Workers -> Answer \cup {None}]
    /\ clock \in 0..MaxTime /\ cleaned \in 0..MaxTime
    /\ DOMAIN nonces \subseteq Nonces /\ \A n \in DOMAIN nonces : nonces[n] \in 0..MaxTime
    /\ users \in [Clients -> Accounts \cup {None}]
    /\ arrived \in 0..MaxDatagrams
    /\ last \in [Clients -> 0..MaxDatagrams]
    /\ DOMAIN issued \subseteq Nonces /\ \A n \in DOMAIN issued : issued[n] \in [to : Clients, at : 0..MaxTime]
    /\ steady \in [Workers -> BOOLEAN]

TypeOK ==
    /\ WorkTypeOK
    /\ acl \in Seq(Rules)
    /\ adding \in (Clients \X Accounts) \cup ({"rule"} \X Rules) \cup {None}
    /\ changes \in 0..MaxChanges

Init ==
    /\ config \in Setups
    /\ queue = [w \in Workers |-> <<>>]
    /\ pc = [w \in Workers |-> "recv"]
    /\ job = [w \in Workers |-> None]
    /\ answer = [w \in Workers |-> None]
    /\ clock = 0 /\ cleaned = 0
    /\ nonces = <<>>
    /\ users \in [Clients -> {a \in Accounts : a.expires = Never}]
    /\ \A c \in Clients : users[c].password = Password[c]
    /\ acl = <<FirstRule>>
    /\ adding = None
    /\ arrived = 0
    /\ last = [c \in Clients |-> 0]
    /\ issued = <<>>
    /\ changes = 0
    /\ steady = [w \in Workers |-> TRUE]
-----------------------------------------------------------------------------
(* The listener                                                            *)

\* The nonces of the challenges that were sent to a client.
Given(c) ==
    {n \in DOMAIN issued : issued[n].to = c /\ \A w \in Workers : job[w] # None => job[w].no # n}

\* Well-formed datagrams of c.
Sent(c) ==
    [no : {arrived + 1}, from : {c}, kind : {"binding", "send"}, nonce : {None}]
        \cup [no : {arrived + 1}, from : {c}, kind : {"request"}, nonce : Given(c) \cup {None}]

\* Mutant: a datagram goes to any worker.
ReceiveAnywhere(c) ==
    /\ arrived < MaxDatagrams
    /\ arrived' = arrived + 1
    /\ \E d \in Sent(c), w \in Workers :
           queue' = IF Len(queue[w]) < Capacity THEN [queue EXCEPT ![w] = Append(@, d)] ELSE queue
    /\ UNCHANGED <<config, pc, job, answer, time, nonces, auth, last, issued, steady>>

\* A datagram arrives and goes to the queue of its worker, or is dropped when that is full.
Receive(c) ==
    /\ arrived < MaxDatagrams
    /\ arrived' = arrived + 1
    /\ \E d \in Sent(c) :
           LET w == config.hash[c]
           IN queue' = IF Len(queue[w]) < Capacity THEN [queue EXCEPT ![w] = Append(@, d)] ELSE queue
    /\ UNCHANGED <<config, pc, job, answer, time, nonces, auth, last, issued, steady>>
-----------------------------------------------------------------------------
(* A worker                                                                *)

Step(w, next) ==
    /\ pc' = [pc EXCEPT ![w] = next]
    /\ UNCHANGED <<config, queue, job, answer, time, nonces, auth, arrived, last, issued, steady>>

\* The datagram has been handled; "none" is no answer.
Reply(w, how, key) ==
    /\ last' = [last EXCEPT ![job[w].from] = job[w].no]
    /\ IF how = "none"
       THEN /\ pc' = [pc EXCEPT ![w] = "recv"]
            /\ job' = [job EXCEPT ![w] = None]
            /\ steady' = [steady EXCEPT ![w] = TRUE]
            /\ UNCHANGED answer
       ELSE /\ pc' = [pc EXCEPT ![w] = "send"]
            /\ answer' = [answer EXCEPT ![w] = [how |-> how, key |-> key]]
            /\ UNCHANGED <<job, steady>>
    /\ UNCHANGED <<config, queue, time, auth, arrived>>

Answered(w, how) == Reply(w, how, None) /\ UNCHANGED <<nonces, issued>>

\* HashMap::insert.
Insert(map, key, value) ==
    [k \in DOMAIN map \cup {key} |-> IF k = key THEN value ELSE map[k]]

\* create_401_response: a new nonce.
Challenged(w, how) ==
    /\ Reply(w, how, None)
    /\ nonces' = Insert(nonces, job[w].no, clock)
    /\ issued' = Insert(issued, job[w].no, [to |-> job[w].from, at |-> clock])

Take(w) ==
    /\ pc[w] = "recv"
    /\ queue[w] # <<>>
    /\ job' = [job EXCEPT ![w] = Head(queue[w])]
    /\ queue' = [queue EXCEPT ![w] = Tail(@)]
    /\ pc' = [pc EXCEPT ![w] = "process"]
    /\ UNCHANGED <<config, answer, time, nonces, auth, arrived, last, issued, steady>>

check_acl(c) == Admits(acl, c)

\* process_message, and verify_turn_auth as far as the rules.
Process(w) ==
    LET d == job[w] IN
    /\ pc[w] = "process"
    /\ \/ d.kind = "binding" /\ Answered(w, IF config.stun THEN "bound" ELSE "none")
       \/ d.kind # "binding" /\ ~config.turn /\ Answered(w, "none")
       \/ d.kind = "send" /\ config.turn /\ Answered(w, "none")
       \/ /\ d.kind = "request" /\ config.turn
          /\ \/ config.auth_disabled /\ Step(w, "handle")
             \/ ~config.auth_disabled /\ ~check_acl(d.from) /\ Answered(w, "forbidden")
             \/ ~config.auth_disabled /\ check_acl(d.from) /\ d.nonce = None /\ Challenged(w, "challenge")
             \/ ~config.auth_disabled /\ check_acl(d.from) /\ d.nonce # None /\ Step(w, "nonce")

\* Mutant: only the cleanup looks at the age.
CheckNonceKnown(w) ==
    LET n == job[w].nonce IN
    /\ pc[w] = "nonce"
    /\ IF n \in DOMAIN nonces THEN Step(w, "password") ELSE Challenged(w, "stale")

\* Mutant: the map is still locked for reading when the new nonce is to be inserted.
CheckNonceLocked(w) ==
    LET n == job[w].nonce IN
    /\ pc[w] = "nonce"
    /\ n \in DOMAIN nonces /\ clock - nonces[n] <= NonceExpiry
    /\ Step(w, "password")

\* The age limit is tested once more: the cleanup comes late by up to its interval.
CheckNonce(w) ==
    LET n == job[w].nonce IN
    /\ pc[w] = "nonce"
    /\ IF n \in DOMAIN nonces /\ clock - nonces[n] <= NonceExpiry
       THEN Step(w, "password")
       ELSE Challenged(w, "stale")

get_user_password(c) ==
    IF users[c] # None /\ (users[c].expires = Never \/ clock <= users[c].expires)
    THEN users[c].password
    ELSE None

get_password_for_user(c) ==
    IF get_user_password(c) # None THEN get_user_password(c) ELSE config.password

\* The key is made of the username and the password, so that c's signature verifies with the
\* password it signed with.
verify_message_integrity(c, password) == password = Password[c]

\* The password is looked up and the signature verified with it.
CheckPassword(w) ==
    LET c == job[w].from
        password == get_password_for_user(c)
    IN /\ pc[w] = "password"
       /\ \/ password = None /\ Challenged(w, "unknown")
          \/ password # None /\ ~verify_message_integrity(c, password) /\ Challenged(w, "integrity")
          \/ password # None /\ verify_message_integrity(c, password) /\ Step(w, "handle")

\* The handler does its work, or answers with an error, which is not signed, or gives no
\* answer, to a ChannelBind without an allocation.
Handle(w) ==
    /\ pc[w] = "handle"
    /\ Step(w, "sign") \/ Answered(w, "error") \/ Answered(w, "none")

\* Mutant: the answer is signed with the server's password.
SignGlobally(w) ==
    /\ pc[w] = "sign"
    /\ Reply(w, "success", IF config.auth_disabled THEN None ELSE config.password)
    /\ UNCHANGED <<nonces, issued>>

\* A success is signed with the password as it is by now, if there is one.
Sign(w) ==
    /\ pc[w] = "sign"
    /\ Reply(w, "success", IF config.auth_disabled THEN None ELSE get_password_for_user(job[w].from))
    /\ UNCHANGED <<nonces, issued>>

\* The answer goes out, or an error is logged; the worker goes on.
Send(w) ==
    /\ pc[w] = "send"
    /\ pc' = [pc EXCEPT ![w] = "recv"]
    /\ job' = [job EXCEPT ![w] = None]
    /\ answer' = [answer EXCEPT ![w] = None]
    /\ steady' = [steady EXCEPT ![w] = TRUE]
    /\ UNCHANGED <<config, queue, time, nonces, auth, arrived, last, issued>>

Work(w) ==
    Take(w) \/ Process(w) \/ CheckNonce(w) \/ CheckPassword(w) \/ Handle(w) \/ Sign(w) \/ Send(w)
-----------------------------------------------------------------------------
(* Administration and time                                                 *)

\* The workers whose clients' users or admission are changed are not steady.
Disturb ==
    /\ steady' = [w \in Workers |->
                     /\ steady[w]
                     /\ job[w] # None => LET c == job[w].from
                                        IN users'[c] = users[c] /\ (Admits(acl', c) <=> Admits(acl, c))]
    /\ UNCHANGED <<config, queue, pc, job, answer, time, nonces, arrived, last, issued>>

Change ==
    /\ changes < MaxChanges
    /\ changes' = changes + 1
    /\ Disturb

AddUser(c, a) ==
    /\ users' = [users EXCEPT ![c] = a]
    /\ UNCHANGED <<acl, adding>>
    /\ Change

DeleteUser(c) ==
    /\ users' = [users EXCEPT ![c] = None]
    /\ UNCHANGED <<acl, adding>>
    /\ Change

\* update_user_handler removes the user and adds it again.
UpdateUser(c, a) ==
    /\ adding = None
    /\ users' = [users EXCEPT ![c] = None]
    /\ adding' = <<c, a>>
    /\ UNCHANGED acl
    /\ Change

UpdateUserAdds(c, a) ==
    /\ adding = <<c, a>>
    /\ users' = [users EXCEPT ![c] = a]
    /\ adding' = None
    /\ UNCHANGED <<acl, changes>>
    /\ Disturb

add_acl_rule(r) == acl' = WithRule(acl, r)

remove_acl_rule(r) ==
    acl' = Retained(acl, {i \in 1..Len(acl) : acl[i].match # r.match \/ acl[i].priority # r.priority})

AddRule(r) ==
    /\ add_acl_rule(r)
    /\ UNCHANGED <<users, adding>>
    /\ Change

DeleteRule(r) ==
    /\ remove_acl_rule(r)
    /\ UNCHANGED <<users, adding>>
    /\ Change

\* update_acl_handler removes the old rule and adds the new one.
UpdateRule(old, new) ==
    /\ adding = None
    /\ remove_acl_rule(old)
    /\ adding' = <<"rule", new>>
    /\ UNCHANGED users
    /\ Change

UpdateRuleAdds(r) ==
    /\ adding = <<"rule", r>>
    /\ add_acl_rule(r)
    /\ adding' = None
    /\ UNCHANGED <<users, changes>>
    /\ Disturb

\* The cleanup task is never late.
Tick ==
    /\ clock < MaxTime
    /\ clock < cleaned + CleanupInterval
    /\ clock' = clock + 1
    /\ UNCHANGED <<config, queue, pc, job, answer, cleaned, nonces, auth, arrived, last, issued, steady>>

\* start_nonce_cleanup_task, every CleanupInterval.
CleanupNonces ==
    /\ clock = cleaned + CleanupInterval
    /\ cleaned' = clock
    /\ nonces' = [n \in {m \in DOMAIN nonces : clock - nonces[m] < NonceExpiry} |-> nonces[n]]
    /\ UNCHANGED <<config, queue, pc, job, answer, clock, auth, arrived, last, issued, steady>>

Administer ==
    \/ \E c \in Managed : \/ DeleteUser(c)
                         \/ \E a \in Accounts : AddUser(c, a) \/ UpdateUser(c, a) \/ UpdateUserAdds(c, a)
    \/ \E r \in Rules : AddRule(r) \/ UpdateRuleAdds(r)
    \/ \E i \in 1..Len(acl) : DeleteRule(acl[i]) \/ \E new \in Rules : UpdateRule(acl[i], new)

Next ==
    \/ \E c \in Clients : Receive(c)
    \/ \E w \in Workers : Work(w)
    \/ Administer
    \/ Tick \/ CleanupNonces

\* tokio runs every worker.
Fairness == \A w \in Workers : WF_vars(Work(w))

Spec == Init /\ [][Next]_vars /\ Fairness
-----------------------------------------------------------------------------
(* Properties                                                              *)

\* "Stable distribution by client address: preserves per-client ordering": no two workers
\* handle datagrams of one client at a time, and what waits is newer than what was taken, in
\* the order of arrival, also when datagrams in between were dropped at a full queue.
InOrderPerClient ==
    \A w \in Workers : \A i \in 1..Len(queue[w]) :
        LET d == queue[w][i] IN
        /\ last[d.from] < d.no
        /\ \A v \in Workers : job[v] # None /\ job[v].from = d.from => v = w /\ job[v].no < d.no
        /\ \A v \in Workers : \A j \in 1..Len(queue[v]) :
               queue[v][j].from = d.from => v = w /\ (i < j => d.no < queue[v][j].no)

\* A nonce is good for NonceExpiry and not longer, whenever the cleanup task runs: the
\* check and the cleanup count the age differently, and may differ only in between.
NonceLifetime ==
    [][\A w \in Workers : pc[w] = "nonce" /\ pc'[w] # "nonce" =>
           LET age == clock - issued[job[w].nonce].at IN
           /\ age < NonceExpiry => pc'[w] = "password"
           /\ age > NonceExpiry => pc'[w] = "send"]_vars

\* A client whose user has the client's password, does not expire and may use the server is
\* never refused for its credentials, and its success is signed with that password, although
\* the user table is read twice, unless its user was changed meanwhile (update_user_handler
\* takes the user out for a moment), or a change of the rules kept it out meanwhile.
KnownUserIsServed ==
    \A w \in Workers :
        LET c == job[w].from
        IN pc[w] = "send" /\ job[w].kind = "request" /\ ~config.auth_disabled /\ steady[w]
               /\ get_user_password(c) = Password[c] /\ check_acl(c) =>
                   /\ answer[w].how \notin {"forbidden", "unknown", "integrity"}
                   /\ answer[w].how = "success" => answer[w].key = Password[c]

\* Every burst of datagrams is worked off: no worker stays busy or leaves one waiting, whatever
\* became of the answers before it.
QueuesDrain ==
    []<>(\A w \in Workers : queue[w] = <<>> /\ job[w] = None)
=============================================================================
