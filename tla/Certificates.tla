----------------------------- MODULE Certificates -----------------------------
(***************************************************************************)
(* Where the certificates of the TLS and DTLS listeners come from: local   *)
(* files, an ACME service, or an SDS control plane; the two files they are *)
(* cached in; and the task that follows the control plane while the server *)
(* runs.  A certificate chain and its private key are issued together and  *)
(* known by their number.  The process may end anywhere and starts again   *)
(* from the files.                                                         *)
(*                                                                         *)
(* main loads the TLS configuration, then that of DTLS; the watcher runs   *)
(* beside it on another thread.  A file is written by truncating it and    *)
(* then putting the content in, in two steps.                              *)
(***************************************************************************)
EXTENDS Naturals

CONSTANTS MaxVersion,  \* bound on the certificates issued
          MaxStarts,   \* bound on the starts of the process
          Unparsable,  \* secrets of the control plane that are no certificate
          Rsa,         \* certificates with an RSA key, which DTLS cannot use
          Domains,     \* domains an ACME order is for
          None, Empty, Broken,  \* no file or value; a file truncated; damaged
          Whole,       \* an account file written in full
          SelfSigned   \* the certificate DTLS falls back to

Versions == 1..MaxVersion

ASSUME CertificatesAssumption ==
    /\ MaxVersion \in Nat \ {0} /\ MaxStarts \in Nat
    /\ Unparsable \subseteq Versions /\ Rsa \subseteq Versions
    /\ {None, Empty, Broken, SelfSigned} \cap Nat = {}
    /\ None \notin {"tls", "dtls"} /\ None # Empty /\ None # Broken /\ Empty # Broken /\ Whole \notin {None, Empty}

VARIABLES
    source,     \* certificates.source
    listeners,  \* "tls", "dtls" or both
    cert, key, account,  \* the two cached files, and that of the ACME account
    due,        \* certificates within renew_before_days of their expiry
    starts,     \* starts of the process
    pc, job,    \* where main stands, and the listener it loads the certificate of
    held,       \* the chain and the key main has in hand
    tls, dtls,  \* what the listeners present
    watcher,    \* kind of the registered watcher: "tls", "dtls" or None
    wpc, update,     \* where it stands, and the secret it has in hand
    published,       \* the control plane's secret, or the last one ACME issued
    offered, reply,  \* the last secret sent on the watcher's stream, and the response on its way
    acked,           \* the last secret acknowledged on it
    http01, store, ready, valid,  \* ACME: challenge server, its tokens, challenges set ready, and validated
    cut,         \* ghost: a file was left half-written by the end of the process or an error
    overlapped,  \* ghost: main used the cache while the watcher was writing it
    promised     \* ghost: the newest secret ever acknowledged

files == <<cert, key, account>>
plane == <<published, offered, reply, acked>>
order == <<http01, store, ready, valid>>
main == <<pc, job, held, tls, dtls>>
watch == <<watcher, wpc, update>>
ghosts == <<cut, overlapped, promised>>
setup == <<source, listeners, due, starts>>
vars == <<setup, files, main, watch, plane, order, ghosts>>

Content == Versions \cup {Empty, Broken}
Writing == {"cert_open", "cert_write", "key_open", "key_write"}
Using == Writing \cup {"read_cert", "read_key"}

TypeOK ==
    /\ source \in {"local", "letsencrypt", "sds"}
    /\ listeners \in SUBSET {"tls", "dtls"}
    /\ cert \in Content \cup {None} /\ key \in Content \cup {None}
    /\ account \in {Whole, Empty, None}
    /\ due \in SUBSET Versions
    /\ pc \in Using \cup {"down", "load", "fetch", "account", "account_write", "order",
                        "authorize", "use", "up"}
    /\ job \in {"tls", "dtls", None}
    /\ held \in [cert : Content \cup {None}, key : Content \cup {None}]
    /\ tls \in Versions \cup {None}
    /\ dtls \in [cert : Versions, key : Versions] \cup {SelfSigned, None}
    /\ watcher \in {"tls", "dtls", None}
    /\ wpc \in Writing \cup {"off", "connect", "stream", "apply", "ack"}
    /\ update \in Nat /\ published \in 0..MaxVersion /\ offered \in Nat /\ acked \in Nat
    /\ reply \in Nat \cup {None}
    /\ http01 \in BOOLEAN /\ store \subseteq Domains /\ ready \subseteq Domains /\ valid \subseteq Domains

Nothing == [cert |-> None, key |-> None]

Init ==
    /\ source \in {"local", "letsencrypt", "sds"}
    /\ listeners \in SUBSET {"tls", "dtls"} \ {{}}
    /\ published = IF source = "local" THEN 1 ELSE 0
    /\ cert = IF source = "local" THEN 1 ELSE None
    /\ key = cert
    /\ account = None
    /\ due = {}
    /\ starts = 0
    /\ pc = "down" /\ job = None /\ held = Nothing /\ tls = None /\ dtls = None
    /\ watcher = None /\ wpc = "off" /\ update = 0
    /\ offered = 0 /\ reply = None /\ acked = 0
    /\ http01 = FALSE /\ store = {} /\ ready = {} /\ valid = {}
    /\ cut = FALSE /\ overlapped = FALSE /\ promised = 0
-----------------------------------------------------------------------------
(* The process                                                             *)

\* Where to end is to leave a file half-written, the files unlike, or an ACME certificate unsaved.
HalfWritten ==
    {"cert_write", "key_open", "key_write", "account_write"}
        \cup (IF source = "letsencrypt" THEN {"cert_open"} ELSE {})

\* The memory of a process that is not running.
Gone ==
    /\ pc' = "down" /\ job' = None /\ held' = Nothing /\ tls' = None /\ dtls' = None
    /\ watcher' = None /\ wpc' = "off" /\ update' = 0
    /\ offered' = 0 /\ reply' = None /\ acked' = 0
    /\ http01' = FALSE /\ store' = {} /\ ready' = {} /\ valid' = {}
    /\ cut' = (cut \/ pc \in HalfWritten \/ wpc \in HalfWritten)

Start ==
    /\ pc = "down"
    /\ starts < MaxStarts
    /\ starts' = starts + 1
    /\ pc' = "load"
    /\ job' = IF "tls" \in listeners THEN "tls" ELSE "dtls"
    /\ UNCHANGED <<source, listeners, due, files, held, tls, dtls, watch, plane, order, ghosts>>

Stop ==
    /\ pc # "down"
    /\ Gone
    /\ UNCHANGED <<setup, files, published, overlapped, promised>>

\* main goes on to the DTLS listener, or serves.
Loaded ==
    /\ pc' = IF job = "tls" /\ "dtls" \in listeners THEN "load" ELSE "up"
    /\ job' = IF job = "tls" /\ "dtls" \in listeners THEN "dtls" ELSE None
    /\ held' = Nothing

\* load_certificate_config fails: main ends.  load_dtls_certificate_config falls back to a
\* certificate it signs itself.
Fail ==
    /\ IF job = "tls" THEN Gone
       ELSE /\ Loaded
            /\ dtls' = SelfSigned
            /\ http01' = FALSE /\ store' = {} /\ ready' = {} /\ valid' = {}
            /\ cut' = (cut \/ pc \in HalfWritten)
            /\ UNCHANGED <<tls, watch, offered, reply, acked>>
    /\ UNCHANGED <<setup, published, overlapped, promised>>

Goto(next) == pc' = next /\ UNCHANGED <<setup, job, tls, dtls, watch, plane, cut, promised>>

\* main begins to use the cache, or goes on, while the watcher writes it.
Watched == overlapped' = (overlapped \/ wpc \in Writing)
-----------------------------------------------------------------------------
(* Loading a certificate                                                   *)

\* cached_certificate_is_usable looks at the chain only.
CacheUsable == cert # None /\ key # None /\ cert \in Versions \ due
CacheError == cert # None /\ key # None /\ cert \in {Empty, Broken}

\* Mutant: the cache is not looked at.
LoadOrdersAlways ==
    /\ pc = "load"
    /\ \/ source = "local" /\ Goto("read_cert")
       \/ source = "sds" /\ Goto("fetch")
       \/ source = "letsencrypt" /\ Goto("account")
    /\ UNCHANGED <<files, held, order, overlapped>>

\* load_certificate_pem, by source; ACME is contacted when the cache is not usable.
Load ==
    /\ pc = "load"
    /\ \/ source = "local" /\ Goto("read_cert")
       \/ source = "sds" /\ Goto("fetch")
       \/ source = "letsencrypt" /\ CacheUsable /\ Goto("read_cert")
       \/ source = "letsencrypt" /\ ~CacheUsable /\ ~CacheError /\ Goto("account")
    /\ UNCHANGED <<files, held, order, overlapped>>

LoadFails ==
    /\ pc = "load" /\ source = "letsencrypt" /\ CacheError
    /\ Fail
    /\ UNCHANGED files

\* fetch_sds_certificate returns the secret; it is cached unless it cannot be parsed.
FetchSecret ==
    /\ pc = "fetch"
    /\ published \in Versions \ Unparsable
    /\ Goto("cert_open")
    /\ held' = [cert |-> published, key |-> published]
    /\ UNCHANGED <<files, order, overlapped>>

FetchUnparsable ==
    /\ pc = "fetch"
    /\ published \in Unparsable
    /\ Fail
    /\ UNCHANGED files

\* No connection, no answer in time, or the end of the stream: the cache is used if it may be.
FetchFails ==
    /\ pc = "fetch"
    /\ \/ CacheUsable /\ Goto("read_cert") /\ UNCHANGED <<files, held, order, overlapped>>
       \/ ~CacheUsable /\ Fail /\ UNCHANGED files

ReadCert ==
    /\ pc = "read_cert"
    /\ held' = [held EXCEPT !.cert = cert]
    /\ Goto("read_key")
    /\ Watched
    /\ UNCHANGED <<files, order>>

ReadKey ==
    /\ pc = "read_key"
    /\ held' = [held EXCEPT !.key = key]
    /\ Goto("use")
    /\ Watched
    /\ UNCHANGED <<files, order>>

\* Content put in after another writer's content may leave its end behind.
Written(file, v) == {v} \cup (IF file = Empty THEN {} ELSE {Broken})

\* Mutant: the key is left as it is.
WriteChainOnly(at, v, next) ==
    \/ at = "cert_open" /\ cert' = Empty /\ next = "cert_write" /\ UNCHANGED key
    \/ at = "cert_write" /\ cert' \in Written(cert, v) /\ next = "done" /\ UNCHANGED key

\* The four steps of writing the pair v: chain, then key.
Write(at, v, next) ==
    \/ at = "cert_open" /\ cert' = Empty /\ next = "cert_write" /\ UNCHANGED key
    \/ at = "cert_write" /\ cert' \in Written(cert, v) /\ next = "key_open" /\ UNCHANGED key
    \/ at = "key_open" /\ key' = Empty /\ next = "key_write" /\ UNCHANGED cert
    \/ at = "key_write" /\ key' \in Written(key, v) /\ next = "done" /\ UNCHANGED cert

WriteCache ==
    /\ \E next \in Writing \cup {"done"} :
           Write(pc, held.cert, next) /\ Goto(IF next = "done" THEN "use" ELSE next)
    /\ Watched
    /\ UNCHANGED <<account, held, order>>

WriteFails ==
    /\ pc \in Writing \cup {"account_write"}
    /\ Fail
    /\ UNCHANGED files

\* register_sds_watcher: the first one stays.
Register(kind) ==
    IF source = "sds" /\ watcher = None
    THEN watcher' = kind /\ wpc' = "connect" /\ UNCHANGED update
    ELSE UNCHANGED watch

\* The listener's configuration is built and the watcher started.  rustls wants the key of
\* the chain; for DTLS the two are only parsed.
UseForTls ==
    /\ pc = "use" /\ job = "tls"
    /\ held.cert \in Versions /\ held.key = held.cert
    /\ tls' = held.cert
    /\ Register("tls")
    /\ Loaded
    /\ UNCHANGED <<setup, files, dtls, plane, order, ghosts>>

\* Mutant: the certificate loaded for DTLS goes to the resolver of TLS too.
UseForBoth ==
    /\ pc = "use" /\ job = "dtls"
    /\ held.cert \in Versions /\ held.key \in Versions \ Rsa
    /\ dtls' = held
    /\ tls' = IF tls = None THEN tls ELSE held.cert
    /\ Register("dtls")
    /\ Loaded
    /\ UNCHANGED <<setup, files, plane, order, ghosts>>

UseForDtls ==
    /\ pc = "use" /\ job = "dtls"
    /\ held.cert \in Versions /\ held.key \in Versions \ Rsa
    /\ dtls' = held
    /\ Register("dtls")
    /\ Loaded
    /\ UNCHANGED <<setup, files, tls, plane, order, ghosts>>

UseFails ==
    /\ pc = "use"
    /\ IF job = "tls" THEN held.cert \notin Versions \/ held.key # held.cert
                      ELSE held.cert \notin Versions \/ held.key \notin Versions \ Rsa
    /\ Fail
    /\ UNCHANGED files
-----------------------------------------------------------------------------
(* ACME                                                                    *)

\* load_or_create_account.
OpenAccount ==
    /\ pc = "account"
    /\ \/ account = Whole /\ Goto("order") /\ UNCHANGED account
       \/ account = None /\ account' = Empty /\ Goto("account_write")
    /\ UNCHANGED <<cert, key, held, order, overlapped>>

WriteAccount ==
    /\ pc = "account_write"
    /\ account' = Whole
    /\ Goto("order")
    /\ UNCHANGED <<cert, key, held, order, overlapped>>

\* The order is placed and the challenge server listens; the service may know some of the
\* domains already.
PlaceOrder ==
    /\ pc = "order"
    /\ Goto("authorize")
    /\ http01' = TRUE
    /\ valid' \in SUBSET Domains
    /\ UNCHANGED <<files, held, store, ready, overlapped>>

\* complete_http01_order, one domain after the other: the token is stored, then the challenge
\* is set ready.
InsertToken(d) ==
    /\ pc = "authorize"
    /\ store \subseteq ready
    /\ d \notin valid \cup store
    /\ store' = store \cup {d}
    /\ UNCHANGED <<setup, files, main, watch, plane, http01, ready, valid, ghosts>>

\* Mutant: the challenge is set ready before its token is stored.
SetReadyFirst(d) ==
    /\ pc = "authorize"
    /\ d \notin valid \cup ready
    /\ ready' = ready \cup {d}
    /\ UNCHANGED <<setup, files, main, watch, plane, http01, store, valid, ghosts>>

SetReady(d) ==
    /\ pc = "authorize"
    /\ d \in store \ ready
    /\ ready' = ready \cup {d}
    /\ UNCHANGED <<setup, files, main, watch, plane, http01, store, valid, ghosts>>

\* The challenge server knows the token (http01_challenge_handler).
Answers(d) == http01 /\ d \in store

\* The service asks for the token of a ready challenge.
Validate(d) ==
    /\ d \in ready \ valid
    /\ Answers(d)
    /\ valid' = valid \cup {d}
    /\ UNCHANGED <<setup, files, main, watch, plane, http01, store, ready, ghosts>>

\* The order is ready: it is finalized, the challenge server ends, and the pair is cached.
Finalize ==
    /\ pc = "authorize"
    /\ valid = Domains
    /\ published < MaxVersion
    /\ published' = published + 1
    /\ held' = [cert |-> published + 1, key |-> published + 1]
    /\ pc' = "cert_open"
    /\ http01' = FALSE /\ store' = {} /\ ready' = {} /\ valid' = {}
    /\ UNCHANGED <<setup, files, job, tls, dtls, watch, offered, reply, acked, ghosts>>

\* An account file that cannot be read, an address in use, or an error of the service.
AcmeFails ==
    /\ pc \in {"account", "order", "authorize"}
    /\ Fail
    /\ UNCHANGED files
-----------------------------------------------------------------------------
(* The watcher                                                             *)

Watching == UNCHANGED <<setup, account, main, watcher, published, order>>

\* A new stream: the control plane knows nothing of what was sent on the last one.
Connect ==
    /\ wpc = "connect"
    /\ wpc' = "stream" /\ offered' = 0 /\ reply' = None /\ acked' = 0
    /\ UNCHANGED <<cert, key, update, ghosts>> /\ Watching

\* A response with the secret.
Receive ==
    /\ wpc = "stream" /\ reply \in Versions
    /\ update' = reply /\ reply' = None /\ wpc' = "apply"
    /\ UNCHANGED <<cert, key, offered, acked, ghosts>> /\ Watching

\* A response with other secrets only, or that says it is gone (0): it is acknowledged.
ReceiveWithout ==
    /\ wpc = "stream" /\ reply = 0
    /\ update' = 0 /\ reply' = None /\ wpc' = "ack"
    /\ UNCHANGED <<cert, key, offered, acked, ghosts>> /\ Watching

\* Mutant: a secret that cannot be parsed is acknowledged.
ApplyLenient ==
    /\ wpc = "apply"
    /\ wpc' = IF update \in Unparsable THEN "ack" ELSE "cert_open"
    /\ tls' = IF watcher = "tls" /\ update \notin Unparsable THEN update ELSE tls
    /\ UNCHANGED <<setup, files, pc, job, held, dtls, watcher, update, plane, order, ghosts>>

\* Mutant: the secret is acknowledged before it is cached.
ApplyAcksFirst ==
    /\ wpc = "apply"
    /\ wpc' = IF update \in Unparsable THEN "connect" ELSE "cert_open"
    /\ tls' = IF watcher = "tls" /\ update \notin Unparsable THEN update ELSE tls
    /\ acked' = IF update \in Unparsable THEN acked ELSE update
    /\ promised' = IF acked' > promised THEN acked' ELSE promised
    /\ UNCHANGED <<setup, files, pc, job, held, dtls, watcher, update, published, offered, reply, order>>
    /\ UNCHANGED <<cut, overlapped>>

\* The watcher of the TLS listener replaces what it presents; that of DTLS only looks
\* whether the secret can be parsed.
Apply ==
    /\ wpc = "apply"
    /\ wpc' = IF update \in Unparsable THEN "connect" ELSE "cert_open"
    /\ tls' = IF watcher = "tls" /\ update \notin Unparsable THEN update ELSE tls
    /\ UNCHANGED <<setup, files, pc, job, held, dtls, watcher, update, plane, order, ghosts>>

WatcherWrites ==
    /\ \E next \in Writing \cup {"done"} :
           Write(wpc, update, next) /\ wpc' = IF next = "done" THEN "ack" ELSE next
    /\ overlapped' = (overlapped \/ pc \in Using)
    /\ UNCHANGED <<update, offered, reply, acked, cut, promised>> /\ Watching

WatcherWriteFails ==
    /\ wpc \in Writing
    /\ wpc' = "connect"
    /\ cut' = (cut \/ wpc \in HalfWritten)
    /\ UNCHANGED <<cert, key, update, offered, reply, acked, overlapped, promised>> /\ Watching

Ack ==
    /\ wpc = "ack"
    /\ wpc' = "stream"
    /\ acked' = IF update = 0 THEN acked ELSE update
    /\ promised' = IF acked' > promised THEN acked' ELSE promised
    /\ UNCHANGED <<cert, key, update, offered, reply, cut, overlapped>> /\ Watching

\* Mutant: the watcher ends with its stream.
StreamEndsWatcher ==
    /\ wpc \in {"stream", "ack"}
    /\ wpc' = "off"
    /\ UNCHANGED <<cert, key, update, offered, reply, acked, ghosts>> /\ Watching

\* The stream ends or its connection is lost; the watcher sleeps and connects again.
StreamCloses ==
    /\ wpc \in {"stream", "ack"}
    /\ wpc' = "connect"
    /\ UNCHANGED <<cert, key, update, offered, reply, acked, ghosts>> /\ Watching
-----------------------------------------------------------------------------
(* The surroundings                                                        *)

\* The control plane has a new secret.
Publish ==
    /\ source = "sds"
    /\ published < MaxVersion
    /\ published' = published + 1
    /\ UNCHANGED <<setup, files, main, watch, offered, reply, acked, order, ghosts>>

\* It sends the secret when it has not on this stream, one response at a time.
Respond ==
    /\ wpc \notin {"off", "connect"} /\ reply = None
    /\ offered < published
    /\ reply' = published /\ offered' = published
    /\ UNCHANGED <<setup, files, main, watch, published, acked, order, ghosts>>

RespondWithout ==
    /\ wpc = "stream" /\ reply = None
    /\ reply' = 0
    /\ UNCHANGED <<setup, files, main, watch, published, offered, acked, order, ghosts>>

\* The oldest certificate in use comes close to its expiry.
BecomeDue ==
    \E v \in 1..published :
        /\ v \notin due /\ 1..(v - 1) \subseteq due
        /\ due' = due \cup {v}
        /\ UNCHANGED <<source, listeners, starts, files, main, watch, plane, order, ghosts>>

MainLoads ==
    \/ Load \/ LoadFails \/ FetchSecret \/ FetchUnparsable \/ FetchFails \/ ReadCert \/ ReadKey
    \/ WriteCache \/ WriteFails \/ UseForTls \/ UseForDtls \/ UseFails
    \/ OpenAccount \/ WriteAccount \/ PlaceOrder \/ Finalize \/ AcmeFails
    \/ \E d \in Domains : InsertToken(d) \/ SetReady(d)

WatcherRuns == Connect \/ Receive \/ ReceiveWithout \/ Apply \/ WatcherWrites \/ Ack

Next ==
    \/ Start \/ Stop \/ MainLoads
    \/ WatcherRuns \/ WatcherWriteFails \/ StreamCloses
    \/ Publish \/ Respond \/ RespondWithout \/ BecomeDue
    \/ \E d \in Domains : Validate(d)

\* tokio runs main and the watcher; a stream that is opened again and again carries a
\* response through at last.
Fairness ==
    /\ WF_vars(MainLoads)
    /\ WF_vars(WatcherRuns)
    /\ SF_vars(wpc = "stream" /\ Respond) /\ SF_vars(Receive)
    /\ \A d \in Domains : WF_vars(Validate(d))

Spec == Init /\ [][Next]_vars /\ Fairness
-----------------------------------------------------------------------------
(* Properties                                                              *)

\* write_cached_certificate writes two files, and load_or_create_account one more, none of
\* them atomically: with no write under way, chain and key are a pair and the account file is
\* whole, and DTLS presents a pair, unless the process or a write ended in the middle or the
\* second load of main met the watcher.
PairsStayTogether ==
    ~cut /\ ~overlapped =>
        /\ ({pc, wpc} \cap Writing = {} => cert = key /\ cert # Broken)
        /\ (pc # "account_write" => account # Empty)
        /\ (dtls \notin {SelfSigned, None} => dtls.cert = dtls.key)

\* "The stream ACKs valid updates": while the watcher waits on its stream, the secret the
\* control plane saw acknowledged is the one new TLS handshakes get, and it or a newer one
\* that main fetched for DTLS is cached.
AckedIsInUse ==
    wpc = "stream" /\ acked # 0 =>
        /\ acked \notin Unparsable
        /\ (watcher = "tls" => tls = acked)
        /\ (~cut /\ ~overlapped /\ pc \notin Writing => cert >= acked /\ key >= acked)

\* The cache is the "startup fallback": whatever happens to the process and to the control
\* plane, the TLS listener never presents an older secret than one acknowledged before.
AckedSurvivesRestart ==
    ~cut /\ ~overlapped /\ tls # None => tls >= promised

\* A running TLS listener never goes back to an older certificate, however its streams end
\* and begin (DynamicCertResolver::update_from_pem is only called in order).
NeverOlder ==
    [][tls # None /\ tls' # None => tls' >= tls]_vars

\* A certificate issued by ACME is used until it is due, over any number of starts and for
\* both listeners: a second one is issued only for a due one, or when the first could not be
\* saved whole (provision_letsencrypt).
IssuedOncePerPeriod ==
    [][source = "letsencrypt" /\ published' > published /\ published > 0 /\ ~cut
           => published \in due]_vars

\* While a challenge is set ready and not validated, the service finds its token: it was
\* stored before and the server still listens.
ReadyIsAnswered ==
    \A d \in ready : Answers(d)

\* Once main serves, TLS handshakes eventually get the control plane's secret, if it is one,
\* or a newer one is published, or the process ends: also when DTLS shares the source
\* (register_sds_watcher keeps the first watcher, which must be that of TLS).
TlsFollowsControlPlane ==
    \A v \in Versions \ Unparsable :
        (pc = "up" /\ source = "sds" /\ "tls" \in listeners /\ published = v)
            ~> (tls = v \/ published # v \/ pc = "down")
=============================================================================
