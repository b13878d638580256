-------------------------- MODULE CertificatesProofs --------------------------
(***************************************************************************)
(* Proofs about Certificates, for any number of versions, starts and       *)
(* domains, whichever secrets cannot be parsed or have an RSA key.         *)
(***************************************************************************)
EXTENDS Certificates, TLAPS

\* A pair that is being written, or has been received and is to be applied, is one; only a
\* registered watcher runs.
HandsOK ==
    /\ pc \in Writing => held.cert \in Versions /\ held.key = held.cert
    /\ wpc \in Writing \cup {"apply"} => update \in Versions
    /\ watcher = None => wpc = "off"

TypeInv == TypeOK /\ HandsOK

\* The parts of TypeOK.
FilesOK ==
    /\ source \in {"local", "letsencrypt", "sds"} /\ listeners \in SUBSET {"tls", "dtls"}
    /\ due \in SUBSET Versions
    /\ cert \in Content \cup {None} /\ key \in Content \cup {None}
    /\ account \in {Whole, Empty, None}
MainOK ==
    /\ pc \in Using \cup {"down", "load", "fetch", "account", "account_write", "order",
                        "authorize", "use", "up"}
    /\ job \in {"tls", "dtls", None}
    /\ held \in [cert : Content \cup {None}, key : Content \cup {None}]
    /\ tls \in Versions \cup {None}
    /\ dtls \in [cert : Versions, key : Versions] \cup {SelfSigned, None}
WatchOK ==
    /\ watcher \in {"tls", "dtls", None}
    /\ wpc \in Writing \cup {"off", "connect", "stream", "apply", "ack"}
    /\ update \in Nat /\ published \in 0..MaxVersion /\ offered \in Nat /\ acked \in Nat
    /\ reply \in Nat \cup {None}
OrderOK == http01 \in BOOLEAN /\ store \subseteq Domains /\ ready \subseteq Domains /\ valid \subseteq Domains

\* They make it up.
LEMMA TypeParts == TypeOK <=> FilesOK /\ MainOK /\ WatchOK /\ OrderOK
BY DEF TypeOK, FilesOK, MainOK, WatchOK, OrderOK

\* The end of a process, and the fallback of the DTLS listener, keep the types.
LEMMA FailTypes ==
    ASSUME TypeInv, Gone \/ Fail, UNCHANGED <<setup, files, published>>
    PROVE  TypeInv'
<1> USE CertificatesAssumption DEF TypeInv, setup, files
<1>0. FilesOK /\ MainOK /\ WatchOK /\ OrderOK /\ HandsOK
  BY TypeParts
<1>1. CASE Gone
  <2>1. FilesOK' /\ OrderOK'
    BY <1>0, <1>1, ZenonT(30) DEF Gone, Nothing, FilesOK, OrderOK
  <2>2. MainOK'
    BY <1>0, <1>1 DEF Gone, Nothing, MainOK, Using, Writing, Content
  <2>3. WatchOK' /\ HandsOK'
    BY <1>0, <1>1 DEF Gone, Nothing, WatchOK, HandsOK, MainOK, Writing
  <2>4. QED
    BY <2>1, <2>2, <2>3 DEF TypeOK, FilesOK, MainOK, WatchOK, OrderOK
<1>2. CASE Fail /\ job # "tls"
  <2>0. /\ pc' = "up" /\ job' = None /\ held' = Nothing /\ dtls' = SelfSigned
        /\ http01' = FALSE /\ store' = {} /\ ready' = {} /\ valid' = {}
        /\ UNCHANGED <<tls, watcher, wpc, update, offered, reply, acked, published>>
    BY <1>2 DEF Fail, Loaded, watch
  <2>1. FilesOK' /\ OrderOK'
    BY <1>0, <2>0, ZenonT(30) DEF Nothing, FilesOK, OrderOK
  <2>2. MainOK'
    BY <1>0, <2>0 DEF Nothing, MainOK, Using, Writing, Content
  <2>3. WatchOK' /\ HandsOK'
    BY <1>0, <2>0 DEF Nothing, WatchOK, HandsOK, MainOK, Writing
  <2>4. QED
    BY <2>1, <2>2, <2>3 DEF TypeOK, FilesOK, MainOK, WatchOK, OrderOK
<1>3. QED
  BY <1>1, <1>2, ZenonT(30) DEF Fail

\* Every step of main keeps the types.
LEMMA MainTypes ==
    ASSUME TypeInv, MainLoads
    PROVE  TypeInv'
<1> USE CertificatesAssumption DEF TypeInv, setup, files, plane, order, watch, ghosts
<1>0. FilesOK /\ MainOK /\ WatchOK /\ OrderOK /\ HandsOK
  BY TypeParts
<1>1. CASE Load
  <2>1. FilesOK' /\ OrderOK'
    BY <1>0, <1>1, ZenonT(30) DEF Load, Goto, FilesOK, OrderOK
  <2>2. MainOK'
    BY <1>0, <1>1 DEF Load, Goto, MainOK, Using, Writing, Content
  <2>3. WatchOK' /\ HandsOK'
    BY <1>0, <1>1 DEF Load, Goto, WatchOK, HandsOK, MainOK, Writing
  <2>4. QED
    BY <2>1, <2>2, <2>3 DEF TypeOK, FilesOK, MainOK, WatchOK, OrderOK
<1>2. CASE LoadFails \/ FetchUnparsable \/ WriteFails \/ UseFails \/ AcmeFails
  BY <1>2, FailTypes, ZenonT(30) DEF LoadFails, FetchUnparsable, WriteFails, UseFails, AcmeFails, Fail
<1>3. CASE FetchSecret
  BY <1>3 DEF FetchSecret, Goto, HandsOK, TypeOK, Writing, Using, Content
<1>4. CASE FetchFails
  <2>1. CASE Goto("read_cert") /\ UNCHANGED <<files, held, order, overlapped>>
    BY <2>1 DEF Goto, HandsOK, TypeOK, Writing, Using, Content
  <2>2. CASE Fail /\ UNCHANGED files
    BY <2>2, FailTypes, ZenonT(30) DEF Fail
  <2>3. QED
    BY <1>4, <2>1, <2>2 DEF FetchFails
<1>5. CASE ReadCert \/ ReadKey
  BY <1>5 DEF ReadCert, ReadKey, Goto, Watched, HandsOK, TypeOK, Writing, Using, Content
<1>6. CASE WriteCache
  BY <1>6 DEF WriteCache, Write, Written, Goto, Watched, HandsOK, TypeOK, Writing, Using, Content
<1>7. CASE UseForTls
  <2>1. FilesOK' /\ OrderOK'
    BY <1>0, <1>7 DEF UseForTls, FilesOK, OrderOK
  <2>2. MainOK'
    BY <1>0, <1>7 DEF UseForTls, Loaded, Nothing, MainOK, Using, Writing, Content
  <2>3. WatchOK' /\ HandsOK'
    BY <1>0, <1>7 DEF UseForTls, Register, Loaded, WatchOK, HandsOK, Writing
  <2>4. QED
    BY <2>1, <2>2, <2>3 DEF TypeOK, FilesOK, MainOK, WatchOK, OrderOK
<1>8. CASE UseForDtls
  <2>1. FilesOK' /\ OrderOK'
    BY <1>0, <1>8 DEF UseForDtls, FilesOK, OrderOK
  <2>2. MainOK'
    BY <1>0, <1>8 DEF UseForDtls, Loaded, Nothing, MainOK, Using, Writing, Content
  <2>3. WatchOK' /\ HandsOK'
    BY <1>0, <1>8 DEF UseForDtls, Register, Loaded, WatchOK, HandsOK, Writing
  <2>4. QED
    BY <2>1, <2>2, <2>3 DEF TypeOK, FilesOK, MainOK, WatchOK, OrderOK
<1>9. CASE OpenAccount \/ WriteAccount \/ PlaceOrder
  <2>1. CASE OpenAccount
    <3>1. FilesOK' /\ OrderOK'
      BY <1>0, <2>1, ZenonT(30) DEF OpenAccount, Goto, FilesOK, OrderOK
    <3>2. MainOK'
      BY <1>0, <2>1 DEF OpenAccount, Goto, MainOK, Using, Writing, Content
    <3>3. WatchOK' /\ HandsOK'
      BY <1>0, <2>1 DEF OpenAccount, Goto, WatchOK, HandsOK, MainOK, Writing
    <3>4. QED
      BY <3>1, <3>2, <3>3 DEF TypeOK, FilesOK, MainOK, WatchOK, OrderOK
  <2>2. CASE WriteAccount
    BY <2>2 DEF WriteAccount, Goto, HandsOK, TypeOK, Writing, Using, Content
  <2>3. CASE PlaceOrder
    BY <2>3 DEF PlaceOrder, Goto, HandsOK, TypeOK, Writing, Using, Content
  <2>4. QED
    BY <1>9, <2>1, <2>2, <2>3
<1>10. CASE Finalize
  <2>1. published + 1 \in Versions /\ published' \in 0..MaxVersion
    BY <1>10 DEF Finalize, Versions, TypeOK
  <2>2. FilesOK' /\ OrderOK'
    BY <1>0, <1>10, ZenonT(30) DEF Finalize, FilesOK, OrderOK
  <2>3. MainOK'
    BY <1>0, <1>10, <2>1 DEF Finalize, MainOK, Using, Writing, Content
  <2>4. WatchOK' /\ HandsOK'
    BY <1>0, <1>10, <2>1 DEF Finalize, WatchOK, HandsOK
  <2>5. QED
    BY <2>2, <2>3, <2>4 DEF TypeOK, FilesOK, MainOK, WatchOK, OrderOK
<1>11. CASE \E d \in Domains : InsertToken(d) \/ SetReady(d)
  <2>1. PICK d \in Domains : InsertToken(d) \/ SetReady(d)
    BY <1>11
  <2>2. store' \subseteq Domains /\ ready' \subseteq Domains
    BY <2>1 DEF InsertToken, SetReady, TypeOK
  <2>3. UNCHANGED <<setup, files, main, watch, plane, http01, valid>>
    BY <2>1 DEF InsertToken, SetReady
  <2>4. QED
    BY <2>2, <2>3 DEF main, HandsOK, TypeOK, Writing, Using, Content
<1>12. QED
  BY <1>1, <1>2, <1>3, <1>4, <1>5, <1>6, <1>7, <1>8, <1>9, <1>10, <1>11 DEF MainLoads

\* Every other step does.
LEMMA OtherTypes ==
    ASSUME TypeInv, Next, ~MainLoads
    PROVE  TypeInv'
<1> USE CertificatesAssumption DEF TypeInv, setup, files, main, plane, order, watch, ghosts, Watching
<1>1. CASE Start
  BY <1>1 DEF Start, HandsOK, TypeOK, Writing, Using, Content
<1>2. CASE Stop
  BY <1>2, FailTypes DEF Stop
<1>3. CASE Connect \/ Receive \/ ReceiveWithout \/ Ack \/ WatcherWriteFails \/ StreamCloses
  <2>1. UNCHANGED <<setup, files, main, watcher, published, order>>
    BY <1>3 DEF Connect, Receive, ReceiveWithout, Ack, WatcherWriteFails, StreamCloses
  <2>2. /\ wpc' \in {"connect", "stream", "apply", "ack"}
        /\ update' \in Nat /\ offered' \in Nat /\ acked' \in Nat /\ reply' \in Nat \cup {None}
        /\ wpc' = "apply" => update' \in Versions
    BY <1>3, SMTT(30) DEF Connect, Receive, ReceiveWithout, Ack, WatcherWriteFails, StreamCloses, TypeOK, Versions
  <2>3. watcher # None
    BY <1>3 DEF Connect, Receive, ReceiveWithout, Ack, WatcherWriteFails, StreamCloses, HandsOK, Writing
  <2>4. QED
    BY <2>1, <2>2, <2>3 DEF HandsOK, TypeOK, Writing, Using, Content
<1>4. CASE Apply
  BY <1>4 DEF Apply, HandsOK, TypeOK, Writing, Using, Content
<1>5. CASE WatcherWrites
  BY <1>5 DEF WatcherWrites, Write, Written, HandsOK, TypeOK, Writing, Using, Content
<1>6. CASE Publish \/ Respond \/ RespondWithout
  <2>1. UNCHANGED <<setup, files, main, watch, acked, order>>
    BY <1>6 DEF Publish, Respond, RespondWithout
  <2>2. published' \in 0..MaxVersion /\ offered' \in Nat /\ reply' \in Nat \cup {None}
    BY <1>6 DEF Publish, Respond, RespondWithout, TypeOK
  <2>3. QED
    BY <2>1, <2>2, SMTT(30) DEF HandsOK, TypeOK, Writing, Using, Content
<1>7. CASE BecomeDue
  BY <1>7 DEF BecomeDue, TypeOK, Versions, HandsOK, Writing, Using, Content
<1>8. CASE \E d \in Domains : Validate(d)
  BY <1>8 DEF Validate, HandsOK, TypeOK, Writing, Using, Content
<1>9. QED
  BY <1>1, <1>2, <1>3, <1>4, <1>5, <1>6, <1>7, <1>8 DEF Next, WatcherRuns

\* Types, and what main and the watcher have in hand, in every behaviour.
LEMMA TypeInvariant == Spec => []TypeInv
<1>1. Init => TypeInv
  <2>1. SUFFICES ASSUME Init PROVE FilesOK /\ MainOK /\ WatchOK /\ OrderOK /\ HandsOK
    BY TypeParts DEF TypeInv
  <2>2. FilesOK /\ OrderOK
    <3>1. cert \in Content \cup {None} /\ key = cert
      BY <2>1, CertificatesAssumption DEF Init, Content, Versions
    <3>2. QED
      BY <2>1, <3>1, ZenonT(30) DEF Init, FilesOK, OrderOK
  <2>3. MainOK
    BY <2>1, CertificatesAssumption DEF Init, MainOK, Nothing
  <2>4. WatchOK /\ HandsOK
    BY <2>1, CertificatesAssumption DEF Init, WatchOK, HandsOK, Writing
  <2>5. QED
    BY <2>2, <2>3, <2>4
<1>2. TypeInv /\ [Next]_vars => TypeInv'
  <2>1. SUFFICES ASSUME TypeInv, UNCHANGED vars PROVE TypeInv'
    BY MainTypes, OtherTypes
  <2>2. QED
    BY <2>1 DEF vars, setup, files, main, watch, plane, order, TypeInv, HandsOK, TypeOK
<1>3. QED
  BY <1>1, <1>2, PTL DEF Spec
-----------------------------------------------------------------------------
\* Challenges are ready only while the server that answers them listens.
ReadyInv ==
    /\ ready \subseteq store
    /\ ready # {} => http01
    /\ pc = "authorize" => http01

\* The state of the loader and of the watcher keeps its types, over restarts too.
THEOREM TypeCorrect == Spec => []TypeOK
<1>1. TypeInv => TypeOK
  BY DEF TypeInv
<1>2. QED
  BY <1>1, TypeInvariant, PTL

\* complete_http01_order sets a challenge ready after its token is stored, and the challenge
\* server ends, with all its tokens, only when the order does: the service never finds a
\* ready challenge without its token.
THEOREM ReadyChallengesAreAnswered == Spec => []ReadyIsAnswered
<1>1. Init => ReadyInv
  BY DEF Init, ReadyInv
<1>2. ReadyInv /\ [Next]_vars => ReadyInv'
  <2> SUFFICES ASSUME ReadyInv, [Next]_vars PROVE ReadyInv'
    OBVIOUS
  <2> USE DEF ReadyInv, order, main
  <2>1. CASE Gone \/ Fail
    BY <2>1 DEF Gone, Fail, Loaded
  <2>2. ASSUME NEW next, Goto(next), next # "authorize", UNCHANGED order PROVE ReadyInv'
    BY <2>2 DEF Goto
  <2>3. CASE UNCHANGED <<order, pc>>
    BY <2>3
  <2>4. CASE MainLoads
    <3>1. CASE Load \/ FetchSecret \/ ReadCert \/ ReadKey \/ OpenAccount \/ WriteAccount
      BY <2>2, <3>1 DEF Load, FetchSecret, ReadCert, ReadKey, OpenAccount, WriteAccount
    <3>2. CASE LoadFails \/ FetchUnparsable \/ FetchFails \/ WriteFails \/ UseFails \/ AcmeFails
      BY <2>1, <2>2, <3>2 DEF LoadFails, FetchUnparsable, FetchFails, WriteFails, UseFails, AcmeFails
    <3>3. CASE WriteCache
      BY <2>2, <3>3, SMTT(30) DEF WriteCache, Writing
    <3>4. CASE UseForTls \/ UseForDtls
      BY <3>4 DEF UseForTls, UseForDtls, Loaded
    <3>5. CASE PlaceOrder \/ Finalize
      BY <3>5 DEF PlaceOrder, Goto, Finalize
    <3>6. CASE \E d \in Domains : InsertToken(d) \/ SetReady(d)
      BY <3>6 DEF InsertToken, SetReady
    <3>7. QED
      BY <2>4, <3>1, <3>2, <3>3, <3>4, <3>5, <3>6 DEF MainLoads
  <2>5. CASE Start \/ Stop
    BY <2>1, <2>5 DEF Start, Stop
  <2>6. CASE WatcherRuns \/ WatcherWriteFails \/ StreamCloses
    BY <2>3, <2>6 DEF WatcherRuns, Connect, Receive, ReceiveWithout, Apply, WatcherWrites, Ack,
                      WatcherWriteFails, StreamCloses, Watching
  <2>7. CASE Publish \/ Respond \/ RespondWithout \/ BecomeDue
    BY <2>3, <2>7 DEF Publish, Respond, RespondWithout, BecomeDue
  <2>8. CASE \E d \in Domains : Validate(d)
    BY <2>8 DEF Validate
  <2>9. CASE UNCHANGED vars
    BY <2>3, <2>9 DEF vars
  <2>10. QED
    BY <2>4, <2>5, <2>6, <2>7, <2>8, <2>9 DEF Next
<1>3. ReadyInv => ReadyIsAnswered
  BY DEF ReadyInv, ReadyIsAnswered, Answers
<1>4. QED
  BY <1>1, <1>2, <1>3, PTL DEF Spec
-----------------------------------------------------------------------------
\* The three steps of a write at which the files are no pair.
Mid == {"cert_write", "key_open", "key_write"}

\* What the files hold when the only writer of the pair v stands at one of its steps.
PairAt(at, v) ==
    /\ at \notin Mid => cert = key /\ cert # Broken
    /\ at = "cert_write" => cert = Empty
    /\ at \in {"key_open", "key_write"} => cert = v
    /\ at = "key_write" => key = Empty

\* Without a cut or an overlap one of main and the watcher has not begun to write, and the
\* files are what the other makes of them; what main has read is what the files held.
PairOK ==
    /\ \/ pc \notin Mid /\ PairAt(wpc, update)
       \/ wpc \notin Mid /\ PairAt(pc, held.cert)
    /\ pc # "account_write" => account # Empty
    /\ pc = "read_key" => held.cert = cert /\ wpc \notin Mid
    /\ pc = "use" => held.cert = held.key
    /\ dtls \notin {SelfSigned, None} => dtls.cert = dtls.key
PairInv == ~cut /\ ~overlapped => PairOK

\* A step that begins or ends nothing at the files keeps them as they are.
LEMMA SameFiles ==
    ASSUME PairOK, UNCHANGED <<files, update, dtls>>,
           pc' \in Mid <=> pc \in Mid, pc \in Mid => pc' = pc /\ held' = held,
           wpc' \in Mid <=> wpc \in Mid, wpc \in Mid => wpc' = wpc,
           pc' \notin {"read_key", "use"} \/ (pc' = pc /\ held' = held),
           pc' # "account_write" => pc # "account_write"
    PROVE  PairOK'
BY DEF PairOK, PairAt, Mid, files

\* The end of the process, or of an attempt to load a certificate.
LEMMA FailPairs ==
    ASSUME TypeInv, PairInv, Gone \/ Fail, UNCHANGED <<files, overlapped>>
    PROVE  PairInv'
<1> SUFFICES ASSUME ~cut', ~overlapped' PROVE PairOK'
  BY DEF PairInv
<1>1. ~cut /\ pc \notin HalfWritten
  BY ZenonT(30) DEF Gone, Fail
<1>2. PairOK /\ pc \notin Mid \cup {"account_write"}
  BY <1>1 DEF PairInv, HalfWritten, Mid
<1>3. CASE Gone
  BY <1>3, <1>2, ZenonT(30) DEF Gone, HalfWritten, Mid, PairOK, PairAt, files
<1>4. CASE Fail /\ job # "tls"
  BY <1>2, <1>4 DEF Fail, Loaded, watch, PairOK, PairAt, Mid, files
<1>5. QED
  BY <1>3, <1>4, ZenonT(30) DEF Fail

\* The next step of a write of the pair v, the only one under way.
LEMMA WriteStep ==
    ASSUME NEW at, NEW next \in Writing \cup {"done"}, NEW v \in Versions, PairAt(at, v), Write(at, v, next)
    PROVE  \/ next = "done" /\ cert' = v /\ key' = v
           \/ /\ next \in Mid
              /\ next = "cert_write" => cert' = Empty
              /\ next # "cert_write" => cert' = v
              /\ next = "key_write" => key' = Empty
BY CertificatesAssumption DEF PairAt, Write, Written, Writing, Mid

\* Every step of main keeps the pairs together.
LEMMA MainPairs ==
    ASSUME TypeInv, PairInv, MainLoads
    PROVE  PairInv'
<1> SUFFICES ASSUME ~cut', ~overlapped' PROVE PairOK'
  BY DEF PairInv
<1>1. CASE LoadFails \/ FetchUnparsable \/ WriteFails \/ UseFails \/ AcmeFails \/ (Fail /\ UNCHANGED files)
  BY <1>1, FailPairs, ZenonT(30) DEF LoadFails, FetchUnparsable, WriteFails, UseFails, AcmeFails,
     Fail, PairInv
<1> USE DEF files, order, main, watch, ghosts
<1>2. CASE Load \/ FetchSecret \/ (pc = "fetch" /\ Goto("read_cert") /\ UNCHANGED <<files, overlapped>>)
  BY <1>2, SameFiles DEF Load, FetchSecret, Goto, PairInv, Mid
<1>3. CASE ReadCert
  BY <1>3, ZenonT(30) DEF ReadCert, Goto, Watched, PairInv, TypeInv, TypeOK, PairOK, PairAt, Mid,
     Writing
<1>4. CASE ReadKey
  BY <1>4, ZenonT(30) DEF ReadKey, Goto, Watched, PairInv, TypeInv, TypeOK, PairOK, PairAt, Mid,
     Writing
<1>5. CASE WriteCache
  <2>1. PICK next \in Writing \cup {"done"} :
            Write(pc, held.cert, next) /\ Goto(IF next = "done" THEN "use" ELSE next)
    BY <1>5, SMTT(30) DEF WriteCache
  <2>2. /\ PairOK /\ wpc \notin Writing /\ pc \in Writing
        /\ held.cert \in Versions /\ held.key = held.cert
        /\ UNCHANGED <<account, held, update, dtls, wpc>>
    BY <1>5, <2>1, ZenonT(30) DEF WriteCache, Goto, Watched, Write, Writing, PairInv, TypeInv, HandsOK
  <2>3. PairAt(pc, held.cert)
    BY <2>2 DEF PairOK, PairAt, Mid, Writing
  <2>4. \/ next = "done" /\ cert' = held.cert /\ key' = held.cert
        \/ /\ next \in Mid
           /\ next = "cert_write" => cert' = Empty
           /\ next # "cert_write" => cert' = held.cert
           /\ next = "key_write" => key' = Empty
    BY <2>1, <2>2, <2>3, WriteStep
  <2>5. pc' = IF next = "done" THEN "use" ELSE next
    BY <2>1 DEF Goto
  <2>6. held.cert # Broken
    BY <2>2, CertificatesAssumption DEF Versions
  <2>7. PairAt(pc, held.cert)'
    BY <2>2, <2>4, <2>5, <2>6 DEF PairAt, Mid
  <2>8. QED
    BY <2>2, <2>4, <2>5, <2>7 DEF PairOK, Mid, Writing
<1>6. CASE UseForTls
  BY <1>6 DEF UseForTls, Loaded, Register, PairInv, TypeInv, HandsOK, PairOK, PairAt, Mid
<1>7. CASE UseForDtls
  BY <1>7 DEF UseForDtls, Loaded, Register, PairInv, TypeInv, HandsOK, PairOK, PairAt, Mid
<1>8. CASE OpenAccount \/ WriteAccount \/ PlaceOrder
  BY <1>8, CertificatesAssumption DEF OpenAccount, WriteAccount, PlaceOrder, Goto, PairInv, PairOK,
     PairAt, Mid
<1>9. CASE Finalize
  BY <1>9, SameFiles DEF Finalize, PairInv, Mid
<1>10. CASE \E d \in Domains : InsertToken(d) \/ SetReady(d)
  BY <1>10 DEF InsertToken, SetReady, PairInv, PairOK, PairAt
<1>11. QED
  BY <1>1, <1>2, <1>3, <1>4, <1>5, <1>6, <1>7, <1>8, <1>9, <1>10 DEF MainLoads, FetchFails

\* Every other step does.
LEMMA OtherPairs ==
    ASSUME TypeInv, PairInv, Next, ~MainLoads
    PROVE  PairInv'
<1> SUFFICES ASSUME ~cut', ~overlapped' PROVE PairOK'
  BY DEF PairInv
<1> USE DEF files, main, watch, ghosts, Watching
<1>1. CASE Stop
  BY <1>1, FailPairs DEF Stop, PairInv
<1>2. CASE Start
  BY <1>2, SameFiles DEF Start, PairInv, Mid
<1>3. CASE Connect \/ Receive \/ ReceiveWithout \/ Apply \/ Ack \/ StreamCloses
  BY <1>3 DEF Connect, Receive, ReceiveWithout, Apply, Ack, StreamCloses, PairInv, Mid, PairOK,
     PairAt
<1>4. CASE WatcherWriteFails
  BY <1>4, SameFiles, ZenonT(30) DEF WatcherWriteFails, PairInv, Mid, HalfWritten
<1>5. CASE WatcherWrites
  <2>1. PICK next \in Writing \cup {"done"} :
            Write(wpc, update, next) /\ wpc' = IF next = "done" THEN "ack" ELSE next
    BY <1>5 DEF WatcherWrites
  <2>2. /\ PairOK /\ pc \notin Using /\ wpc \in Writing /\ update \in Versions
        /\ UNCHANGED <<account, pc, held, update, dtls>>
    BY <1>5, <2>1, ZenonT(30) DEF WatcherWrites, Write, Writing, PairInv, TypeInv, HandsOK
  <2>3. PairAt(wpc, update)
    BY <2>2 DEF PairOK, PairAt, Mid, Using, Writing
  <2>4. \/ next = "done" /\ cert' = update /\ key' = update
        \/ /\ next \in Mid
           /\ next = "cert_write" => cert' = Empty
           /\ next # "cert_write" => cert' = update
           /\ next = "key_write" => key' = Empty
    BY <2>1, <2>2, <2>3, WriteStep
  <2>5. update # Broken
    BY <2>2, CertificatesAssumption DEF Versions
  <2>6. PairAt(wpc, update)'
    BY <2>1, <2>2, <2>4, <2>5, SMTT(30) DEF PairAt, Mid
  <2>7. QED
    BY <2>2, <2>6 DEF PairOK, Mid, Using, Writing
<1>6. CASE \/ Publish \/ Respond \/ RespondWithout \/ BecomeDue
           \/ \E d \in Domains : Validate(d)
  BY <1>6 DEF Publish, Respond, RespondWithout, BecomeDue, Validate, PairInv, PairOK, PairAt
<1>7. QED
  BY <1>1, <1>2, <1>3, <1>4, <1>5, <1>6 DEF Next, WatcherRuns

\* The pairs stay together in every behaviour.
LEMMA PairInvariant == Spec => []PairInv
<1>1. Init => PairInv
  BY CertificatesAssumption, SMTT(30) DEF Init, PairInv, PairOK, PairAt, Mid
<1>2. TypeInv /\ PairInv /\ [Next]_vars => PairInv'
  <2>1. SUFFICES ASSUME PairInv, UNCHANGED vars PROVE PairInv'
    BY MainPairs, OtherPairs
  <2>2. QED
    BY <2>1 DEF vars, files, main, watch, ghosts, PairInv, PairOK, PairAt
<1>3. QED
  BY <1>1, <1>2, TypeInvariant, PTL DEF Spec

\* write_cached_certificate leaves a chain and its key, load_or_create_account a whole file,
\* and DTLS presents a chain with its key, whatever the order of loads, updates, failures and
\* restarts, as long as no write is cut off and main and the watcher do not meet at the cache.
THEOREM PairsAreKept == Spec => []PairsStayTogether
<1>1. PairInv => PairsStayTogether
  BY ZenonT(30) DEF PairInv, PairOK, PairAt, PairsStayTogether, Mid, Writing
<1>2. QED
  BY <1>1, PairInvariant, PTL
-----------------------------------------------------------------------------
Handling == Writing \cup {"apply", "ack"}

\* Nothing is newer than what was published.
AgeOK ==
    /\ tls \in Nat => tls <= published
    /\ cert \in Nat => cert <= published
    /\ held.cert \in Nat => held.cert <= published
    /\ reply \in Nat => reply <= published
    /\ update <= published
    /\ promised \in Nat /\ promised <= published

\* Who may run: no watcher before the TLS listener has its certificate, and then that of TLS.
WatcherOK ==
    /\ pc = "down" \/ job = "tls" => watcher = None /\ tls = None
    /\ watcher = None => reply = None /\ acked = 0
    /\ watcher # None => source = "sds"
    /\ tls # None /\ source = "sds" => watcher = "tls"

\* Secrets come in the order they were published, on one stream and from one to the next.
StreamOK ==
    /\ reply \notin {None, 0} =>
         /\ reply >= promised
         /\ tls # None => reply >= tls
         /\ wpc \in Handling => reply >= update
    /\ wpc \in Handling /\ update # 0 => update >= promised
    /\ wpc = "apply" /\ tls # None => update >= tls
    /\ wpc \in Writing \cup {"ack"} /\ update # 0 =>
         update \notin Unparsable /\ (watcher = "tls" => tls = update)
    /\ acked # 0 => acked \notin Unparsable /\ acked <= promised
    /\ acked # 0 /\ watcher = "tls" /\ (wpc = "stream" \/ (wpc = "ack" /\ update = 0)) => tls = acked

SecretInv == AgeOK /\ WatcherOK /\ StreamOK

\* Without a cut or an overlap the cache, or who writes it, has the newest secret that was
\* acknowledged, and so has the TLS listener.
CacheOK ==
    /\ pc \notin Mid /\ wpc \notin Mid /\ promised # 0 => cert \in Versions /\ cert >= promised
    /\ pc \in Writing => held.cert >= promised /\ (wpc = "ack" => held.cert >= update)
    /\ wpc = "ack" /\ pc \notin Mid /\ update # 0 => cert \in Versions /\ cert >= update
    /\ pc = "use" /\ job = "tls" /\ promised # 0 => held.cert \in Versions /\ held.cert >= promised
    /\ tls # None => tls >= promised
CacheInv == ~cut /\ ~overlapped => CacheOK

\* The types the next proofs use.
LEMMA Numbers ==
    ASSUME TypeInv
    PROVE  /\ published \in Nat /\ update \in Nat /\ acked \in Nat /\ MaxVersion \in Nat
           /\ reply \in Nat \cup {None} /\ tls \in Nat \cup {None}
           /\ held = [cert |-> held.cert, key |-> held.key]
           /\ Versions \subseteq Nat /\ 0 \notin Versions
           /\ None \notin Nat /\ Empty \notin Nat /\ Broken \notin Nat
BY CertificatesAssumption DEF TypeInv, TypeOK, Versions

\* The end of the process, or of an attempt to load a certificate.
LEMMA FailSecrets ==
    ASSUME TypeInv, SecretInv, Gone \/ Fail, UNCHANGED <<files, source, published, promised>>
    PROVE  SecretInv'
<1> USE DEF SecretInv, files, Nothing
<1>1. CASE Gone
  BY <1>1, Numbers DEF Gone, AgeOK, WatcherOK, StreamOK, Handling, Writing
<1>2. CASE Fail /\ job # "tls"
  BY <1>2, Numbers, CertificatesAssumption DEF Fail, Loaded, watch, AgeOK, WatcherOK, StreamOK
<1>3. QED
  BY <1>1, <1>2, ZenonT(30) DEF Fail

\* A step of main that only moves on, or takes what is cached or published in hand.
LEMMA MoveSecrets ==
    ASSUME TypeInv, SecretInv, UNCHANGED <<source, tls, watcher, wpc, update, reply, acked, promised>>,
           pc' = "down" => pc = "down", job' = "tls" => job = "tls",
           published' \in Nat, published' >= published,
           held'.cert \in {held.cert, cert, published', None}, cert' \in {cert, held.cert, Empty, Broken}
    PROVE  SecretInv'
  BY Numbers DEF SecretInv, AgeOK, WatcherOK, StreamOK

\* Every step of main keeps the order of the secrets.
LEMMA MainSecrets ==
    ASSUME TypeInv, SecretInv, MainLoads
    PROVE  SecretInv'
<1> USE Numbers DEF setup, files, order, main, watch, plane, ghosts
<1>1. CASE LoadFails \/ FetchUnparsable \/ WriteFails \/ UseFails \/ AcmeFails \/ (Fail /\ UNCHANGED files)
  BY <1>1, FailSecrets, ZenonT(30) DEF LoadFails, FetchUnparsable, WriteFails, UseFails, AcmeFails,
     Fail
<1>2. ASSUME NEW next, Goto(next), next # "down",
             held'.cert \in {held.cert, cert, published}, cert' \in {cert, held.cert, Empty, Broken}
      PROVE SecretInv'
  BY <1>2, MoveSecrets, SMTT(30) DEF Goto
<1>3. CASE Load \/ FetchSecret \/ OpenAccount \/ WriteAccount \/ PlaceOrder
  BY <1>2, <1>3 DEF Load, FetchSecret, OpenAccount, WriteAccount, PlaceOrder
<1>4. CASE Goto("read_cert") /\ UNCHANGED <<files, held>>
  BY <1>2, <1>4
<1>5. CASE ReadCert \/ ReadKey
  BY <1>2, <1>5 DEF ReadCert, ReadKey
<1>6. CASE WriteCache
  BY <1>6, <1>2 DEF WriteCache, Write, Written, Writing
<1>7. CASE UseForTls
  <2>1. /\ pc' \in {"load", "up"} /\ job' \in {"dtls", None} /\ held' = Nothing /\ tls' = held.cert
        /\ held.cert \in Versions
        /\ watcher = None /\ wpc = "off" /\ reply = None /\ acked = 0
        /\ watcher' = IF source = "sds" THEN "tls" ELSE None
        /\ wpc' \in {"off", "connect"}
        /\ UNCHANGED <<source, cert, update, reply, acked, published, promised>>
    BY <1>7 DEF UseForTls, Loaded, Register, SecretInv, WatcherOK, TypeInv, HandsOK
  <2>2. AgeOK'
    BY <2>1 DEF SecretInv, AgeOK, Nothing
  <2>3. WatcherOK' /\ StreamOK'
    BY <2>1, CertificatesAssumption DEF WatcherOK, StreamOK, Handling, Writing
  <2>4. QED
    BY <2>2, <2>3, SMTT(30) DEF SecretInv
<1>8. CASE UseForDtls
  BY <1>8, CertificatesAssumption DEF UseForDtls, Loaded, Register, SecretInv, AgeOK, Nothing,
     WatcherOK, StreamOK, Handling, Writing
<1>9. CASE Finalize
  BY <1>9, MoveSecrets DEF Finalize
<1>10. CASE \E d \in Domains : InsertToken(d) \/ SetReady(d)
  BY <1>10, MoveSecrets DEF InsertToken, SetReady
<1>11. QED
  BY <1>1, <1>3, <1>4, <1>5, <1>6, <1>7, <1>8, <1>9, <1>10 DEF MainLoads, FetchFails

\* Every other step does.
LEMMA OtherSecrets ==
    ASSUME TypeInv, SecretInv, Next, ~MainLoads
    PROVE  SecretInv'
<1> USE Numbers DEF setup, files, order, main, watch, plane, ghosts, Watching
<1>1. CASE Stop
  BY <1>1, FailSecrets DEF Stop
<1>2. CASE Start
  BY <1>2 DEF Start, SecretInv, AgeOK, StreamOK, WatcherOK
<1>3. CASE Connect \/ StreamCloses \/ WatcherWriteFails
  BY <1>3 DEF Connect, StreamCloses, WatcherWriteFails, SecretInv, AgeOK, WatcherOK, StreamOK,
     Handling, Writing
<1>4. CASE Receive \/ ReceiveWithout
  BY <1>4 DEF Receive, ReceiveWithout, SecretInv, AgeOK, WatcherOK, StreamOK, Handling, Writing
<1>5. CASE Apply
  BY <1>5 DEF Apply, TypeInv, HandsOK, SecretInv, AgeOK, WatcherOK, StreamOK, Handling, Writing
<1>6. CASE WatcherWrites
  <2>1. /\ wpc \in Writing /\ wpc' \in Writing \cup {"ack"} /\ update \in Versions
        /\ cert' \in {cert, update, Empty, Broken}
        /\ UNCHANGED <<source, main, watcher, update, reply, acked, published, promised>>
    BY <1>6 DEF WatcherWrites, Write, Written, TypeInv, HandsOK, Writing
  <2>2. AgeOK' /\ WatcherOK'
    BY <2>1, SMTT(30) DEF SecretInv, AgeOK, WatcherOK
  <2>3. StreamOK'
    BY <2>1 DEF SecretInv, StreamOK, Handling, Writing
  <2>4. QED
    BY <2>2, <2>3 DEF SecretInv
<1>7. CASE Ack
  BY <1>7 DEF Ack, TypeInv, HandsOK, SecretInv, AgeOK, WatcherOK, StreamOK, Handling, Writing
<1>8. CASE Publish
  BY <1>8 DEF Publish, SecretInv, AgeOK, WatcherOK, StreamOK
<1>9. CASE Respond \/ RespondWithout
  BY <1>9 DEF Respond, RespondWithout, TypeInv, HandsOK, SecretInv, AgeOK, WatcherOK, StreamOK
<1>10. CASE BecomeDue \/ \E d \in Domains : Validate(d)
  BY <1>10 DEF BecomeDue, Validate, SecretInv, AgeOK, WatcherOK, StreamOK
<1>11. QED
  BY <1>1, <1>2, <1>3, <1>4, <1>5, <1>6, <1>7, <1>8, <1>9, <1>10 DEF Next, WatcherRuns

\* Secrets are received, applied and acknowledged in the order of their publication.
LEMMA SecretInvariant == Spec => []SecretInv
<1>1. Init => SecretInv
  BY CertificatesAssumption, SMTT(30) DEF Init, SecretInv, AgeOK, WatcherOK, StreamOK, Nothing, Handling, Writing
<1>2. TypeInv /\ SecretInv /\ [Next]_vars => SecretInv'
  <2>1. SUFFICES ASSUME SecretInv, UNCHANGED vars PROVE SecretInv'
    BY MainSecrets, OtherSecrets
  <2>2. QED
    BY <2>1 DEF vars, setup, files, main, watch, plane, ghosts, SecretInv, AgeOK, WatcherOK, StreamOK
<1>3. QED
  BY <1>1, <1>2, TypeInvariant, PTL DEF Spec

\* A running TLS listener never goes back to an older certificate: what update_from_pem is
\* called with is newer than what it replaces, on one stream and from one to the next.
THEOREM TlsNeverGoesBack == Spec => NeverOlder
<1>1. ASSUME TypeInv, SecretInv, [Next]_vars
      PROVE  [tls # None /\ tls' # None => tls' >= tls]_vars
  <2>1. ASSUME tls # None, tls' # None PROVE tls' >= tls
    <3>1. CASE tls' = tls
      BY <2>1, <3>1, <1>1, Numbers
    <3>2. CASE Apply
      BY <1>1, <2>1, <3>2, Numbers, SMTT(30) DEF Apply, SecretInv, StreamOK
    <3>3. CASE UseForTls
      BY <1>1, <2>1, <3>3, ZenonT(30) DEF UseForTls, SecretInv, WatcherOK
    <3>4. tls' = tls \/ Apply \/ UseForTls
      <4>1. CASE Gone \/ Fail
        BY <2>1, <4>1 DEF Gone, Fail
      <4>2. ASSUME NEW next, Goto(next) PROVE tls' = tls
        BY <4>2 DEF Goto
      <4>3. CASE MainLoads
        BY <4>1, <4>2, <4>3, ZenonT(30) DEF MainLoads, Load, LoadFails, FetchSecret, FetchUnparsable, FetchFails,
              ReadCert, ReadKey, WriteCache, WriteFails, UseForDtls, UseFails, OpenAccount, WriteAccount,
              PlaceOrder, Finalize, AcmeFails, InsertToken, SetReady, main
      <4>4. CASE Next /\ ~MainLoads
        BY <4>1, <4>4 DEF Next, Start, Stop, WatcherRuns, Connect, Receive, ReceiveWithout, WatcherWrites, Ack,
              WatcherWriteFails, StreamCloses, Publish, Respond, RespondWithout, BecomeDue, Validate, Watching, main
      <4>5. CASE UNCHANGED vars
        BY <4>5 DEF vars, main
      <4>6. QED
        BY <1>1, <4>3, <4>4, <4>5
    <3>5. QED
      BY <3>1, <3>2, <3>3, <3>4
  <2>2. QED
    BY <2>1
<1>2. QED
  BY <1>1, TypeInvariant, SecretInvariant, PTL DEF Spec, NeverOlder

\* The end of the process, or of an attempt to load a certificate.
LEMMA FailCache ==
    ASSUME TypeInv, CacheInv, Gone \/ Fail, UNCHANGED <<files, overlapped, promised>>
    PROVE  CacheInv'
<1> SUFFICES ASSUME ~cut', ~overlapped' PROVE CacheOK'
  BY DEF CacheInv
<1>1. CacheOK /\ pc \notin Mid
  BY ZenonT(30) DEF Gone, Fail, CacheInv, HalfWritten, Mid
<1>2. CASE Gone
  BY <1>2, <1>1, ZenonT(30) DEF Gone, HalfWritten, Mid, CacheOK, Writing, files
<1>3. CASE Fail /\ job # "tls"
  BY <1>1, <1>3, CertificatesAssumption, ZenonT(30) DEF Fail, Loaded, watch, CacheOK, Mid, Writing, files
<1>4. QED
  BY <1>2, <1>3, ZenonT(30) DEF Fail

\* A step that takes nothing in hand, writes nothing and acknowledges nothing.
LEMMA SameCache ==
    ASSUME CacheOK, UNCHANGED <<cert, tls, promised>>, pc' \notin Writing \cup {"use"}, pc \notin Mid,
           \/ UNCHANGED <<wpc, update>>
           \/ wpc' \notin Mid \cup {"ack"} /\ wpc \notin Mid
    PROVE  CacheOK'
BY DEF CacheOK, Mid, Writing

\* Every step of main keeps the newest secret acknowledged in the cache.
LEMMA MainCache ==
    ASSUME TypeInv, PairInv, SecretInv, CacheInv, MainLoads
    PROVE  CacheInv'
<1> USE Numbers DEF files, order, main, watch, ghosts
<1> SUFFICES ASSUME ~cut', ~overlapped' PROVE CacheOK'
  BY DEF CacheInv
<1>1. CASE LoadFails \/ FetchUnparsable \/ WriteFails \/ UseFails \/ AcmeFails \/ (Fail /\ UNCHANGED files)
  BY <1>1, FailCache, ZenonT(30) DEF LoadFails, FetchUnparsable, WriteFails, UseFails, AcmeFails,
     Fail, CacheInv
<1>2. CASE Load \/ ReadCert \/ OpenAccount \/ WriteAccount \/ PlaceOrder
           \/ (pc = "fetch" /\ Goto("read_cert") /\ UNCHANGED <<files, overlapped>>)
  BY <1>2, SameCache, ZenonT(30) DEF Load, ReadCert, OpenAccount, WriteAccount, PlaceOrder, Goto,
     Watched, CacheInv, Mid, Writing
<1>3. CASE FetchSecret \/ Finalize
  BY <1>3 DEF FetchSecret, Finalize, Goto, CacheInv, SecretInv, AgeOK, Mid, CacheOK, Writing
<1>4. CASE ReadKey
  BY <1>4, ZenonT(30) DEF ReadKey, Goto, Watched, CacheInv, PairInv, PairOK, CacheOK, Mid, Writing
<1>5. CASE WriteCache
  <2>1. PICK next \in Writing \cup {"done"} :
            Write(pc, held.cert, next) /\ Goto(IF next = "done" THEN "use" ELSE next)
    BY <1>5 DEF WriteCache
  <2>2. /\ CacheOK /\ PairOK /\ wpc \notin Writing /\ pc \in Writing /\ held.cert \in Versions
        /\ pc' = IF next = "done" THEN "use" ELSE next
        /\ UNCHANGED <<held, tls, promised, wpc, update>>
    BY <1>5, <2>1, ZenonT(30) DEF WriteCache, Goto, Watched, Write, Writing, CacheInv, PairInv, TypeInv, HandsOK
  <2>3. PairAt(pc, held.cert)
    BY <2>2 DEF PairOK, PairAt, Mid, Writing
  <2>4. next \in Mid \/ (next = "done" /\ cert' = held.cert)
    BY <2>1, <2>2, <2>3, WriteStep
  <2>5. held.cert >= promised /\ (wpc = "ack" => held.cert >= update)
    BY <2>2 DEF CacheOK
  <2>6. QED
    BY <2>2, <2>4, <2>5 DEF CacheOK, Mid, Writing
<1>6. CASE UseForTls
  <2>1. /\ CacheOK /\ pc = "use" /\ job = "tls" /\ tls' = held.cert /\ held.cert \in Versions
        /\ pc' \in {"load", "up"} /\ wpc = "off" /\ wpc' \in {"off", "connect"}
        /\ UNCHANGED <<cert, promised>>
    BY <1>6 DEF UseForTls, Loaded, Register, CacheInv, SecretInv, WatcherOK, TypeInv, HandsOK
  <2>2. tls' >= promised
    BY <2>1 DEF CacheOK, SecretInv, AgeOK
  <2>3. QED
    BY <2>1, <2>2 DEF CacheOK, Mid, Writing
<1>7. CASE UseForDtls
  BY <1>7, SameCache DEF UseForDtls, Loaded, Register, CacheInv, TypeInv, HandsOK, Mid, Writing
<1>8. CASE \E d \in Domains : InsertToken(d) \/ SetReady(d)
  BY <1>8, SameCache DEF InsertToken, SetReady, CacheInv, Mid, Writing
<1>9. QED
  BY <1>1, <1>2, <1>3, <1>4, <1>5, <1>6, <1>7, <1>8 DEF MainLoads, FetchFails

\* Every other step does.
LEMMA OtherCache ==
    ASSUME TypeInv, PairInv, SecretInv, CacheInv, Next, ~MainLoads
    PROVE  CacheInv'
<1> USE Numbers DEF files, main, watch, ghosts, Watching
<1> SUFFICES ASSUME ~cut', ~overlapped' PROVE CacheOK'
  BY DEF CacheInv
<1>1. CASE Stop
  BY <1>1, FailCache DEF Stop, CacheInv
<1>2. CASE Start
  BY <1>2, SameCache DEF Start, CacheInv, Mid, Writing
<1>3. CASE Connect \/ Receive \/ StreamCloses \/ WatcherWriteFails
  BY <1>3, ZenonT(30) DEF Connect, Receive, StreamCloses, WatcherWriteFails, CacheInv, Mid,
     HalfWritten, CacheOK
<1>4. CASE ReceiveWithout
  BY <1>4 DEF ReceiveWithout, CacheInv, TypeInv, HandsOK, CacheOK, Mid
<1>5. CASE Apply
  BY <1>5 DEF Apply, CacheInv, TypeInv, HandsOK, SecretInv, StreamOK, Handling, CacheOK, Mid
<1>6. CASE WatcherWrites
  <2>1. PICK next \in Writing \cup {"done"} :
            Write(wpc, update, next) /\ wpc' = IF next = "done" THEN "ack" ELSE next
    BY <1>6, SMTT(30) DEF WatcherWrites
  <2>2. /\ CacheOK /\ PairOK /\ pc \notin Using /\ wpc \in Writing /\ update \in Versions
        /\ UNCHANGED <<main, update, promised>>
    BY <1>6, <2>1, ZenonT(30) DEF WatcherWrites, Write, Writing, CacheInv, PairInv, TypeInv, HandsOK
  <2>3. PairAt(wpc, update)
    BY <2>2 DEF PairOK, PairAt, Mid, Using, Writing
  <2>4. next \in Mid \/ (next = "done" /\ cert' = update)
    BY <2>1, <2>2, <2>3, WriteStep
  <2>5. update >= promised
    BY <2>2 DEF SecretInv, StreamOK, Handling
  <2>6. QED
    BY <2>1, <2>2, <2>4, <2>5 DEF CacheOK, Mid, Using, Writing
<1>7. CASE Ack
  <2>1. /\ CacheOK /\ wpc = "ack" /\ wpc' = "stream" /\ UNCHANGED <<cert, main>>
    BY <1>7, SMTT(30) DEF Ack, CacheInv
  <2>2. /\ promised \in Nat /\ acked <= promised /\ watcher # None
        /\ promised' = IF update > promised THEN update ELSE promised
    BY <1>7 DEF Ack, SecretInv, AgeOK, StreamOK, TypeInv, HandsOK
  <2>3. update # 0 /\ tls # None => tls = update
    BY <2>1, <2>2 DEF SecretInv, WatcherOK, StreamOK
  <2>4. pc \in Writing => held.cert \in Nat
    BY DEF TypeInv, HandsOK
  <2>5. pc = "use" /\ job = "tls" => FALSE
    BY <2>2 DEF SecretInv, WatcherOK
  <2>6. QED
    BY <2>1, <2>2, <2>3, <2>4, <2>5 DEF CacheOK, Mid, Versions
<1>8. CASE \/ Publish \/ Respond \/ RespondWithout \/ BecomeDue
           \/ \E d \in Domains : Validate(d)
  BY <1>8 DEF Publish, Respond, RespondWithout, BecomeDue, Validate, CacheInv, CacheOK
<1>9. QED
  BY <1>1, <1>2, <1>3, <1>4, <1>5, <1>6, <1>7, <1>8 DEF Next, WatcherRuns

\* The pairs and the newest secret acknowledged stay in the cache together.
LEMMA CacheInvariant == Spec => [](PairInv /\ CacheInv)
<1>1. Init => CacheInv
  BY CertificatesAssumption DEF Init, CacheInv, CacheOK, Mid, Writing
<1>2. TypeInv /\ PairInv /\ SecretInv /\ CacheInv /\ [Next]_vars => CacheInv'
  <2>1. SUFFICES ASSUME CacheInv, UNCHANGED vars PROVE CacheInv'
    BY MainCache, OtherCache
  <2>2. QED
    BY <2>1 DEF vars, files, main, watch, ghosts, CacheInv, CacheOK
<1>3. QED
  BY <1>1, <1>2, PairInvariant, TypeInvariant, SecretInvariant, PTL DEF Spec

\* "The stream ACKs valid updates": what the control plane saw acknowledged can be parsed, is
\* what new TLS handshakes get, and is cached, or a newer secret is.
THEOREM AckedSecretIsInUse == Spec => []AckedIsInUse
<1>1. TypeInv /\ SecretInv /\ PairInv /\ CacheInv => AckedIsInUse
  <2> SUFFICES ASSUME TypeInv, SecretInv, PairInv, CacheInv, wpc = "stream", acked # 0
               PROVE  /\ acked \notin Unparsable
                      /\ (watcher = "tls" => tls = acked)
                      /\ (~cut /\ ~overlapped /\ pc \notin Writing => cert >= acked /\ key >= acked)
    BY DEF AckedIsInUse
  <2>1. acked \notin Unparsable /\ (watcher = "tls" => tls = acked) /\ acked <= promised
    BY DEF SecretInv, StreamOK
  <2>2. ASSUME ~cut, ~overlapped, pc \notin Writing PROVE cert >= acked /\ key >= acked
    BY <2>1, <2>2, Numbers DEF CacheInv, CacheOK, SecretInv, AgeOK, Mid, Writing, PairInv, PairOK,
       PairAt
  <2>3. QED
    BY <2>1, <2>2
<1>2. QED
  BY <1>1, TypeInvariant, SecretInvariant, CacheInvariant, PTL

\* The cache as "startup fallback": after any number of ends and starts of the process and
\* with the control plane out of reach, TLS presents no older secret than one acknowledged.
THEOREM AckedSecretSurvivesRestart == Spec => []AckedSurvivesRestart
<1>1. CacheInv => AckedSurvivesRestart
  BY DEF CacheInv, CacheOK, AckedSurvivesRestart
<1>2. QED
  BY <1>1, CacheInvariant, PTL
-----------------------------------------------------------------------------
(* ACME: one certificate for each period                                   *)

\* Where main is on its way to a new order.
Ordering == {"account", "account_write", "order", "authorize"}

\* The last certificate issued is in both files, or is being written there; a new order is
\* under way only when there is none or it is due.
SavedOK ==
    /\ pc \notin Writing /\ published # 0 => cert = published /\ key = published
    /\ pc \in Writing => held.cert = published
    /\ pc = "cert_write" => cert = Empty
    /\ pc \in {"key_open", "key_write"} => cert = published
    /\ pc = "key_write" => key = Empty
    /\ pc \in Ordering => published = 0 \/ published \in due
    /\ pc # "fetch"
SavedInv == source = "letsencrypt" /\ ~cut => SavedOK

\* A step issues a certificate only when there is none or the last one is due.
IssuesForDue ==
    source = "letsencrypt" /\ published' > published /\ published > 0 /\ ~cut => published \in due

\* A step that issues nothing, writes nothing, and does not begin an order.
LEMMA SameSaved ==
    ASSUME SavedInv, UNCHANGED <<source, cert, key, published>>, cut => cut', due \subseteq due',
           source = "letsencrypt" /\ ~cut' => /\ pc' \in Writing <=> pc \in Writing
                                              /\ pc \in Writing => pc' = pc /\ held'.cert = held.cert
                                              /\ pc' \in Ordering => pc \in Ordering
                                              /\ pc' # "fetch"
    PROVE  SavedInv'
BY ZenonT(30) DEF SavedInv, SavedOK, Writing

\* The end of the process, or of an attempt to load a certificate.
LEMMA FailSaved ==
    ASSUME SavedInv, Gone \/ Fail, UNCHANGED <<source, due, files, published>>
    PROVE  SavedInv'
BY SameSaved, ZenonT(30) DEF Gone, Fail, HalfWritten, Writing, Loaded, files, Ordering

\* The watcher does nothing.
LEMMA AcmeHasNoWatcher ==
    ASSUME TypeInv, SecretInv, source = "letsencrypt"
    PROVE  wpc = "off"
BY DEF TypeInv, HandsOK, SecretInv, WatcherOK

\* A step of the write of the pair keeps track of it.
LEMMA WriteSaved ==
    ASSUME TypeInv, SavedInv, WriteCache
    PROVE  SavedInv'
<1> SUFFICES ASSUME source = "letsencrypt", ~cut, SavedOK PROVE SavedOK'
  BY DEF WriteCache, Goto, SavedInv, setup
<1>1. PICK next \in Writing \cup {"done"} :
          Write(pc, held.cert, next) /\ Goto(IF next = "done" THEN "use" ELSE next)
  BY DEF WriteCache
<1>2. held' = held /\ published' = published /\ pc' = (IF next = "done" THEN "use" ELSE next)
  BY <1>1 DEF WriteCache, Goto, plane
<1>3. CASE pc = "cert_open"
  BY <1>1, <1>2, <1>3 DEF Write, SavedOK, Writing, Ordering
<1>4. CASE pc = "cert_write"
  BY <1>1, <1>2, <1>4 DEF Write, Written, SavedOK, Writing, Ordering
<1>5. CASE pc = "key_open"
  BY <1>1, <1>2, <1>5 DEF Write, SavedOK, Writing, Ordering
<1>6. CASE pc = "key_write"
  BY <1>1, <1>2, <1>6 DEF Write, Written, SavedOK, Writing, Ordering
<1>7. QED
  BY <1>1, <1>3, <1>4, <1>5, <1>6 DEF Write

\* Every step of main.
LEMMA MainSaved ==
    ASSUME TypeInv, SavedInv, MainLoads
    PROVE  SavedInv' /\ IssuesForDue
<1> USE DEF setup, files, order, main, watch, plane, ghosts
<1>1. CASE LoadFails \/ FetchUnparsable \/ WriteFails \/ UseFails \/ AcmeFails \/ (Fail /\ UNCHANGED files)
  <2>1. Fail /\ UNCHANGED <<source, due, files, published>>
    BY <1>1 DEF LoadFails, FetchUnparsable, WriteFails, UseFails, AcmeFails, Fail
  <2>2. QED
    BY <2>1, FailSaved, Numbers DEF IssuesForDue
<1>2. ASSUME NEW next, Goto(next), UNCHANGED <<cert, key>>, pc \notin Writing, next \notin Writing \cup {"fetch"},
             next \in Ordering => pc \in Ordering
      PROVE  SavedInv' /\ IssuesForDue
  <2>1. UNCHANGED <<source, due, cert, key, published, cut>> /\ pc' = next
    BY <1>2, ZenonT(30) DEF Goto
  <2>2. SavedInv'
    BY <1>2, <2>1, SameSaved, ZenonT(30)
  <2>3. QED
    BY <2>1, <2>2, Numbers DEF IssuesForDue
<1>3. CASE Load
  <2>1. CASE Goto("fetch") /\ source = "sds"
    BY <2>1, <1>3 DEF Load, Goto, SavedInv, IssuesForDue
  <2>2. CASE Goto("read_cert")
    BY <1>2, <1>3, <2>2 DEF Load, Writing, Ordering
  <2>3. CASE source = "letsencrypt" /\ ~CacheUsable /\ ~CacheError /\ Goto("account")
    <3>1. UNCHANGED <<source, due, cert, key, published, held, cut>> /\ pc = "load" /\ pc' = "account"
      BY <1>3, <2>3 DEF Load, Goto
    <3>2. published # 0 /\ cert = published /\ key = published => published \in due
      BY <2>3, Numbers, CertificatesAssumption DEF CacheUsable, TypeInv, TypeOK, Versions
    <3>3. QED
      BY <3>1, <3>2, Numbers DEF SavedInv, SavedOK, Writing, Ordering, IssuesForDue
  <2>4. QED
    BY <1>3, <2>1, <2>2, <2>3 DEF Load
<1>4. CASE FetchSecret \/ FetchFails
  BY <1>4, Numbers, ZenonT(30) DEF FetchSecret, FetchFails, Goto, Fail, Gone, SavedInv, SavedOK,
     IssuesForDue
<1>5. CASE ReadCert \/ ReadKey \/ OpenAccount \/ WriteAccount \/ PlaceOrder
  BY <1>2, <1>5 DEF ReadCert, ReadKey, OpenAccount, WriteAccount, PlaceOrder, Writing, Ordering
<1>6. CASE WriteCache
  BY <1>6, WriteSaved, Numbers DEF WriteCache, Goto, IssuesForDue
<1>7. CASE UseForTls \/ UseForDtls
  BY <1>7, SameSaved, Numbers DEF UseForTls, UseForDtls, Loaded, Writing, Ordering, IssuesForDue
<1>8. CASE Finalize
  BY <1>8, Numbers DEF Finalize, SavedInv, SavedOK, Writing, Ordering, IssuesForDue
<1>9. CASE \E d \in Domains : InsertToken(d) \/ SetReady(d)
  BY <1>9, SameSaved, Numbers DEF InsertToken, SetReady, IssuesForDue, SavedInv, SavedOK
<1>10. QED
  BY <1>1, <1>3, <1>4, <1>5, <1>6, <1>7, <1>8, <1>9 DEF MainLoads

\* The other steps, of which only Publish issues anything, and not for ACME.
LEMMA OtherSaved ==
    ASSUME TypeInv, SecretInv, SavedInv, [Next]_vars, ~MainLoads
    PROVE  SavedInv' /\ IssuesForDue
<1> USE DEF setup, files, order, main, watch, plane, ghosts
<1>1. ASSUME UNCHANGED <<source, cert, key, published, cut, pc, held>>, due \subseteq due'
      PROVE  SavedInv' /\ IssuesForDue
  BY <1>1, SameSaved, Numbers DEF IssuesForDue, SavedInv, SavedOK
<1>2. CASE Start
  BY <1>2, SameSaved, Numbers DEF Start, Writing, Ordering, IssuesForDue
<1>3. CASE Stop
  BY <1>3, FailSaved, Numbers DEF Stop, IssuesForDue
<1>4. CASE WatcherRuns \/ WatcherWriteFails \/ StreamCloses \/ Publish \/ Respond \/ RespondWithout
  <2>1. source # "letsencrypt"
    BY <1>4, AcmeHasNoWatcher, ZenonT(30) DEF WatcherRuns, Connect, Receive, ReceiveWithout, Apply, WatcherWrites,
       Write, Ack, WatcherWriteFails, StreamCloses, Publish, Respond, RespondWithout, Writing
  <2>2. source' = source
    BY <1>4, ZenonT(30) DEF WatcherRuns, Connect, Receive, ReceiveWithout, Apply, WatcherWrites,
       Ack, WatcherWriteFails, StreamCloses, Publish, Respond, RespondWithout, Watching
  <2>3. QED
    BY <2>1, <2>2, ZenonT(30) DEF SavedInv, IssuesForDue
<1>5. CASE BecomeDue \/ \E d \in Domains : Validate(d)
  BY <1>1, <1>5, ZenonT(30) DEF BecomeDue, Validate
<1>6. CASE UNCHANGED vars
  BY <1>1, <1>6 DEF vars
<1>7. QED
  BY <1>2, <1>3, <1>4, <1>5, <1>6 DEF Next

\* provision_letsencrypt, for any number of starts, listeners and certificates: while what was
\* issued could be saved whole, another certificate is issued only when the last one is due.
THEOREM IssuedWhenDue == Spec => IssuedOncePerPeriod
<1>1. Init => SavedInv
  BY DEF Init, SavedInv, SavedOK, Writing, Ordering
<1>2. TypeInv /\ SecretInv /\ SavedInv /\ [Next]_vars => SavedInv' /\ IssuesForDue
  BY MainSaved, OtherSaved
<1>3. QED
  BY <1>1, <1>2, TypeInvariant, SecretInvariant, PTL DEF Spec, IssuedOncePerPeriod, IssuesForDue
=============================================================================
