----------------------------- MODULE MCWireFormat -----------------------------
(***************************************************************************)
(* Small instances of WireFormat for model checking.                       *)
(***************************************************************************)
EXTENDS WireFormat

Tid == <<1, 2, 3, 4, 5, 6, 7, 8, 9, 10, 11, 255>>

\* A value of n bytes.
Value(n) == [i \in 1..n |-> 250 + i]

Attr(type, n) == [type |-> type, value |-> Value(n)]

\* Every method with every class, and attributes of every length modulo 4.
Messages ==
    {Message(m, c, Tid, <<>>) : m \in DOMAIN Method, c \in DOMAIN EventType}
    \cup {Message("Allocate", "Request", Tid, <<Attr(6, n)>>) : n \in 0..5}
    \cup {Message("Send", "Indication", Tid, <<Attr(18, k), Attr(19, n)>>) : k \in {3, 4}, n \in {1, 2}}

V4 == {[family |-> 4, port |-> p, ip |-> ip] : p \in {0, 49152, 65535}, ip \in {<<0, 0, 0, 0>>, <<192, 0, 2, 1>>}}
V6 == {[family |-> 6, port |-> 49152, ip |-> None]}

AllItems ==
    {[kind |-> "message", msg |-> m] : m \in Messages}
    \cup {[kind |-> "legacy", tid |-> Tid \o <<1, 2, 3, 4>>]}
    \cup {[kind |-> "unpadded", msg |-> Message("Send", "Request", Tid, <<Attr(19, n)>>)] : n \in {1, 3}}
    \cup {[kind |-> "channel", number |-> ch, payload |-> Value(n)] : ch \in {16384, 32767}, n \in 0..5}
    \cup {[kind |-> "binding", tid |-> Tid, addr |-> a] : a \in V4 \cup V6}
    \cup {[kind |-> "error", tid |-> Tid, code |-> c, reason |-> Value(n)] : c \in {300, 401, 487, 508}, n \in {0, 3}}
    \cup {[kind |-> "allocated", tid |-> Tid, relayed |-> [family |-> 4, port |-> 49152, ip |-> <<192, 0, 2, 1>>],
           client |-> a, lifetime |-> 600, realm |-> Value(n), software |-> Value(3)] :
             a \in {[family |-> 4, port |-> 5060, ip |-> <<10, 255, 0, 1>>]} \cup V6, n \in {4, 5}}
    \cup {[kind |-> "refreshed", tid |-> Tid, lifetime |-> n] : n \in {0, 600, 2147483647}}
    \cup {[kind |-> "data", tid |-> Tid, addr |-> a, payload |-> Value(n)] : a \in V4, n \in {0, 2}}
=============================================================================
