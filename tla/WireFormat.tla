------------------------------ MODULE WireFormat ------------------------------
(***************************************************************************)
(* What travels between client and server: STUN messages and ChannelData   *)
(* frames as bytes, over datagrams, or over a stream that the reader gets  *)
(* in pieces of any size.  Either side may be the writer; frames are       *)
(* written with write_stream_frame and taken apart again with              *)
(* extract_stream_frame.  Messages are well formed.                        *)
(***************************************************************************)
EXTENDS Integers, Sequences, SequencesExt, Bitwise

CONSTANTS Items,     \* what may be written
          MaxItems,  \* bound on their number
          None

VARIABLES transport,  \* "stream" or "datagram"
          sent,       \* the items written
          wire,       \* bytes written and not yet read
          buf,        \* buf of the connection task
          got         \* what has been decoded, in order

vars == <<transport, sent, wire, buf, got>>
-----------------------------------------------------------------------------
(* Numbers and addresses                                                   *)

Byte == 0..255
U16(n) == <<(n \div 256) % 256, n % 256>>
U32(n) == U16(n \div 65536) \o U16(n % 65536)

\* The big-endian number in the two bytes after offset.
U16At(data, offset) == data[offset + 1] * 256 + data[offset + 2]

\* Bytes offset..offset+length-1, counted from 0.
Slice(data, offset, length) == SubSeq(data, offset + 1, offset + length)

Zeros(n) == [i \in 1..n |-> 0]
Cookie == <<33, 18, 164, 66>>
CookieHigh == 8466   \* magic_cookie >> 16

XorBytes(a, b) == [i \in 1..Len(b) |-> a[i] ^^ b[i]]

\* An IPv6 address is reduced to its family and port.
EncodeXorAddress(addr) ==
    IF addr.family = 4
    THEN <<0, 1>> \o U16(addr.port ^^ CookieHigh) \o XorBytes(addr.ip, Cookie)
    ELSE <<0, 2>> \o U16(addr.port ^^ CookieHigh) \o Zeros(4)

DecodeXorAddress(data) ==
    IF Len(data) < 8 \/ data[2] # 1 THEN None
    ELSE [family |-> 4, port |-> U16At(data, 2) ^^ CookieHigh, ip |-> XorBytes(Slice(data, 4, 4), Cookie)]
-----------------------------------------------------------------------------
(* Messages                                                                *)

Method == [Binding |-> 1, Allocate |-> 3, Refresh |-> 4, Send |-> 6, Data |-> 7,
           CreatePermission |-> 8, ChannelBind |-> 9]
EventType == [Request |-> 0, Indication |-> 1, Success |-> 2, Error |-> 3]

XOR_MAPPED_ADDRESS == 32
XOR_RELAYED_ADDRESS == 22
PEER_ADDRESS == 18
DATA == 19
ERROR_CODE == 9
LIFETIME == 13
REALM == 20
SOFTWARE == 32802

\* The name with a value in one of the two tables.
NameOf(table, value) ==
    IF \E n \in DOMAIN table : table[n] = value THEN CHOOSE n \in DOMAIN table : table[n] = value ELSE None

\* MessageHeader::encode: the class bits 0 and 1 go to bits 4 and 8 of the type, between the
\* bits of the method.
MessageType(method, class) ==
    LET m == Method[method]
        c == EventType[class]
    IN (m & 15) + 2 * (m & 112) + 4 * (m & 3968) + 16 * (c & 1) + 128 * (c & 2)

EncodeHeader(msg, length) == U16(MessageType(msg.method, msg.class)) \o U16(length) \o Cookie \o msg.tid

Padding(length) == (4 - (length % 4)) % 4

EncodeAttribute(attr) ==
    U16(attr.type) \o U16(Len(attr.value)) \o attr.value \o Zeros(Padding(Len(attr.value)))

EncodeMessage(msg) ==
    LET attrs == FlattenSeq([i \in 1..Len(msg.attrs) |-> EncodeAttribute(msg.attrs[i])])
    IN EncodeHeader(msg, Len(attrs)) \o attrs

\* MessageHeader::parse.  Without the magic cookie the header is that of RFC 3489, whose
\* transaction identifier begins where the cookie would be; its first 12 bytes are kept.
ParseHeader(data) ==
    LET value == U16At(data, 0)
        rfc5389 == Slice(data, 4, 4) = Cookie
        method == IF rfc5389 THEN (value & 15) + ((value \div 2) & 112) + ((value \div 4) & 3968)
                  ELSE (((value \div 256) & 62) * 128) + (value & 15)
        class == IF rfc5389 THEN ((value \div 16) & 1) + ((value \div 128) & 2)
                 ELSE ((value \div 256) & 1) + ((value & 16) \div 8)
    IN [method |-> NameOf(Method, method), class |-> NameOf(EventType, class),
        length |-> U16At(data, 2), tid |-> Slice(data, IF rfc5389 THEN 8 ELSE 4, 12)]

\* The loop of Message::parse: data ends where the header says.
RECURSIVE ParseAttributes(_, _)
ParseAttributes(data, offset) ==
    IF offset >= Len(data) THEN <<>>
    ELSE IF offset + 4 > Len(data) THEN None
    ELSE LET length == U16At(data, offset + 2)
             size == 4 + length + Padding(length + 4)
             rest == ParseAttributes(data, offset + size)
         IN IF length > Len(data) - offset - 4 THEN <<>>
            ELSE IF offset + size > Len(data) \/ rest = None THEN None
            ELSE <<[type |-> U16At(data, offset), value |-> Slice(data, offset + 4, length)]>> \o rest

Parse(data) ==
    LET h == ParseHeader(data)
        attrs == ParseAttributes(SubSeq(data, 1, 20 + h.length), 20)
    IN IF Len(data) < 20 \/ h.method = None \/ 20 + h.length > Len(data) \/ attrs = None THEN None
       ELSE [method |-> h.method, class |-> h.class, tid |-> h.tid, attrs |-> attrs]

\* What handle_udp_message tries when the message does not parse: the type is read as a method
\* and the message as a request, and an attribute may end with the datagram, unpadded.
RECURSIVE LenientAttributes(_, _, _)
LenientAttributes(data, offset, end) ==
    IF offset >= end \/ offset + 4 > Len(data) THEN <<>>
    ELSE LET length == U16At(data, offset + 2)
         IN IF offset + 4 + length > Len(data) THEN <<>>
            ELSE <<[type |-> U16At(data, offset), value |-> Slice(data, offset + 4, length)]>>
                 \o LenientAttributes(data, offset + 4 + length + Padding(length + 4), end)

ParseLenient(data) ==
    LET length == U16At(data, 2)
        method == NameOf(Method, U16At(data, 0))
    IN IF \/ Len(data) < 20 \/ length = 0 \/ length >= 1500 \/ Slice(data, 4, 4) # Cookie
          \/ method \in {None, "CreatePermission"}
       THEN None
       ELSE [method |-> method, class |-> "Request", tid |-> Slice(data, 8, 12),
             attrs |-> LenientAttributes(data, 20, 20 + length)]

\* get_attribute: the first of the type.
GetAttribute(msg, type) ==
    LET found == SelectSeq(msg.attrs, LAMBDA a : a.type = type)
    IN IF found = <<>> THEN <<>> ELSE found[1].value
-----------------------------------------------------------------------------
(* The messages the server builds                                          *)

Message(method, class, tid, attrs) == [method |-> method, class |-> class, tid |-> tid, attrs |-> attrs]

\* create_binding_response_fast, byte by byte; of an IPv6 address it writes four bytes of the
\* eight it announces.
BindingResponseFast(tid, addr) ==
    U16(257) \o U16(12) \o Cookie \o tid \o U16(XOR_MAPPED_ADDRESS) \o U16(8) \o
    (IF addr.family = 4
     THEN <<0, 1>> \o U16(addr.port ^^ CookieHigh) \o XorBytes(addr.ip, Cookie)
     ELSE <<0, 2>> \o U16(0))

\* create_error_response_with_reason: (class << 8) | number, then the reason.
ErrorResponse(method, tid, code, reason) ==
    Message(method, "Error", tid,
            <<[type |-> ERROR_CODE, value |-> <<0, 0>> \o U16((code \div 100) * 256 + (code % 100)) \o reason]>>)

\* create_success_response, with the attributes a handler adds.
SuccessResponse(method, tid, attrs) == Message(method, "Success", tid, attrs)

\* What handle_allocate answers: the two addresses, the lifetime and the server's names.
AllocateResponse(item) ==
    SuccessResponse("Allocate", item.tid,
                    <<[type |-> XOR_RELAYED_ADDRESS, value |-> EncodeXorAddress(item.relayed)],
                      [type |-> XOR_MAPPED_ADDRESS, value |-> EncodeXorAddress(item.client)],
                      [type |-> LIFETIME, value |-> U32(item.lifetime)],
                      [type |-> REALM, value |-> item.realm],
                      [type |-> SOFTWARE, value |-> item.software]>>)

DataIndication(tid, peer, payload) ==
    Message("Data", "Indication", tid, <<[type |-> PEER_ADDRESS, value |-> EncodeXorAddress(peer)],
                                         [type |-> DATA, value |-> payload]>>)

ChannelData(number, payload) == U16(number) \o U16(Len(payload)) \o payload

Encode(item) ==
    CASE item.kind = "message" -> EncodeMessage(item.msg)
      [] item.kind = "legacy" -> U16(1) \o U16(0) \o item.tid
      [] item.kind = "unpadded" ->
            EncodeHeader(item.msg, 4 + Len(item.msg.attrs[1].value)) \o U16(item.msg.attrs[1].type)
            \o U16(Len(item.msg.attrs[1].value)) \o item.msg.attrs[1].value
      [] item.kind = "channel" -> ChannelData(item.number, item.payload)
      [] item.kind = "binding" -> BindingResponseFast(item.tid, item.addr)
      [] item.kind = "error" -> EncodeMessage(ErrorResponse("Refresh", item.tid, item.code, item.reason))
      [] item.kind = "allocated" -> EncodeMessage(AllocateResponse(item))
      [] item.kind = "refreshed" ->
            EncodeMessage(SuccessResponse("Refresh", item.tid, <<[type |-> LIFETIME, value |-> U32(item.lifetime)]>>))
      [] item.kind = "data" -> EncodeMessage(DataIndication(item.tid, item.addr, item.payload))
-----------------------------------------------------------------------------
(* Frames                                                                  *)

IsChannelDataFrame(data) == Len(data) >= 4 /\ U16At(data, 0) \in 16384..32767

\* (payload_len + 3) & !3
Padded(length) == ((length + 3) \div 4) * 4

\* missing_stream_channel_padding, and write_stream_frame with it.
MissingPadding(data) ==
    IF IsChannelDataFrame(data) /\ Len(data) \in (4 + U16At(data, 2))..(4 + Padded(U16At(data, 2)))
    THEN 4 + Padded(U16At(data, 2)) - Len(data)
    ELSE 0

WriteStreamFrame(data) == data \o Zeros(MissingPadding(data))

\* Mutant: a ChannelData frame is taken without its padding.
FrameLengthUnpadded(data) ==
    IF Len(data) < 4 THEN None
    ELSE IF IsChannelDataFrame(data) THEN 4 + U16At(data, 2)
    ELSE IF Len(data) < 20 THEN None
    ELSE 20 + U16At(data, 2)

\* extract_stream_frame: the length of the frame at the beginning, None before it can be told.
FrameLength(data) ==
    IF Len(data) < 4 THEN None
    ELSE IF IsChannelDataFrame(data) THEN 4 + Padded(U16At(data, 2))
    ELSE IF Len(data) < 20 THEN None
    ELSE 20 + U16At(data, 2)

FrameReady(data) == LET n == FrameLength(data) IN n # None /\ Len(data) >= n

\* Mutant: the payload is the rest of the frame, padding included.
ChannelPayloadRest(data) == SubSeq(data, 5, Len(data))

\* The payload handle_channel_data sends to the peer.
ChannelPayload(data) ==
    LET length == U16At(data, 2)
        present == Len(data) - 4
    IN Slice(data, 4, IF length < present THEN length ELSE present)

\* handle_tcp_message, or handle_udp_message, up to the call of a handler.
Decode(data) ==
    IF IsChannelDataFrame(data)
    THEN [kind |-> "channel", number |-> U16At(data, 0), payload |-> ChannelPayload(data)]
    ELSE IF transport = "datagram" /\ Parse(data) = None THEN ParseLenient(data)
    ELSE Parse(data)
-----------------------------------------------------------------------------
Init ==
    /\ transport \in {"stream", "datagram"}
    /\ sent = <<>>
    /\ wire = <<>>
    /\ buf = <<>>
    /\ got = <<>>

WriteFrame(item) ==
    /\ transport = "stream"
    /\ Len(sent) < MaxItems
    /\ sent' = Append(sent, item)
    /\ wire' = wire \o WriteStreamFrame(Encode(item))
    /\ UNCHANGED <<transport, buf, got>>

\* read_buf returns any number of the bytes that have arrived.
ReadSome(n) ==
    /\ ~FrameReady(buf)
    /\ buf' = buf \o SubSeq(wire, 1, n)
    /\ wire' = SubSeq(wire, n + 1, Len(wire))
    /\ UNCHANGED <<transport, sent, got>>

\* One turn of the loop over extract_stream_frame; the task reads again when it ends.
ExtractFrame ==
    LET n == FrameLength(buf) IN
    /\ FrameReady(buf)
    /\ got' = Append(got, Decode(SubSeq(buf, 1, n)))
    /\ buf' = SubSeq(buf, n + 1, Len(buf))
    /\ UNCHANGED <<transport, sent, wire>>

Datagram(item) ==
    /\ transport = "datagram"
    /\ Len(sent) < MaxItems
    /\ sent' = Append(sent, item)
    /\ got' = Append(got, Decode(Encode(item)))
    /\ UNCHANGED <<transport, wire, buf>>

Next ==
    \/ \E item \in Items : WriteFrame(item) \/ Datagram(item)
    \/ \E n \in 1..Len(wire) : ReadSome(n)
    \/ ExtractFrame

Spec == Init /\ [][Next]_vars
-----------------------------------------------------------------------------
(* Properties                                                              *)

\* What the reader of an item must have: the message as it was, the address, the error code
\* (class and number, as RFC 5389 reads them), the lifetime or the payload it was built from,
\* and the transaction it answers.  Of an IPv6 client's own address the Allocate response has
\* the family and the port only, and decode_xor_address refuses it.
Matches(item, r) ==
    CASE item.kind = "message" -> r = item.msg
      [] item.kind = "legacy" -> r = Message("Binding", "Request", SubSeq(item.tid, 1, 12), <<>>)
      [] item.kind = "unpadded" -> r = IF transport = "datagram" THEN item.msg ELSE None
      [] item.kind = "channel" -> r = [kind |-> "channel", number |-> item.number, payload |-> item.payload]
      [] item.kind = "binding" ->
            /\ r.method = "Binding" /\ r.class = "Success" /\ r.tid = item.tid
            /\ DecodeXorAddress(GetAttribute(r, XOR_MAPPED_ADDRESS)) = item.addr
      [] item.kind = "error" ->
            LET value == GetAttribute(r, ERROR_CODE) IN
            /\ r.method = "Refresh" /\ r.class = "Error" /\ r.tid = item.tid
            /\ 100 * (value[3] % 8) + value[4] = item.code
      [] item.kind = "allocated" ->
            /\ r.method = "Allocate" /\ r.class = "Success" /\ r.tid = item.tid
            /\ DecodeXorAddress(GetAttribute(r, XOR_RELAYED_ADDRESS)) = item.relayed
            /\ item.client.family = 4 =>
                   DecodeXorAddress(GetAttribute(r, XOR_MAPPED_ADDRESS)) = item.client
            /\ GetAttribute(r, LIFETIME) = U32(item.lifetime)
            /\ GetAttribute(r, SOFTWARE) = item.software
      [] item.kind = "refreshed" ->
            /\ r.method = "Refresh" /\ r.class = "Success" /\ r.tid = item.tid
            /\ GetAttribute(r, LIFETIME) = U32(item.lifetime)
      [] item.kind = "data" ->
            /\ r.method = "Data" /\ r.class = "Indication"
            /\ DecodeXorAddress(GetAttribute(r, PEER_ADDRESS)) = item.addr
            /\ GetAttribute(r, DATA) = item.payload

\* The one frame that is shorter than its header says.
Short(item) == item.kind = "binding" /\ item.addr.family = 6

\* However the stream is cut into reads, the reader decodes what was written, in order: every
\* kind of frame, padded or not, keeps its meaning and leaves the next one in step.  IPv6
\* clients are excepted where they are told their own address: the Binding response to one is
\* cut short, and the mapped address in the Allocate response to one cannot be read.
DecodedIsSent ==
    \A i \in 1..Len(got) : (\A j \in 1..i : ~Short(sent[j])) => Matches(sent[i], got[i])

\* A frame is handed over as soon as its last byte has been read: nothing is held back until
\* the next one arrives.
NothingHeldBack ==
    wire = <<>> /\ ~FrameReady(buf) /\ (\A i \in 1..Len(sent) : ~Short(sent[i])) =>
        buf = <<>> /\ Len(got) = Len(sent)
=============================================================================
