------------------------------- MODULE MqttWire -------------------------------
(***************************************************************************)
(* The packets of the MQTT client as bytes (paho-mqtt.js): what encode()   *)
(* writes, how the bytes that arrive are cut into packets, whatever pieces *)
(* the WebSocket delivers them in, and what decodeMessage() reads.         *)
(*                                                                         *)
(* A string is a sequence of UTF-16 code units and a byte a number.  The   *)
(* server is external and writes the same format.  The payload of a packet *)
(* is bytes; what an application gives as one is a record (see Payload),   *)
(* and AsWritten says what encode() makes of it.                           *)
(*                                                                         *)
(* An operator commented "Fault:" is a wrong variant of the definition     *)
(* after it; the specification does not use it.                            *)
(***************************************************************************)
EXTENDS Naturals, Sequences, FiniteSets, SequencesExt

CONSTANTS
  Inbound,      \* the packets the server sends
  Outbound,     \* the packets of the client but for CONNECT
  Options,      \* the options of connect(); one that is not given is <<>>
  Pieces,       \* how many bytes may arrive at a time, if not all
  MaxPackets,   \* bound: packets of the server on a connection
  MaxDrops,     \* bound: lost connections
  DropAnywhere  \* whether a connection may be lost in the middle of a packet

\* What one byte and what two bytes hold.
Bytes   == 0..255
MaxWord == 65535
Words   == 0..MaxWord

\* Surrogates: 0xD800 to 0xDBFF, and 0xDC00 to 0xDFFF.
High == {c \in Words : 55296 <= c /\ c <= 56319}
Low  == {c \in Words : 56320 <= c /\ c <= 57343}

\* A topic is a string with a low surrogate after each high one.
WellFormed(s) ==
  \A i \in DOMAIN s :
    s[i] \in Words /\ (s[i] \in High => i < Len(s) /\ s[i + 1] \in Low)

VARIABLES
  stream,    \* bytes on their way to the client
  buffer,    \* receiveBuffer, empty when undefined
  sentHere,  \* the packets the server sent on this connection
  cutAt,     \* where each of them ends, in bytes from the start
  arrived,   \* how many bytes have arrived on this connection
  handled,   \* the packets handled on this connection
  request,   \* the last packet the client encoded
  drops

vars == <<stream, buffer, sentHere, cutAt, arrived, handled, request, drops>>

-----------------------------------------------------------------------------
(* Numbers and strings.                                                    *)

\* Two bytes, the high one first; both wrap.
Uint16(n) == <<(n \div 256) % 256, n % 256>>
ReadUint16(b, i) == 256 * b[i] + b[i + 1]

Flag(b) == IF b THEN 1 ELSE 0

\* 128 to the power of 0 and more.
Weight == <<1, 128, 16384, 2097152, 268435456>>

\* Whether digits follow the k-th of n; there are at most four.
More(n, k) == n >= Weight[k + 1]

\* A length in digits of 7 bits, the lowest first, with a bit when more follow.
EncodeMBI(n) ==
  LET size == CHOOSE k \in 1..4 : (~More(n, k) \/ k = 4) /\ \A j \in 1..(k - 1) : More(n, j) IN
  [k \in 1..size |-> ((n \div Weight[k]) % 128) + 128 * Flag(More(n, k))]

Incomplete == [length |-> 0, next |-> 0]

\* The length whose digits begin at i, and where the rest of the packet begins.
DecodeMBI(b, i) ==
  LET read[p \in i..(Len(b) + 1)] ==
        CASE p > Len(b) -> Incomplete
          [] p <= Len(b) /\ b[p] < 128 -> [length |-> b[p], next |-> p + 1]
          [] OTHER -> LET rest == read[p + 1] IN
                      IF rest = Incomplete THEN rest
                      ELSE [rest EXCEPT !.length = (b[p] % 128) + 128 * @]
  IN read[i]

\* The bytes of a character.
Utf8(c) ==
  CASE c <= 127 -> <<c>>
    [] c > 127 /\ c <= 2047 -> <<192 + c \div 64, 128 + (c % 64)>>
    [] c > 2047 /\ c <= 65535 -> <<224 + c \div 4096, 128 + ((c \div 64) % 64), 128 + (c % 64)>>
    [] c > 65535 -> <<240 + c \div 262144, 128 + ((c \div 4096) % 64),
                      128 + ((c \div 64) % 64), 128 + (c % 64)>>

\* The character at i, which takes two units if the first is a high surrogate, and
\* where the next one begins.
Joined(high, low) == 1024 * (high - 55296) + (low - 56320) + 65536
Char(s, i) == IF s[i] \in High THEN Joined(s[i], s[i + 1]) ELSE s[i]
Skip(s, i) == IF s[i] \in High THEN i + 2 ELSE i + 1

StringToUTF8(s) ==
  LET from[i \in 1..(Len(s) + 1)] ==
        IF i > Len(s) THEN <<>> ELSE Utf8(Char(s, i)) \o from[Skip(s, i)]
  IN from[1]

\* The length is computed before the bytes are written: 4 for a high surrogate,
\* with which the unit after it is skipped.
UTF8Length(s) ==
  LET from[i \in 1..(Len(s) + 1)] ==
        CASE i > Len(s) -> 0
          [] i <= Len(s) /\ s[i] \in High -> 4 + from[i + 2]
          [] OTHER -> (CASE s[i] > 2047 -> 3 [] s[i] > 127 /\ s[i] <= 2047 -> 2 [] s[i] <= 127 -> 1)
                        + from[i + 1]
  IN from[1]

\* A character beyond 16 bits becomes a surrogate pair.
Units(c) ==
  IF c > 65535 THEN <<55296 + (c - 65536) \div 1024, 56320 + ((c - 65536) % 1024)>> ELSE <<c>>

\* The units of the character that begins at p, and how many bytes it has, which
\* the first byte tells.
Character(b, p) ==
  LET at(k) == b[p + k] - 128 IN
  CASE b[p] < 128 -> <<b[p]>>
    [] 128 <= b[p] /\ b[p] < 224 -> <<64 * (b[p] - 192) + at(1)>>
    [] 224 <= b[p] /\ b[p] < 240 -> <<4096 * (b[p] - 224) + 64 * at(1) + at(2)>>
    [] OTHER -> Units(262144 * (b[p] - 240) + 4096 * at(1) + 64 * at(2) + at(3))

Width(b, p) ==
  CASE b[p] < 128 -> 1
    [] 128 <= b[p] /\ b[p] < 224 -> 2
    [] 224 <= b[p] /\ b[p] < 240 -> 3
    [] OTHER -> 4

\* The units of `length` bytes from i on.  (What is no UTF-8 the code refuses, and
\* no server sends it.)
ParseUTF8(b, i, length) ==
  LET end == i + length
      from[p \in i..(end + 3)] ==
        IF p >= end \/ b[p] > 247 THEN <<>> ELSE Character(b, p) \o from[p + Width(b, p)]
  IN from[i]

\* writeString: the length the caller computed, then the bytes.
String(s) == Uint16(UTF8Length(s)) \o StringToUTF8(s)

-----------------------------------------------------------------------------
(* Packets.                                                                *)

Types == <<"CONNECT", "CONNACK", "PUBLISH", "PUBACK", "PUBREC", "PUBREL", "PUBCOMP",
           "SUBSCRIBE", "SUBACK", "UNSUBSCRIBE", "UNSUBACK", "PINGREQ", "PINGRESP",
           "DISCONNECT">>
Code(type) == CHOOSE i \in DOMAIN Types : Types[i] = type

Acks == {"PUBACK", "PUBREC", "PUBREL", "PUBCOMP", "UNSUBACK"}

\* The first byte of the fixed header.
FirstByte(p) ==
  16 * Code(p.type) +
    CASE p.type \in {"SUBSCRIBE", "UNSUBSCRIBE", "PUBREL"} -> 2
      [] p.type = "PUBLISH" -> 8 * Flag(p.dup) + 2 * p.qos + Flag(p.retained)
      [] OTHER -> 0

\* MqttProtoIdentifierv3 and v4.
Protocol(version) ==
  IF version = 3 THEN <<0, 6, 77, 81, 73, 115, 100, 112, 3>> ELSE <<0, 4, 77, 81, 84, 84, 4>>

ConnectFlags(p) ==
  2 * Flag(p.clean) + 128 * Flag(p.user # <<>>) + 64 * Flag(p.password # <<>>) +
    (IF p.will = <<>> THEN 0 ELSE 4 + 8 * p.will[1].qos + 32 * Flag(p.will[1].retained))

\* The identifier, of the packets that have one.
Identifier(p) == IF "id" \in DOMAIN p /\ p.id # 0 THEN Uint16(p.id) ELSE <<>>

Option(o) == IF o = <<>> THEN <<>> ELSE String(o[1])

Or(option, default) == IF option = <<>> THEN default ELSE option[1]

\* The options connect() does not refuse.
Accepted(o) ==
  /\ o.version # <<>> => o.version[1] \in 3..4
  /\ o.password # <<>> => o.user # <<>>

\* The CONNECT made of them: 60 seconds, a clean session and version 4 by default.
Request(o) ==
  [type |-> "CONNECT", version |-> Or(o.version, 4), clean |-> Or(o.clean, TRUE),
   keepAlive |-> Or(o.keepAlive, 60), clientId |-> o.clientId, will |-> o.will,
   user |-> o.user, password |-> o.password]

\* The topics of a request, each with what comes after it.
Topics(topics, after) ==
  LET from[k \in 1..(Len(topics) + 1)] ==
        IF k > Len(topics) THEN <<>> ELSE String(topics[k]) \o after \o from[k + 1]
  IN from[1]

\* What follows the fixed header, as it is written, of a packet whose payloads are
\* bytes.
Body(p) ==
  CASE p.type = "CONNECT" ->
         Protocol(p.version) \o <<ConnectFlags(p)>> \o Uint16(p.keepAlive) \o String(p.clientId)
           \o (IF p.will = <<>> THEN <<>>
               ELSE String(p.will[1].topic) \o Uint16(Len(p.will[1].payload)) \o p.will[1].payload)
           \o Option(p.user) \o Option(p.password)
    [] p.type = "PUBLISH" -> String(p.topic) \o Identifier(p) \o p.payload
    [] p.type = "SUBSCRIBE" -> Identifier(p) \o Topics(p.topics, <<p.qos>>)
    [] p.type = "UNSUBSCRIBE" -> Identifier(p) \o Topics(p.topics, <<>>)
    [] p.type = "CONNACK" -> <<Flag(p.present), p.code>>
    [] p.type = "SUBACK" -> Identifier(p) \o p.codes
    [] OTHER -> Identifier(p)

\* The length of a string with its two bytes, and of one that may be missing.
Sized(s) == UTF8Length(s) + 2
SizedOption(o) == IF o = <<>> THEN 0 ELSE Sized(o[1])

Total(topics) ==
  LET from[k \in 1..(Len(topics) + 1)] ==
        IF k > Len(topics) THEN 0 ELSE Sized(topics[k]) + from[k + 1]
  IN from[1]

\* Fault: the two bytes of the length of the payload are not counted.
SizedWill_Short(will) ==
  IF will = <<>> THEN 0 ELSE Sized(will[1].topic) + Len(will[1].payload)

SizedWill(will) ==
  IF will = <<>> THEN 0 ELSE Sized(will[1].topic) + Len(will[1].payload) + 2

\* remLength, which the buffer is allocated with, computed before anything is
\* written.
RemainingLength(p) ==
  Len(Identifier(p)) +
    CASE p.type = "CONNECT" ->
           Len(Protocol(p.version)) + 3 + Sized(p.clientId)
             + SizedWill(p.will) + SizedOption(p.user) + SizedOption(p.password)
      [] p.type = "SUBSCRIBE" -> Total(p.topics) + Len(p.topics)
      [] p.type = "UNSUBSCRIBE" -> Total(p.topics)
      [] p.type = "PUBLISH" -> Sized(p.topic) + Len(p.payload)
      [] p.type = "CONNACK" -> 2
      [] p.type = "SUBACK" -> Len(p.codes)
      [] OTHER -> 0

Encode(p) == <<FirstByte(p)>> \o EncodeMBI(RemainingLength(p)) \o Body(p)

-----------------------------------------------------------------------------
(* Payloads.  The application gives a string or a Uint8Array ("bytes"), an *)
(* ArrayBuffer ("buffer") or another typed array ("view"), of which the    *)
(* Uint16Array stands for all; it may show a part of its buffer only.      *)

Payload(x) ==
  /\ x \in [kind : {"bytes", "buffer", "view"}, elements : Seq(Words), part : BOOLEAN]
  /\ x.kind # "view" => x.elements \in Seq(Bytes)

AsBytes(b) == [kind |-> "bytes", elements |-> b, part |-> FALSE]

\* The bytes that are in it, the low one of an element first.
Content(x) ==
  IF x.kind # "view" THEN x.elements
  ELSE [i \in 1..(2 * Len(x.elements)) |->
          LET e == x.elements[(i + 1) \div 2] IN IF i % 2 = 1 THEN e % 256 ELSE e \div 256]

\* Fault: the payload of a will is never looked at.
LosesWill_Always(p) == p.type = "CONNECT" /\ p.will # <<>>

\* A will that is no Uint8Array is replaced by new Uint8Array(payloadBytes), a
\* variable of the PUBLISH case that has no value here: by no bytes.
LosesWill(p) == p.type = "CONNECT" /\ p.will # <<>> /\ p.will[1].payload.kind # "bytes"

WithWill(p, bytes) == [p EXCEPT !.will = <<[p.will[1] EXCEPT !.payload = bytes]>>]

\* The packet with its payload as the bytes the application means.
AsMeant(p) ==
  CASE p.type = "PUBLISH" -> [p EXCEPT !.payload = Content(p.payload)]
    [] p.type = "CONNECT" /\ p.will # <<>> -> WithWill(p, Content(p.will[1].payload))
    [] OTHER -> p

\* And with the bytes that encode() writes for it.
AsWritten(p) == IF LosesWill(p) THEN WithWill(p, <<>>) ELSE AsMeant(p)

\* The whole buffer of a view is written, which has no room when the view is shorter:
\* encode() throws.
Encodable(p) == p.type = "PUBLISH" => ~(p.payload.kind = "view" /\ p.payload.part)

-----------------------------------------------------------------------------
(* What is read.                                                           *)

NoPacket == [packet |-> <<>>, next |-> 0]

\* A PUBLISH, of the low bits of the first byte and the body between pos and end.
Published(b, info, pos, end) ==
  LET qos == (info \div 2) % 4
      len == ReadUint16(b, pos)
      after == pos + 2 + len
      start == IF qos > 0 THEN after + 2 ELSE after IN
  [type |-> "PUBLISH", dup |-> info \div 8 = 1, qos |-> qos, retained |-> info % 2 = 1,
   topic |-> ParseUTF8(b, pos + 2, len),
   id |-> IF qos > 0 THEN ReadUint16(b, after) ELSE 0,
   payload |-> SubSeq(b, start, end - 1)]

\* What decodeMessage makes of the first byte and the body.
Decoded(b, first, pos, end) ==
  LET type == Types[first \div 16] IN
  CASE type = "CONNACK" -> [type |-> type, present |-> b[pos] % 2 = 1, code |-> b[pos + 1]]
    [] type = "PUBLISH" -> Published(b, first % 16, pos, end)
    [] type \in Acks -> [type |-> type, id |-> ReadUint16(b, pos)]
    [] type = "SUBACK" ->
         [type |-> type, id |-> ReadUint16(b, pos), codes |-> SubSeq(b, pos + 2, end - 1)]
    [] OTHER -> [type |-> type]

\* Fault: a byte more than the packet is waited for.
Complete_Late(b, size) == size # Incomplete /\ size.next + size.length <= Len(b)

\* Whether the whole packet is there.
Complete(b, size) == size # Incomplete /\ size.next + size.length <= Len(b) + 1

\* decodeMessage: the packet that begins at i and where it ends, or nothing as
\* long as it is not complete.
DecodeMessage(b, i) ==
  LET size == DecodeMBI(b, i + 1)
      end == size.next + size.length IN
  IF Complete(b, size) THEN [packet |-> Decoded(b, b[i], size.next, end), next |-> end]
  ELSE NoPacket

\* _deframeMessages: the packets in b, and the bytes that are left.
Deframe(b) ==
  LET from[i \in 1..(Len(b) + 1)] ==
        LET one == IF i > Len(b) THEN NoPacket ELSE DecodeMessage(b, i) IN
        IF one = NoPacket THEN [packets |-> <<>>, rest |-> SubSeq(b, i, Len(b))]
        ELSE [from[one.next] EXCEPT !.packets = <<one.packet>> \o @]
  IN from[1]

-----------------------------------------------------------------------------
(* What is sent.                                                           *)

\* A string of MQTT: its length takes two bytes.
Text(s) == s \in Seq(Words) /\ WellFormed(s) /\ UTF8Length(s) \in Words

\* An option that is not given, or of a kind.
Maybe(o, kind) == o = <<>> \/ (o = <<o[1]>> /\ o[1] \in kind)

Publication(p) ==
  /\ p \in [type : {"PUBLISH"}, dup : BOOLEAN, qos : 0..2, retained : BOOLEAN,
             topic : Seq(Words), id : Words, payload : Seq(Bytes)]
  /\ Text(p.topic) /\ (p.qos = 0 <=> p.id = 0)

Acknowledgement(p) ==
  p \in [type : {"PUBACK", "PUBREC", "PUBREL", "PUBCOMP"}, id : Words \ {0}]

FromServer(p) ==
  \/ Publication(p)
  \/ Acknowledgement(p)
  \/ p \in [type : {"UNSUBACK"}, id : Words \ {0}]
  \/ p \in [type : {"SUBACK"}, id : Words \ {0}, codes : Seq(Bytes)]
  \/ p \in [type : {"CONNACK"}, present : BOOLEAN, code : Bytes]
  \/ p \in [type : {"PINGRESP"}]

FromClient(p) ==
  \/ Publication(p)
  \/ Acknowledgement(p)
  \/ /\ \/ p \in [type : {"SUBSCRIBE"}, id : Words \ {0}, topics : Seq(Seq(Words)), qos : 0..2]
           /\ p.topics # <<>>
        \/ p \in [type : {"UNSUBSCRIBE"}, id : Words \ {0}, topics : Seq(Seq(Words))]
     /\ \A i \in DOMAIN p.topics : Text(p.topics[i])
  \/ p \in [type : {"PINGREQ", "DISCONNECT"}]

\* A packet the application asks for, and a will.
Asked(p) ==
  /\ p.type # "CONNECT" /\ (p.type = "PUBLISH" => Payload(p.payload))
  /\ FromClient(AsMeant(p))

Will(w) ==
  /\ w \in [topic : Seq(Words), payload : Seq(Bytes), qos : 0..2, retained : BOOLEAN]
  /\ Text(w.topic) /\ Len(w.payload) \in Words

AskedWill(w) == Payload(w.payload) /\ Will([w EXCEPT !.payload = Content(w.payload)])

\* The options of connect().
Settings(o) ==
  /\ Maybe(o.version, Nat) /\ Maybe(o.clean, BOOLEAN) /\ Maybe(o.keepAlive, Words)
  /\ Text(o.clientId)
  /\ \A x \in {o.user, o.password} : Maybe(x, Seq(Words)) /\ (x # <<>> => Text(x[1]))
  /\ o.will # <<>> => o.will = <<o.will[1]>> /\ AskedWill(o.will[1])

\* Packets are no longer than the four digits can tell.
Fits(p) == RemainingLength(p) < Weight[5]

\* Every string and every packet is within the limits of MQTT, which the client
\* leaves to the application.
ASSUME WireAssumption ==
  /\ \A p \in Inbound : FromServer(p) /\ Fits(p)
  /\ \A p \in Outbound : Asked(p) /\ Fits(AsMeant(p))
  /\ \A o \in Options : Settings(o)
  /\ {MaxPackets, MaxDrops} \subseteq Nat /\ Pieces \subseteq Nat
  /\ DropAnywhere \in BOOLEAN

-----------------------------------------------------------------------------
(* The store of the messages in flight.                                    *)

\* Fault: a byte below 16 takes one digit.
HexDigits_Unpadded(e) == IF e < 16 THEN <<e>> ELSE <<e \div 16, e % 16>>

\* The hexadecimal digits of an element: two of a byte, more of a larger one.
HexDigits(e) ==
  CASE e < 256 -> <<e \div 16, e % 16>>
    [] 256 <= e /\ e < 4096 -> <<e \div 256, (e \div 16) % 16, e % 16>>
    [] OTHER -> <<e \div 4096, (e \div 256) % 16, (e \div 16) % 16, e % 16>>

\* Those of the payload, element by element; an ArrayBuffer has no length to count to.
Hex(x) ==
  LET from[i \in 1..(Len(x.elements) + 1)] ==
        IF i > Len(x.elements) THEN <<>> ELSE HexDigits(x.elements[i]) \o from[i + 1]
  IN IF x.kind = "buffer" THEN <<>> ELSE from[1]

\* store: the payload as text and the other fields; a flag is stored when it is set.
Stored(p) ==
  [type |-> p.type, id |-> p.id, qos |-> p.qos, topic |-> p.topic, payload |-> Hex(p.payload),
   flags |-> {f \in {"dup", "retained"} : p[f]}]

\* restore, of a message that was sent: it will be sent again, with a byte for every
\* two digits.
Restored(s) ==
  [type |-> s.type, id |-> s.id, qos |-> s.qos, topic |-> s.topic, dup |-> TRUE,
   retained |-> "retained" \in s.flags,
   payload |-> AsBytes([i \in 1..(Len(s.payload) \div 2) |->
                          16 * s.payload[2 * i - 1] + s.payload[2 * i]])]

-----------------------------------------------------------------------------
(* The connection.                                                         *)

Init ==
  /\ stream = <<>> /\ buffer = <<>> /\ sentHere = <<>> /\ cutAt = <<>>
  /\ arrived = 0 /\ handled = <<>> /\ request = <<>> /\ drops = 0

\* A behaviour looks at one packet of the client or at those of the server (bound).
ServerSends(p) ==
  /\ Len(sentHere) < MaxPackets /\ request = <<>>
  /\ LET bytes == Encode(p)
         start == IF cutAt = <<>> THEN 0 ELSE Last(cutAt) IN
       /\ stream' = stream \o bytes
       /\ sentHere' = Append(sentHere, p) /\ cutAt' = Append(cutAt, start + Len(bytes))
  /\ UNCHANGED <<buffer, arrived, handled, request, drops>>

\* _on_socket_message, of the next n bytes.
Arrives(n) ==
  /\ n \in 1..Len(stream)
  /\ LET all == Deframe(buffer \o SubSeq(stream, 1, n)) IN
       /\ handled' = handled \o all.packets
       /\ buffer' = all.rest
  /\ arrived' = arrived + n /\ stream' = SubSeq(stream, n + 1, Len(stream))
  /\ UNCHANGED <<sentHere, cutAt, request, drops>>

\* Another connection.  receiveBuffer is not touched.
Reconnects ==
  /\ drops < MaxDrops /\ sentHere # <<>>
  /\ DropAnywhere \/ buffer = <<>>
  /\ drops' = drops + 1
  /\ stream' = <<>> /\ sentHere' = <<>> /\ cutAt' = <<>> /\ arrived' = 0 /\ handled' = <<>>
  /\ UNCHANGED <<buffer, request>>

\* _socket_send, of a packet that encode() does not throw for.
ClientSends(p) ==
  /\ request = <<>> /\ sentHere = <<>> /\ drops = 0 /\ Encodable(p)
  /\ request' = <<p>>
  /\ UNCHANGED <<stream, buffer, sentHere, cutAt, arrived, handled, drops>>

\* connect() and the CONNECT that _on_socket_open sends.
ClientConnects(o) == Accepted(o) /\ ClientSends(Request(o))

Next ==
  \/ \E p \in Inbound : ServerSends(p)
  \/ \E n \in Pieces \cup {Len(stream)} : Arrives(n)
  \/ Reconnects
  \/ \E p \in Outbound : ClientSends(p)
  \/ \E o \in Options : ClientConnects(o)

Spec == Init /\ [][Next]_vars

-----------------------------------------------------------------------------
(* Properties.                                                             *)

\* However the bytes are cut, the client has handled exactly the packets that
\* have arrived whole, in order, each as the server sent it.
FramesIntact ==
  handled = SubSeq(sentHere, 1, Cardinality({i \in DOMAIN cutAt : cutAt[i] <= arrived}))

\* What a server reads, following the standard rather than the client: a string,
\* the options whose flags are set, and a list of topics.
ReadString(b, i) ==
  [value |-> ParseUTF8(b, i + 2, ReadUint16(b, i)), next |-> i + 2 + ReadUint16(b, i)]

ReadOption(b, i, present) ==
  IF ~present THEN [value |-> <<>>, next |-> i]
  ELSE [ReadString(b, i) EXCEPT !.value = <<@>>]

ReadConnect(b, i) ==
  LET name == ReadString(b, i)
      flags == b[name.next + 1]
      set(bit) == (flags \div bit) % 2 = 1
      id == ReadString(b, name.next + 4)
      topic == ReadOption(b, id.next, set(4))
      size == IF set(4) THEN ReadUint16(b, topic.next) ELSE 0
      after == IF set(4) THEN topic.next + 2 + size ELSE id.next
      user == ReadOption(b, after, set(128))
      password == ReadOption(b, user.next, set(64)) IN
  [type |-> "CONNECT", version |-> b[name.next], clean |-> set(2),
   keepAlive |-> ReadUint16(b, name.next + 2), clientId |-> id.value,
   will |-> IF ~set(4) THEN <<>>
            ELSE <<[topic |-> topic.value[1], payload |-> SubSeq(b, after - size, after - 1),
                    qos |-> (flags \div 8) % 4, retained |-> set(32)]>>,
   user |-> user.value, password |-> password.value]

ReadTopics(b, i, gap) ==
  LET next(k) == ReadString(b, k).next + gap
      from[k \in i..(Len(b) + 1)] ==
        IF k < Len(b) /\ next(k) <= Len(b) + 1 THEN <<ReadString(b, k).value>> \o from[next(k)]
        ELSE <<>>
  IN from[i]

Read(b, i, p) ==
  CASE p.type = "CONNECT" -> ReadConnect(b, i)
    [] p.type = "SUBSCRIBE" ->
         [type |-> p.type, id |-> ReadUint16(b, i), topics |-> ReadTopics(b, i + 2, 1), qos |-> Last(b)]
    [] p.type = "UNSUBSCRIBE" ->
         [type |-> p.type, id |-> ReadUint16(b, i), topics |-> ReadTopics(b, i + 2, 0)]
    [] OTHER -> DecodeMessage(b, 1).packet

\* A packet of the client is as long as it announces, a server reads in it what the
\* application asked for, and no password comes without a user, whatever options
\* the application gives and of whatever kind its payload is; but a will whose payload
\* is neither a string nor a Uint8Array is read with an empty one.
ServerReadsRequests ==
  request # <<>> =>
    LET p == request[1]
        bytes == Encode(AsWritten(p))
        size == DecodeMBI(bytes, 2)
        empty == p.type = "CONNECT" /\ p.will # <<>> /\ p.will[1].payload.kind \in {"buffer", "view"} IN
    /\ size.next + size.length = Len(bytes) + 1
    /\ p.type = "CONNECT" => p.user # <<>> \/ p.password = <<>>
    /\ Read(bytes, size.next, p) = IF empty THEN WithWill(p, <<>>) ELSE AsMeant(p)

\* A message that is stored and sent again after a restart is the same when its
\* payload is a string or a Uint8Array: what the server reads differs from the first
\* sending in the mark of a repetition.  Of another payload only the rest is the same:
\* an ArrayBuffer comes back empty, and elements wider than a byte garbled.
RestoredIsResent ==
  request # <<>> /\ request[1].type = "PUBLISH" /\ request[1].qos > 0 =>
    LET p == request[1]
        again == DecodeMessage(Encode(AsWritten(Restored(Stored(p)))), 1).packet
        meant == [AsMeant(p) EXCEPT !.dup = TRUE] IN
    /\ [again EXCEPT !.payload = meant.payload] = meant
    /\ p.payload.kind = "bytes" => again = meant
=============================================================================
