------------------------------ MODULE MqttProofs ------------------------------
(***************************************************************************)
(* Proofs about MqttDelivery and, at the end, about MqttConnection.        *)
(*                                                                         *)
(* MqttDelivery, for any number of calls, messages, lost connections and   *)
(* restarts.                                                               *)
(*                                                                         *)
(* Of each message in flight at most one packet is on its way, in either   *)
(* channel, since every handler sends one for the one it receives and a    *)
(* new connection starts with both channels empty.  So the invariant Inv   *)
(* says of each packet which state of its message it belongs to (Asks,     *)
(* AnswerTo, MailAsks, MailAnswer), and a handler moves the one packet and *)
(* its message together.  Identifiers in flight are different because the  *)
(* search finds a free one; that it finds one needs a bound on those handed*)
(* out: calls are numbered, and none is above the last call.               *)
(*                                                                         *)
(* On top of it Held relates what the server has taken and holds to what   *)
(* the client has in flight, and Kept what the client has received and     *)
(* keeps to what the server has in flight; from them every step is a step  *)
(* of QosContract or changes nothing it sees.                              *)
(*                                                                         *)
(* Two hypotheses.  IdsFit: the search for an identifier starts from the   *)
(* last one and goes up; when those up to the maximum are in flight it goes*)
(* past it, and two messages are the same to the server.  With no more     *)
(* calls than identifiers this never happens, and the hypothesis goes      *)
(* (..ForFewCalls).  Durable, for the contracts: a client restarted without*)
(* its store forgets what it promised.                                     *)
(*                                                                         *)
(* MqttConnection, for any number of hosts, sockets and calls.  A handler  *)
(* is made of handlers that call each other, so there is a lemma for each  *)
(* operator: what it makes of a client that was Sound, that is which says  *)
(* of itself what is so.  Then a timer is armed (Ticking) after each of    *)
(* them but disconnect().                                                  *)
(***************************************************************************)
EXTENDS MqttDelivery, MqttConnectionState, FiniteSetTheorems, WellFoundedInduction, TLAPS

-----------------------------------------------------------------------------
(* What is in a channel.                                                    *)

PacketTypes == {"CONNECT", "CONNACK", "PUBLISH", "PUBACK", "PUBREC", "PUBREL", "PUBCOMP",
                "SUBSCRIBE", "SUBACK", "UNSUBSCRIBE", "UNSUBACK"}
Packets == [type : PacketTypes, id : Nat, job : Nat]

Elems(s) == {s[i] : i \in DOMAIN s}

\* Requests ask for an answer, replies give one.  A request in `up` and a reply in
\* `down` are about a job, the others about a mail.
Requests == {"PUBLISH", "PUBREL", "SUBSCRIBE", "UNSUBSCRIBE"}
Replies  == {"PUBACK", "PUBREC", "PUBCOMP", "SUBACK", "UNSUBACK"}

\* Packets of one channel about one message; packets of the two about one.
SameLine(p, q) == p.job = q.job /\ (p.type \in Requests <=> q.type \in Requests)
Crosses(p, q)  == p.job = q.job /\ (p.type \in Requests <=> q.type \notin Requests)

Sole(s) == \A i, j \in DOMAIN s : i # j => ~SameLine(s[i], s[j])

LEMMA HeadOff ==
  ASSUME NEW s \in Seq(Packets), s # <<>>, Sole(s)
  PROVE  /\ Head(s) \in Elems(s) /\ Head(s) \in Packets /\ Tail(s) \in Seq(Packets)
         /\ Sole(Tail(s)) /\ Elems(Tail(s)) \subseteq Elems(s)
         /\ \A p \in Elems(Tail(s)) : ~SameLine(p, Head(s))
         /\ \A p \in Elems(s) : p = Head(s) \/ p \in Elems(Tail(s))
<1> DEFINE t == Tail(s)
<1>1. /\ Len(s) \in Nat \ {0} /\ DOMAIN s = 1..Len(s) /\ Head(s) = s[1] /\ t \in Seq(Packets)
      /\ DOMAIN t = 1..(Len(s) - 1) /\ \A i \in DOMAIN t : t[i] = s[i + 1] /\ i + 1 \in DOMAIN s
  OBVIOUS
<1> HIDE DEF t
<1>2. Head(s) \in Elems(s) /\ Head(s) \in Packets /\ 1 \in DOMAIN s  BY <1>1 DEF Elems
<1>3. Sole(t)
  <2>1. \A i \in DOMAIN t : i \in Int  BY <1>1
  <2> QED  BY <1>1, <2>1 DEF Sole
<1>4. Elems(t) \subseteq Elems(s)  BY <1>1 DEF Elems
<1>5. \A p \in Elems(t) : ~SameLine(p, Head(s))
  <2> SUFFICES ASSUME NEW i \in DOMAIN t PROVE ~SameLine(t[i], Head(s))  BY DEF Elems
  <2>1. i + 1 # 1 /\ i + 1 \in DOMAIN s /\ t[i] = s[i + 1]  BY <1>1
  <2> QED  BY <1>1, <1>2, <2>1 DEF Sole
<1>6. \A p \in Elems(s) : p = Head(s) \/ p \in Elems(t)
  <2> SUFFICES ASSUME NEW i \in DOMAIN s, s[i] # Head(s) PROVE s[i] \in Elems(t)  BY DEF Elems
  <2>1. i # 1 /\ i \in 1..Len(s)  BY <1>1
  <2>2. i - 1 \in DOMAIN t /\ (i - 1) + 1 = i  BY <1>1, <2>1
  <2> QED  BY <1>1, <2>2 DEF Elems
<1> QED  BY <1>1, <1>2, <1>3, <1>4, <1>5, <1>6 DEF t

LEMMA Joined ==
  ASSUME NEW s \in Seq(Packets), NEW t \in Seq(Packets)
  PROVE  /\ s \o t \in Seq(Packets) /\ Elems(s \o t) = Elems(s) \cup Elems(t)
         /\ /\ Sole(s) /\ Sole(t)
            /\ \A p \in Elems(s), q \in Elems(t) : ~SameLine(p, q)
            => Sole(s \o t)
<1> DEFINE g == s \o t
           k == Len(s)
<1>1. /\ k \in Nat /\ Len(t) \in Nat /\ DOMAIN s = 1..k /\ DOMAIN t = 1..Len(t)
      /\ g \in Seq(Packets) /\ DOMAIN g = 1..(k + Len(t))
      /\ \A i \in 1..(k + Len(t)) : g[i] = IF i <= k THEN s[i] ELSE t[i - k]
  OBVIOUS
<1> HIDE DEF g, k
<1>2. \A i \in DOMAIN g : (i \in DOMAIN s /\ g[i] = s[i]) \/ (i - k \in DOMAIN t /\ g[i] = t[i - k])
  BY <1>1
<1>3. /\ \A i \in DOMAIN s : i \in DOMAIN g /\ g[i] = s[i]
      /\ \A i \in DOMAIN t : i + k \in DOMAIN g /\ g[i + k] = t[i]
  BY <1>1
<1>4. Elems(g) = Elems(s) \cup Elems(t)
  <2>1. Elems(g) \subseteq Elems(s) \cup Elems(t)  BY <1>2 DEF Elems
  <2>2. Elems(s) \subseteq Elems(g)  BY <1>3 DEF Elems
  <2>3. Elems(t) \subseteq Elems(g)  BY <1>3 DEF Elems
  <2> QED  BY <2>1, <2>2, <2>3
<1>5. ASSUME Sole(s), Sole(t), \A p \in Elems(s), q \in Elems(t) : ~SameLine(p, q)
      PROVE  Sole(g)
  <2> SUFFICES ASSUME NEW i \in DOMAIN g, NEW j \in DOMAIN g, i # j PROVE ~SameLine(g[i], g[j])
    BY DEF Sole
  <2>1. i \in Int /\ j \in Int  BY <1>1
  <2>2. CASE i \in DOMAIN s /\ g[i] = s[i] /\ j \in DOMAIN s /\ g[j] = s[j]
    BY <1>5, <2>2 DEF Sole
  <2>3. CASE i - k \in DOMAIN t /\ g[i] = t[i - k] /\ j - k \in DOMAIN t /\ g[j] = t[j - k]
    <3>1. i - k # j - k  BY <1>1, <2>1
    <3> QED  BY <1>5, <2>3, <3>1 DEF Sole
  <2>4. CASE i \in DOMAIN s /\ g[i] = s[i] /\ j - k \in DOMAIN t /\ g[j] = t[j - k]
    BY <1>5, <2>4 DEF Elems
  <2>5. CASE i - k \in DOMAIN t /\ g[i] = t[i - k] /\ j \in DOMAIN s /\ g[j] = s[j]
    <3>1. g[j] \in Elems(s) /\ g[i] \in Elems(t)  BY <2>5 DEF Elems
    <3>2. ~SameLine(g[j], g[i])  BY <1>5, <3>1
    <3> QED  BY <3>2 DEF SameLine
  <2> QED  BY <1>2, <2>2, <2>3, <2>4, <2>5
<1> QED  BY <1>1, <1>4, <1>5 DEF g

LEMMA Short ==
  /\ <<>> \in Seq(Packets) /\ Elems(<<>>) = {} /\ Sole(<<>>)
  /\ \A p \in Packets : <<p>> \in Seq(Packets) /\ Elems(<<p>>) = {p} /\ Sole(<<p>>)
  /\ \A s \in Seq(Packets), p \in Packets : Append(s, p) = s \o <<p>>
  /\ \A s \in Seq(Packets) : s \o <<>> = s /\ (Elems(s) = {} => s = <<>>)
<1>1. Elems(<<>>) = {} /\ Sole(<<>>)  BY DEF Elems, Sole
<1>2. ASSUME NEW p \in Packets PROVE <<p>> \in Seq(Packets) /\ Elems(<<p>>) = {p} /\ Sole(<<p>>)
  <2>1. DOMAIN <<p>> = {1} /\ <<p>>[1] = p  OBVIOUS
  <2> QED  BY <2>1 DEF Elems, Sole
<1>3. \A s \in Seq(Packets), p \in Packets : Append(s, p) = s \o <<p>>  OBVIOUS
<1>4. ASSUME NEW s \in Seq(Packets) PROVE s \o <<>> = s /\ (Elems(s) = {} => s = <<>>)
  <2>1. Elems(s) = {} => DOMAIN s = {}  BY DEF Elems
  <2>2. Len(s) \in Nat /\ DOMAIN s = 1..Len(s)  OBVIOUS
  <2>3. DOMAIN s = {} => Len(s) = 0  BY <2>2
  <2> QED  BY <2>1, <2>3
<1> QED  BY <1>1, <1>2, <1>3, <1>4

\* No message has two packets on its way.
OneWay ==
  /\ Sole(up) /\ Sole(down)
  /\ \A p \in Elems(up), q \in Elems(down) : ~Crosses(p, q)

\* One side receives the head of a channel and may answer it.
LEMMA Answered ==
  ASSUME NEW s \in Seq(Packets), NEW t \in Seq(Packets), Sole(s), Sole(t), s # <<>>,
         \A p \in Elems(s), q \in Elems(t) : ~Crosses(p, q),
         NEW a, a = <<>> \/ \E x \in Packets : a = <<x>> /\ Crosses(x, Head(s))
  PROVE  /\ Tail(s) \in Seq(Packets) /\ t \o a \in Seq(Packets)
         /\ Head(s) \in Packets /\ Head(s) \in Elems(s)
         /\ Sole(Tail(s)) /\ Sole(t \o a)
         /\ \A p \in Elems(Tail(s)) : p \in Elems(s) /\ ~SameLine(p, Head(s))
         /\ \A p \in Elems(s) : p = Head(s) \/ p \in Elems(Tail(s))
         /\ \A q \in Elems(t) : ~Crosses(q, Head(s))
         /\ Elems(t \o a) = Elems(t) \cup Elems(a)
         /\ \A p \in Elems(Tail(s)), q \in Elems(t \o a) : ~Crosses(p, q)
<1>1. /\ Head(s) \in Elems(s) /\ Head(s) \in Packets /\ Tail(s) \in Seq(Packets) /\ Sole(Tail(s))
      /\ \A p \in Elems(Tail(s)) : p \in Elems(s) /\ ~SameLine(p, Head(s))
      /\ \A p \in Elems(s) : p = Head(s) \/ p \in Elems(Tail(s))
  BY HeadOff
<1>2. \A q \in Elems(t) : ~Crosses(q, Head(s))  BY <1>1 DEF Crosses
<1>3. /\ a \in Seq(Packets) /\ Sole(a)
      /\ \A x \in Elems(a) : Crosses(x, Head(s))
  BY Short
<1>4. \A q \in Elems(t), x \in Elems(a) : ~SameLine(q, x)
  BY <1>2, <1>3 DEF SameLine, Crosses
<1>5. t \o a \in Seq(Packets) /\ Sole(t \o a) /\ Elems(t \o a) = Elems(t) \cup Elems(a)
  BY <1>3, <1>4, Joined
<1>6. ASSUME NEW p \in Elems(Tail(s)), NEW q \in Elems(t \o a) PROVE ~Crosses(p, q)
  <2>1. CASE q \in Elems(t)  BY <1>1, <2>1
  <2>2. CASE q \in Elems(a)
    <3>1. Crosses(q, Head(s)) /\ ~SameLine(p, Head(s))  BY <1>1, <1>3, <2>2
    <3> QED  BY <3>1 DEF SameLine, Crosses
  <2> QED  BY <1>5, <2>1, <2>2
<1> QED  BY <1>1, <1>2, <1>5, <1>6

-----------------------------------------------------------------------------
(* Identifiers.                                                             *)

LEMMA Least ==
  ASSUME NEW T, T \subseteq Nat, T # {}
  PROVE  \E x \in T : \A y \in T : x <= y
<1>1. IsWellFoundedOn(OpToRel(<, Nat), Nat)  BY NatLessThanWellFounded
<1>2. PICK x \in T : \A y \in T : <<y, x>> \notin OpToRel(<, Nat)  BY <1>1, WFMin
<1>3. \A y \in T : ~(y < x)  BY <1>2 DEF OpToRel
<1> QED  BY <1>3

LEMMA WireIds ==
  /\ \A id \in Ids : id \in Nat \ {0} /\ WireId(id) \in Nat
  /\ \A id \in Ids : id <= MaxId /\ WireId(id) # 0 => WireId(id) = id
<1> USE DeliveryAssumption
<1>1. MaxId \in Nat \ {0} /\ MaxJobs \in Nat  OBVIOUS
<1>2. ASSUME NEW id \in Ids PROVE id \in Nat \ {0} /\ WireId(id) \in Nat
  BY <1>1 DEF Ids, WireId
<1>3. ASSUME NEW id \in Ids, id <= MaxId, WireId(id) # 0 PROVE WireId(id) = id
  <2>1. id = MaxId => id % MaxId = 0  BY <1>1
  <2>2. id < MaxId => id % MaxId = id  BY <1>1, <1>2
  <2> QED  BY <1>1, <1>2, <1>3, <2>1, <2>2 DEF WireId
<1> QED  BY <1>2, <1>3

\* Sequences without repetition of the elements of a finite set.
LEMMA Listed ==
  ASSUME NEW S, IsFiniteSet(S), NEW s \in SetToSeqs(S)
  PROVE  /\ s \in Seq(S) /\ DOMAIN s = 1..Len(s) /\ Len(s) \in Nat
         /\ \A i \in DOMAIN s : s[i] \in S
         /\ \A i, j \in DOMAIN s : i # j => s[i] # s[j]
<1>1. Cardinality(S) \in Nat  BY FS_CardinalityType
<1>2. s \in [1..Cardinality(S) -> S] /\ \A i, j \in 1..Cardinality(S) : i # j => s[i] # s[j]
  BY DEF SetToSeqs
<1>3. s \in Seq(S)  BY <1>1, <1>2
<1> QED  BY <1>1, <1>2, <1>3

-----------------------------------------------------------------------------
(* The invariant.  A request in `up` and a reply in `down` are about a job,   *)
(* the others about a mail.                                                   *)

\* An entry of `sent` and a packet about its call, of kind k.
Asks(k, e, p) ==
  /\ e.job = p.job /\ WireId(e.id) = p.id
  /\ \/ p.type = "PUBREL" /\ e.rel
     \/ p.type = TypeOf(k) /\ ~e.rel

AnswerTo(k, e, q) ==
  /\ e.job = q.job /\ e.id = q.id /\ WireId(e.id) = e.id
  /\ \/ q.type = "PUBACK" /\ k = "qos1"
     \/ q.type = "PUBREC" /\ k = "qos2" /\ ~e.rel
     \/ q.type = "PUBCOMP" /\ k = "qos2" /\ e.rel
     \/ q.type = "SUBACK" /\ k \in Subscribes
     \/ q.type = "UNSUBACK" /\ k \in Unsubscribes

\* A message m of the server and a packet about it.
MailAsks(m, q) ==
  /\ q.id = m.id
  /\ \/ q.type = "PUBLISH" /\ (m.stage = "sent" \/ (m.stage = "done" /\ m.qos = 0))
     \/ q.type = "PUBREL" /\ m.stage = "released"

MailAnswer(m, p) ==
  /\ p.id = m.id
  /\ \/ p.type = "PUBACK" /\ m.qos = 1 /\ m.stage = "sent"
     \/ p.type = "PUBREC" /\ m.qos = 2 /\ m.stage = "sent"
     \/ p.type = "PUBCOMP" /\ m.stage = "released"

\* The channels belong to the connection: CONNECT, then CONNACK with what the
\* server sends again behind it, then the traffic.
Lines ==
  /\ up \in Seq(Packets) /\ down \in Seq(Packets)
  /\ conn \in {"down", "opening", "up"}
  /\ OneWay
  /\ \A p \in Elems(up) : \/ p.type = "CONNECT" /\ p.job = 0 /\ conn = "opening"
                          \/ p.type \in Requests \cup Replies /\ conn = "up"
  /\ \A q \in Elems(down) : \/ q.type = "CONNACK" /\ q.job = 0 /\ conn = "opening"
                            \/ q.type \in Replies /\ conn = "up"
                            \/ q.type \in Requests /\ conn \in {"opening", "up"}
  /\ conn = "opening" /\ down # <<>> => up = <<>> /\ Head(down).type = "CONNACK"

\* Calls are made in the order of their numbers.
CallsOk ==
  /\ clean \in Sessions
  /\ kind \in [Jobs -> Calls \cup {"none"}]
  /\ told \in [Jobs -> {"none", "pending", "done", "failed", "lost"}]
  /\ taken \in [Jobs -> Nat]
  /\ \A j \in timers : j \in Jobs /\ kind[j] \in Timed
  /\ \A j, k \in Jobs : j < k /\ kind[k] # "none" => kind[j] # "none"
  /\ \A j \in Jobs : kind[j] = "none" => told[j] = "none" /\ taken[j] = 0

\* No number handed out is above that of the last call.
Reached(n) == \E j \in Jobs : kind[j] # "none" /\ n <= j

\* The messages in flight.
FlightOk ==
  /\ sent \subseteq Entry
  /\ saved = {e \in sent : kind[e.job] \in Publishes}
  /\ nextId \in Nat \ {0} /\ (nextId = 1 \/ Reached(nextId))
  /\ nextSeq \in Nat /\ (nextSeq = 0 \/ Reached(nextSeq))
  /\ \A e \in sent : /\ Reached(e.id)
                     /\ kind[e.job] \in Calls \ {"qos0"}
                     /\ kind[e.job] \in Publishes => told[e.job] = "pending"
                     /\ e.rel => kind[e.job] = "qos2" /\ WireId(e.id) = e.id
  /\ \A d, e \in sent : d.id = e.id \/ d.job = e.job => d = e

\* The messages of the server.
MailsOk ==
  /\ mail \in [Mails -> [qos : 0..2, id : Mails, stage : Stage]]
  /\ arrived \in [Mails -> Nat]
  /\ received \subseteq Arrival /\ savedIn = received
  /\ \A m, n \in Mails : m < n /\ mail[n].stage # "unsent" => mail[m].stage # "unsent"
  /\ \A n \in Mails : InFlight(n) => mail[n].id <= n
  /\ \A m, n \in Mails : InFlight(m) /\ InFlight(n) /\ mail[m].id = mail[n].id => m = n
  /\ \A n \in Mails : /\ mail[n].stage = "unsent" => mail[n].qos = 0
                      /\ mail[n].stage = "sent" => mail[n].qos \in {1, 2}
                      /\ mail[n].stage = "released" => mail[n].qos = 2

JobLines ==
  /\ \A p \in Elems(up) : p.type \in Requests =>
        \/ p.job \in Jobs /\ kind[p.job] = "qos0" /\ p.type = "PUBLISH"
        \/ \E e \in sent : Asks(kind[e.job], e, p)
  /\ \A q \in Elems(down) : q.type \in Replies =>
        \E e \in sent : AnswerTo(kind[e.job], e, q)

MailLines ==
  /\ \A q \in Elems(down) : q.type \in Requests => q.job \in Mails /\ MailAsks(mail[q.job], q)
  /\ \A p \in Elems(up) : p.type \in Replies => p.job \in Mails /\ MailAnswer(mail[p.job], p)

Inv == Lines /\ CallsOk /\ FlightOk /\ MailsOk /\ JobLines /\ MailLines

\* No identifier past the maximum is in use: on the wire it would be that of
\* another message, or 0.
IdsFit == \A e \in sent : e.id <= MaxId

\* Of a clean session that is not connected nothing is left to say: what was in
\* flight is forgotten at both sides with the next connection.
Live == ~clean \/ conn = "up"

\* What the server has taken and holds, and what the client makes of it.
Held ==
  /\ \A e \in sent : e.rel => taken[e.job] > 0
  /\ \A q \in Elems(down) : /\ q.type \in {"PUBACK", "PUBREC"} => taken[q.job] > 0
                            /\ q.type = "PUBCOMP" => q.id \notin held
  /\ Live => /\ \A e \in sent : kind[e.job] = "qos2" /\ ~e.rel =>
                                  taken[e.job] = IF e.id \in held THEN 1 ELSE 0
             /\ \A h \in held : \E e \in sent : e.id = h /\ kind[e.job] = "qos2"
  /\ clean /\ conn = "opening" /\ down # <<>> => held = {}

\* What the client has received and keeps, and what the server makes of it.
Kept ==
  /\ \A n \in Mails : /\ mail[n].stage = "unsent" => arrived[n] = 0
                      /\ mail[n].stage = "sent" /\ mail[n].qos = 2 => arrived[n] = 0
  /\ \A p \in Elems(up) : /\ p.type \in {"PUBACK", "PUBCOMP"} => arrived[p.job] > 0
                          /\ p.type = "PUBREC" => \E r \in received : r.job = p.job
  /\ Live => /\ \A r \in received : /\ InFlight(r.job) /\ mail[r.job].qos = 2
                                    /\ r.id = mail[r.job].id /\ arrived[r.job] = 0
             /\ \A n \in Mails : mail[n].stage = "released" =>
                                   arrived[n] > 0 \/ \E r \in received : r.job = n
  /\ clean /\ conn = "opening" /\ down # <<>> => \A n \in Mails : ~InFlight(n)

-----------------------------------------------------------------------------
(* What the parts need of each other.                                        *)

LEMMA PacketIn ==
  ASSUME NEW t \in PacketTypes, NEW i \in Nat, NEW j \in Nat
  PROVE  Packet(t, i, j) \in Packets /\ Packet(t, i, j).type = t
         /\ Packet(t, i, j).id = i /\ Packet(t, i, j).job = j
BY DEF Packet, Packets

LEMMA TypesOfCalls ==
  ASSUME NEW k \in Calls
  PROVE  /\ TypeOf(k) \in {"PUBLISH", "SUBSCRIBE", "UNSUBSCRIBE"}
         /\ TypeOf(k) = "PUBLISH" <=> k \in Publishes
         /\ TypeOf(k) = "SUBSCRIBE" <=> k \in Subscribes
         /\ TypeOf(k) = "UNSUBSCRIBE" <=> k \in Unsubscribes
BY DEF Calls, TypeOf, Publishes, Subscribes, Unsubscribes

\* What a part does not look at may change.
LEMMA CallsSame == CallsOk /\ UNCHANGED <<clean, kind, told, taken, timers>> => CallsOk'
BY DEF CallsOk

LEMMA FlightSame ==
  FlightOk /\ UNCHANGED <<sent, saved, nextId, nextSeq, kind, told>> => FlightOk'
BY DEF FlightOk, Reached

LEMMA MailsSame == MailsOk /\ UNCHANGED <<mail, arrived, received, savedIn>> => MailsOk'
BY DEF MailsOk, InFlight

LEMMA JobLinesSame ==
  ASSUME JobLines, sent' = sent, kind' = kind,
         \A p \in Elems(up') : p.type \in Requests => p \in Elems(up),
         \A q \in Elems(down') : q.type \in Replies => q \in Elems(down)
  PROVE  JobLines'
BY DEF JobLines

LEMMA MailLinesSame ==
  ASSUME MailLines, mail' = mail,
         \A q \in Elems(down') : q.type \in Requests => q \in Elems(down),
         \A p \in Elems(up') : p.type \in Replies => p \in Elems(up)
  PROVE  MailLines'
BY DEF MailLines

\* The client receives the head of its channel and may answer it.
LEMMA ClientGets ==
  ASSUME Lines, conn = "up", down # <<>>,
         NEW a, a = <<>> \/ \E x \in Packets : /\ a = <<x>> /\ Crosses(x, Head(down))
                                               /\ x.type \in Requests \cup Replies,
         down' = Tail(down), up' = up \o a, conn' = conn
  PROVE  /\ Lines'
         /\ Head(down) \in Elems(down) /\ Head(down) \in Packets
         /\ Elems(up') = Elems(up) \cup Elems(a)
         /\ \A q \in Elems(down') : q \in Elems(down) /\ ~SameLine(q, Head(down))
         /\ \A p \in Elems(up) : ~Crosses(p, Head(down))
<1>1. /\ up \in Seq(Packets) /\ down \in Seq(Packets) /\ Sole(up) /\ Sole(down)
      /\ \A q \in Elems(down), p \in Elems(up) : ~Crosses(q, p)
  BY DEF Lines, OneWay, Crosses
<1>2. /\ Tail(down) \in Seq(Packets) /\ up \o a \in Seq(Packets)
      /\ Head(down) \in Packets /\ Head(down) \in Elems(down)
      /\ Sole(Tail(down)) /\ Sole(up \o a)
      /\ \A q \in Elems(Tail(down)) : q \in Elems(down) /\ ~SameLine(q, Head(down))
      /\ \A p \in Elems(up) : ~Crosses(p, Head(down))
      /\ Elems(up \o a) = Elems(up) \cup Elems(a)
      /\ \A q \in Elems(Tail(down)), p \in Elems(up \o a) : ~Crosses(q, p)
  <2>1. a = <<>> \/ \E x \in Packets : a = <<x>> /\ Crosses(x, Head(down))  OBVIOUS
  <2> QED  BY <1>1, <2>1, Answered
<1>3. OneWay'  BY <1>2 DEF OneWay, Crosses
<1>4. \A p \in Elems(a) : p.type \in Requests \cup Replies  BY Short
<1>5. Lines'
  <2>1. \A p \in Elems(up') : p.type \in Requests \cup Replies  BY <1>2, <1>4 DEF Lines
  <2> QED  BY <1>2, <1>3, <2>1 DEF Lines
<1> QED  BY <1>2, <1>5

\* The server receives the head of its channel and may answer it.
LEMMA ServerGets ==
  ASSUME Lines, conn = "up", up # <<>>,
         NEW a, a = <<>> \/ \E x \in Packets : /\ a = <<x>> /\ Crosses(x, Head(up))
                                               /\ x.type \in Requests \cup Replies,
         up' = Tail(up), down' = down \o a, conn' = conn
  PROVE  /\ Lines'
         /\ Head(up) \in Elems(up) /\ Head(up) \in Packets
         /\ Elems(down') = Elems(down) \cup Elems(a)
         /\ \A p \in Elems(up') : p \in Elems(up) /\ ~SameLine(p, Head(up))
         /\ \A q \in Elems(down) : ~Crosses(q, Head(up))
<1>1. /\ up \in Seq(Packets) /\ down \in Seq(Packets) /\ Sole(up) /\ Sole(down)
      /\ \A p \in Elems(up), q \in Elems(down) : ~Crosses(p, q)
  BY DEF Lines, OneWay
<1>2. /\ Tail(up) \in Seq(Packets) /\ down \o a \in Seq(Packets)
      /\ Head(up) \in Packets /\ Head(up) \in Elems(up)
      /\ Sole(Tail(up)) /\ Sole(down \o a)
      /\ \A p \in Elems(Tail(up)) : p \in Elems(up) /\ ~SameLine(p, Head(up))
      /\ \A q \in Elems(down) : ~Crosses(q, Head(up))
      /\ Elems(down \o a) = Elems(down) \cup Elems(a)
      /\ \A p \in Elems(Tail(up)), q \in Elems(down \o a) : ~Crosses(p, q)
  <2>1. a = <<>> \/ \E x \in Packets : a = <<x>> /\ Crosses(x, Head(up))  OBVIOUS
  <2> QED  BY <1>1, <2>1, Answered
<1>3. OneWay'  BY <1>2 DEF OneWay
<1>4. \A q \in Elems(a) : q.type \in Requests \cup Replies  BY Short
<1>5. Lines'
  <2>1. \A q \in Elems(down') : q.type \in Requests \cup Replies
    BY <1>2, <1>4 DEF Lines
  <2>2. \A q \in Elems(up') : q.type \in Requests \cup Replies  BY <1>2 DEF Lines
  <2> QED  BY <1>2, <1>3, <2>1, <2>2 DEF Lines
<1> QED  BY <1>2, <1>5

\* Nothing is on its way without a connection.
LEMMA NothingWhenDown ==
  ASSUME Lines
  PROVE  /\ conn = "down" => up = <<>> /\ down = <<>>
         /\ conn = "opening" => \A p \in Elems(up) : p.type = "CONNECT" /\ p.job = 0
         /\ conn = "opening" => \A q \in Elems(down) : \/ q.type = "CONNACK" /\ q.job = 0
                                                       \/ q.type \in Requests
         /\ conn = "up" => \A p \in Elems(up) : p.type \in Requests \cup Replies
         /\ conn = "up" => \A q \in Elems(down) : q.type \in Requests \cup Replies
<1>1. conn = "down" => Elems(up) = {} /\ Elems(down) = {}  BY DEF Lines
<1>2. conn = "down" => up = <<>> /\ down = <<>>  BY <1>1, Short DEF Lines
<1> QED  BY <1>2 DEF Lines

\* A lost connection.
LEMMA NoLines ==
  up' = <<>> /\ down' = <<>> /\ conn' = "down" => Lines' /\ JobLines' /\ MailLines'
<1> SUFFICES ASSUME up' = <<>>, down' = <<>>, conn' = "down"
             PROVE  Lines' /\ JobLines' /\ MailLines'
  OBVIOUS
<1>1. /\ up' \in Seq(Packets) /\ down' \in Seq(Packets)
      /\ Sole(up') /\ Sole(down') /\ Elems(up') = {} /\ Elems(down') = {}
  BY Short
<1> QED  BY <1>1 DEF Lines, OneWay, JobLines, MailLines

\* The answer to a call finds the entry it is for, and nothing else on its way is
\* about it.
LEMMA Finds ==
  ASSUME Lines, FlightOk, JobLines, conn = "up", down # <<>>, Head(down).type \in Replies
  PROVE  \E e \in sent :
           /\ AnswerTo(kind[e.job], e, Head(down)) /\ Under(Head(down).id) = {e}
           /\ \A p \in Elems(up) : p.type \in Requests => p.job # e.job
           /\ \A q \in Elems(Tail(down)) : q.type \in Replies => q.job # e.job
<1> DEFINE h == Head(down)
<1>1. /\ down \in Seq(Packets) /\ Sole(down)
      /\ \A p \in Elems(up), q \in Elems(down) : ~Crosses(p, q)
  BY DEF Lines, OneWay
<1>2. h \in Elems(down) /\ \A q \in Elems(Tail(down)) : ~SameLine(q, h)  BY <1>1, HeadOff
<1>3. PICK e \in sent : AnswerTo(kind[e.job], e, h)  BY <1>2 DEF JobLines
<1>4. e.id = h.id /\ e.job = h.job  BY <1>3 DEF AnswerTo
<1>5. Under(h.id) = {e}  BY <1>4 DEF Under, FlightOk
<1>6. h.type \notin Requests  BY DEF Requests, Replies
<1>7. ASSUME NEW p \in Elems(up), p.type \in Requests PROVE p.job # e.job
  BY <1>1, <1>2, <1>4, <1>6, <1>7 DEF Crosses
<1>8. ASSUME NEW q \in Elems(Tail(down)), q.type \in Replies PROVE q.job # e.job
  <2>1. q.type \notin Requests  BY <1>8 DEF Requests, Replies
  <2> QED  BY <1>2, <1>4, <1>6, <2>1 DEF SameLine
<1> QED  BY <1>3, <1>5, <1>7, <1>8

-----------------------------------------------------------------------------
(* The client receives.                                                      *)

\* The message under an identifier leaves: its call is answered, no other.
LEMMA Leaves ==
  ASSUME Inv, NEW e \in sent, AnswerTo(kind[e.job], e, Head(down)),
         conn = "up", down # <<>>, Head(down).type \in Replies,
         \A p \in Elems(up) : p.type \in Requests => p.job # e.job,
         \A q \in Elems(Tail(down)) : q.type \in Replies => q.job # e.job,
         conn' = conn, down' = Tail(down), up' = up, sent' = sent \ {e}, saved' = saved \ {e},
         told' \in [Jobs -> {"none", "pending", "done", "failed", "lost"}],
         \A j \in Jobs : j # e.job => told'[j] = told[j],
         timers' \subseteq timers,
         UNCHANGED <<nextId, nextSeq, received, savedIn, kind, mail, taken, arrived, clean>>
  PROVE  Inv'
<1>1. Lines /\ CallsOk /\ FlightOk /\ MailsOk /\ JobLines /\ MailLines  BY DEF Inv
<1>2. up' = up \o <<>>  BY <1>1, Short DEF Lines
<1>3. /\ Lines'
      /\ \A q \in Elems(down') : q \in Elems(down) /\ ~SameLine(q, Head(down))
  BY <1>1, <1>2, ClientGets
<1>4. CallsOk'
  <2>1. e.job \in Jobs /\ kind[e.job] # "none"
    <3>1. kind[e.job] \in Calls \ {"qos0"} /\ e \in Entry  BY <1>1 DEF FlightOk
    <3>2. "none" \notin Calls
      BY DEF Calls, Publishes, Subscribes, Unsubscribes
    <3> QED  BY <3>1, <3>2 DEF Entry
  <2> QED  BY <1>1, <2>1 DEF CallsOk
<1>5. FlightOk'
  <2>1. \A d \in sent' : d \in sent /\ d.job # e.job /\ d.job \in Jobs
    <3>1. \A d \in sent : d.job \in Jobs  BY <1>1 DEF FlightOk, Entry
    <3> QED  BY <1>1, <3>1 DEF FlightOk
  <2>2. saved' = {d \in sent' : kind'[d.job] \in Publishes}  BY <1>1 DEF FlightOk
  <2>3. \A d \in sent' : told'[d.job] = told[d.job]  BY <2>1
  <2>4. \A n : Reached(n) => Reached(n)'  BY DEF Reached
  <2> QED  BY <1>1, <2>1, <2>2, <2>3, <2>4 DEF FlightOk
<1>6. MailsOk'  BY <1>1, MailsSame
<1>7. JobLines'
  <2>1. ASSUME NEW p \in Elems(up'), p.type \in Requests
        PROVE  \/ p.job \in Jobs /\ kind'[p.job] = "qos0" /\ p.type = "PUBLISH"
               \/ \E d \in sent' : Asks(kind'[d.job], d, p)
    <3>1. p.job # e.job  BY <2>1
    <3> QED  BY <1>1, <2>1, <3>1 DEF JobLines, Asks
  <2>2. ASSUME NEW q \in Elems(down'), q.type \in Replies
        PROVE  \E d \in sent' : AnswerTo(kind'[d.job], d, q)
    <3>1. q.job # e.job /\ q \in Elems(down)  BY <1>3, <2>2
    <3> QED  BY <1>1, <2>2, <3>1 DEF JobLines, AnswerTo
  <2> QED  BY <2>1, <2>2 DEF JobLines
<1>8. MailLines'  BY <1>1, <1>3, MailLinesSame
<1> QED  BY <1>3, <1>4, <1>5, <1>6, <1>7, <1>8 DEF Inv

\* What an answered message means for what is stored.
LEMMA Unstored ==
  ASSUME FlightOk, NEW e \in sent
  PROVE  /\ {d \in saved : d.id # e.id} = saved \ {e}
         /\ kind[e.job] \notin Publishes => saved \ {e} = saved
<1>1. /\ saved = {d \in sent : kind[d.job] \in Publishes}
      /\ \A d \in sent : d.id = e.id => d = e
  BY DEF FlightOk
<1> QED  BY <1>1

LEMMA ReplyTypes ==
  /\ Replies = {"PUBACK", "PUBREC", "PUBCOMP", "SUBACK", "UNSUBACK"}
  /\ \A t \in Replies : t \notin Requests
  /\ \A t \in Requests : t \notin Replies
BY DEF Requests, Replies

LEMMA PubackKeeps == ASSUME Inv, Puback PROVE Inv'
<1>1. Lines /\ CallsOk /\ FlightOk /\ JobLines  BY DEF Inv
<1>2. /\ conn = "up" /\ down # <<>> /\ Head(down).type = "PUBACK"
      /\ conn' = conn /\ down' = Tail(down) /\ up' = up \o <<>>
      /\ UNCHANGED <<nextId, nextSeq, kind, mail, taken, clean, timers>>
  BY DEF Puback, Receives, serverVars, faultVars
<1>3. Head(down).type \in Replies  BY <1>2, ReplyTypes
<1>4. PICK e \in sent :
           /\ AnswerTo(kind[e.job], e, Head(down)) /\ Under(Head(down).id) = {e}
           /\ \A p \in Elems(up) : p.type \in Requests => p.job # e.job
           /\ \A q \in Elems(Tail(down)) : q.type \in Replies => q.job # e.job
  BY <1>1, <1>2, <1>3, Finds
<1>5. /\ sent' = sent \ {e} /\ saved' = {d \in saved : d.id # Head(down).id}
      /\ UNCHANGED <<received, savedIn, arrived>>
      /\ told' = [j \in Jobs |-> IF e.job = j THEN "done" ELSE told[j]]
  BY <1>4 DEF Puback, Completes, Delivered, StillSaved
<1>6. saved' = saved \ {e}  BY <1>1, <1>4, <1>5, Unstored DEF AnswerTo
<1>7. up' = up  BY <1>1, <1>2, Short DEF Lines
<1>8. /\ told' \in [Jobs -> {"none", "pending", "done", "failed", "lost"}]
      /\ \A j \in Jobs : j # e.job => told'[j] = told[j]
  BY <1>1, <1>5 DEF CallsOk
<1> QED  BY <1>2, <1>3, <1>4, <1>5, <1>6, <1>7, <1>8, Leaves

LEMMA PubcompKeeps == ASSUME Inv, Pubcomp PROVE Inv'
<1>1. Lines /\ CallsOk /\ FlightOk /\ JobLines  BY DEF Inv
<1>2. /\ conn = "up" /\ down # <<>> /\ Head(down).type = "PUBCOMP"
      /\ UNCHANGED <<nextId, nextSeq, kind, mail, taken, clean, timers>>
  BY DEF Pubcomp, serverVars, faultVars
<1>3. Head(down).type \in Replies  BY <1>2, ReplyTypes
<1>4. PICK e \in sent :
           /\ AnswerTo(kind[e.job], e, Head(down)) /\ Under(Head(down).id) = {e}
           /\ \A p \in Elems(up) : p.type \in Requests => p.job # e.job
           /\ \A q \in Elems(Tail(down)) : q.type \in Replies => q.job # e.job
  BY <1>1, <1>2, <1>3, Finds
<1>5. /\ sent' = sent \ {e} /\ saved' = {d \in saved : d.id # Head(down).id}
      /\ UNCHANGED <<received, savedIn, arrived>>
      /\ told' = [j \in Jobs |-> IF e.job = j THEN "done" ELSE told[j]]
      /\ down' = Tail(down) /\ up' = up /\ conn' = conn
  BY <1>4 DEF Pubcomp, Completes, Delivered, StillSaved
<1>6. saved' = saved \ {e}  BY <1>1, <1>4, <1>5, Unstored DEF AnswerTo
<1>8. /\ told' \in [Jobs -> {"none", "pending", "done", "failed", "lost"}]
      /\ \A j \in Jobs : j # e.job => told'[j] = told[j]
  BY <1>1, <1>5 DEF CallsOk
<1> QED  BY <1>2, <1>3, <1>4, <1>5, <1>6, <1>8, Leaves

LEMMA SubackKeeps == ASSUME Inv, Suback PROVE Inv'
<1>1. Lines /\ CallsOk /\ FlightOk /\ JobLines  BY DEF Inv
<1>2. /\ conn = "up" /\ down # <<>> /\ Head(down).type \in {"SUBACK", "UNSUBACK"}
      /\ conn' = conn /\ down' = Tail(down) /\ up' = up \o <<>>
      /\ UNCHANGED <<nextId, nextSeq, kind, mail, taken, clean, received, saved, savedIn, arrived>>
  BY DEF Suback, Receives, serverVars, faultVars
<1>3. Head(down).type \in Replies  BY <1>2, ReplyTypes
<1>4. PICK e \in sent :
           /\ AnswerTo(kind[e.job], e, Head(down)) /\ Under(Head(down).id) = {e}
           /\ \A p \in Elems(up) : p.type \in Requests => p.job # e.job
           /\ \A q \in Elems(Tail(down)) : q.type \in Replies => q.job # e.job
  BY <1>1, <1>2, <1>3, Finds
<1>5. PICK answer \in {"done", "failed"} :
        told' = [j \in Jobs |-> IF told[j] = "pending" /\ j \in {d.job : d \in {e}}
                                THEN answer ELSE told[j]]
  BY <1>4 DEF Suback, Settled
<1>6. sent' = sent \ {e} /\ timers' \subseteq timers  BY <1>4 DEF Suback
<1>7. saved' = saved \ {e}
  <2>1. kind[e.job] \notin Publishes
    BY <1>2, <1>4 DEF AnswerTo, Publishes, Subscribes, Unsubscribes
  <2> QED  BY <1>1, <1>2, <2>1, Unstored
<1>8. up' = up  BY <1>1, <1>2, Short DEF Lines
<1>9. /\ told' \in [Jobs -> {"none", "pending", "done", "failed", "lost"}]
      /\ \A j \in Jobs : j # e.job => told'[j] = told[j]
  BY <1>1, <1>5 DEF CallsOk
<1> QED  BY <1>2, <1>3, <1>4, <1>6, <1>7, <1>8, <1>9, Leaves

\* The PUBREC of a message: its entry is replaced by one that is released.
LEMMA PubrecEffect ==
  ASSUME Inv, Pubrec
  PROVE  /\ conn = "up" /\ down # <<>> /\ Head(down).type = "PUBREC"
         /\ conn' = conn /\ down' = Tail(down)
         /\ UNCHANGED <<nextId, nextSeq, kind, mail, taken, clean, held, received, savedIn, timers,
                        arrived, told>>
         /\ \E e \in sent : \E d \in Entry :
              /\ AnswerTo(kind[e.job], e, Head(down)) /\ Under(Head(down).id) = {e}
              /\ \A p \in Elems(up) : p.type \in Requests => p.job # e.job
              /\ \A q \in Elems(Tail(down)) : q.type \in Replies => q.job # e.job
              /\ d.id = e.id /\ d.job = e.job /\ d.rel /\ d.seq = e.seq
              /\ sent' = (sent \ {e}) \cup {d} /\ saved' = (saved \ {e}) \cup {d}
              /\ up' = up \o <<Packet("PUBREL", e.id, e.job)>>
<1>1. Lines /\ CallsOk /\ FlightOk /\ JobLines  BY DEF Inv
<1>2. /\ conn = "up" /\ down # <<>> /\ Head(down).type = "PUBREC"
      /\ conn' = conn /\ down' = Tail(down)
      /\ UNCHANGED <<nextId, nextSeq, kind, mail, taken, clean, held, received, savedIn, timers,
                     arrived, told>>
  BY DEF Pubrec, Receives, serverVars, faultVars
<1>3. Head(down).type \in Replies  BY <1>2, ReplyTypes
<1>4. PICK e \in sent :
           /\ AnswerTo(kind[e.job], e, Head(down)) /\ Under(Head(down).id) = {e}
           /\ \A p \in Elems(up) : p.type \in Requests => p.job # e.job
           /\ \A q \in Elems(Tail(down)) : q.type \in Replies => q.job # e.job
  BY <1>1, <1>2, <1>3, Finds
<1> DEFINE d == [e EXCEPT !.rel = TRUE]
<1>5. e \in Entry /\ e.id = Head(down).id /\ e.job = Head(down).job
  BY <1>1, <1>4 DEF FlightOk, AnswerTo
<1>6. d \in Entry /\ d.id = e.id /\ d.job = e.job /\ d.rel /\ d.seq = e.seq
  BY <1>5 DEF Entry
<1>7. UNION {Released(x) : x \in Under(Head(down).id)} = {d}  BY <1>4 DEF Released
<1>8. /\ up' = up \o <<Packet("PUBREL", Head(down).id, Head(down).job)>>
      /\ sent' = (sent \ {e}) \cup {d}
      /\ saved' = {x \in saved : x.id # Head(down).id} \cup {d}
  BY <1>4, <1>7 DEF Pubrec, Receives
<1>9. {x \in saved : x.id # Head(down).id} = saved \ {e}  BY <1>1, <1>5, Unstored
<1> HIDE DEF d
<1> QED  BY <1>2, <1>4, <1>5, <1>6, <1>8, <1>9

LEMMA PubrecKeeps == ASSUME Inv, Pubrec PROVE Inv'
<1>1. Lines /\ CallsOk /\ FlightOk /\ MailsOk /\ JobLines /\ MailLines  BY DEF Inv
<1>2. /\ conn = "up" /\ down # <<>> /\ Head(down).type = "PUBREC"
      /\ conn' = conn /\ down' = Tail(down)
      /\ UNCHANGED <<nextId, nextSeq, kind, mail, taken, clean, received, savedIn, timers,
                     arrived, told>>
  BY PubrecEffect
<1>3. PICK e \in sent : \E d \in Entry :
              /\ AnswerTo(kind[e.job], e, Head(down)) /\ Under(Head(down).id) = {e}
              /\ \A p \in Elems(up) : p.type \in Requests => p.job # e.job
              /\ \A q \in Elems(Tail(down)) : q.type \in Replies => q.job # e.job
              /\ d.id = e.id /\ d.job = e.job /\ d.rel /\ d.seq = e.seq
              /\ sent' = (sent \ {e}) \cup {d} /\ saved' = (saved \ {e}) \cup {d}
              /\ up' = up \o <<Packet("PUBREL", e.id, e.job)>>
  BY PubrecEffect
<1>4. PICK d \in Entry :
              /\ AnswerTo(kind[e.job], e, Head(down)) /\ Under(Head(down).id) = {e}
              /\ \A p \in Elems(up) : p.type \in Requests => p.job # e.job
              /\ \A q \in Elems(Tail(down)) : q.type \in Replies => q.job # e.job
              /\ d.id = e.id /\ d.job = e.job /\ d.rel /\ d.seq = e.seq
              /\ sent' = (sent \ {e}) \cup {d} /\ saved' = (saved \ {e}) \cup {d}
              /\ up' = up \o <<Packet("PUBREL", e.id, e.job)>>
  BY <1>3
<1>5. /\ e.id = Head(down).id /\ e.job = Head(down).job /\ WireId(e.id) = e.id
      /\ kind[e.job] = "qos2" /\ e.id \in Nat /\ e.job \in Nat /\ e.job \in Jobs /\ ~e.rel
  <2>1. AnswerTo(kind[e.job], e, Head(down))  BY <1>4
  <2>2. e \in Entry  BY <1>1 DEF FlightOk
  <2>3. e.id \in Nat /\ e.job \in Nat  BY <2>2, DeliveryAssumption DEF Entry, Ids, Jobs
  <2> QED  BY <1>2, <2>1, <2>2, <2>3 DEF AnswerTo, Entry
<1> DEFINE x == Packet("PUBREL", e.id, e.job)
<1>6. /\ x \in Packets /\ x.type = "PUBREL" /\ x.id = e.id /\ x.job = e.job
      /\ x.type \in Requests /\ Crosses(x, Head(down))
  <2>1. x \in Packets /\ x.type = "PUBREL" /\ x.id = e.id /\ x.job = e.job
    BY <1>5, PacketIn DEF PacketTypes
  <2> QED  BY <1>2, <1>5, <2>1 DEF Requests, Crosses
<1>7. up' = up \o <<x>>  BY <1>4
<1> HIDE DEF x
<1>8. /\ Lines' /\ Elems(up') = Elems(up) \cup Elems(<<x>>)
      /\ \A q \in Elems(down') : q \in Elems(down) /\ ~SameLine(q, Head(down))
  BY <1>1, <1>2, <1>6, <1>7, ClientGets
<1>9. Elems(up') = Elems(up) \cup {x}  BY <1>6, <1>8, Short
<1>10. CallsOk'  BY <1>1, <1>2, CallsSame
<1>11. FlightOk'
  <2>1. \A y \in sent' : y = d \/ (y \in sent /\ y # e /\ y.id # e.id /\ y.job # e.job)
    BY <1>1, <1>4 DEF FlightOk
  <2>2. sent' \subseteq Entry  BY <1>1, <1>4 DEF FlightOk
  <2>3. saved' = {y \in sent' : kind'[y.job] \in Publishes}
    <3>1. kind[d.job] \in Publishes  BY <1>4, <1>5 DEF Publishes
    <3>2. saved = {y \in sent : kind[y.job] \in Publishes}  BY <1>1 DEF FlightOk
    <3> QED  BY <1>2, <1>4, <3>1, <3>2
  <2>4. \A n : Reached(n) <=> Reached(n)'  BY <1>2 DEF Reached
  <2>5. \A y \in sent' : /\ Reached(y.id)'
                         /\ kind'[y.job] \in Calls \ {"qos0"}
                         /\ kind'[y.job] \in Publishes => told'[y.job] = "pending"
                         /\ y.rel => kind'[y.job] = "qos2" /\ WireId(y.id) = y.id
    <3>1. /\ Reached(d.id) /\ kind[d.job] \in Calls \ {"qos0"}
          /\ kind[d.job] \in Publishes => told[d.job] = "pending"
      BY <1>1, <1>4 DEF FlightOk
    <3> QED  BY <1>1, <1>2, <1>4, <1>5, <2>1, <2>4, <3>1 DEF FlightOk
  <2>6. \A y, z \in sent' : y.id = z.id \/ y.job = z.job => y = z
    BY <1>1, <1>4, <2>1 DEF FlightOk
  <2> QED  BY <1>1, <1>2, <2>2, <2>3, <2>4, <2>5, <2>6 DEF FlightOk
<1>12. MailsOk'  BY <1>1, <1>2, MailsSame
<1>13. JobLines'
  <2>1. ASSUME NEW p \in Elems(up'), p.type \in Requests
        PROVE  \/ p.job \in Jobs /\ kind'[p.job] = "qos0" /\ p.type = "PUBLISH"
               \/ \E y \in sent' : Asks(kind'[y.job], y, p)
    <3>1. CASE p = x
      <4>1. Asks(kind'[d.job], d, p)  BY <1>4, <1>5, <1>6, <3>1 DEF Asks
      <4> QED  BY <1>4, <4>1
    <3>2. CASE p \in Elems(up)
      <4>1. p.job # e.job  BY <1>4, <2>1, <3>2
      <4>2. \A y \in sent : Asks(kind[y.job], y, p) => y \in sent'  BY <1>4, <4>1 DEF Asks
      <4> QED  BY <1>1, <1>2, <2>1, <3>2, <4>2 DEF JobLines
    <3> QED  BY <1>9, <2>1, <3>1, <3>2
  <2>2. ASSUME NEW q \in Elems(down'), q.type \in Replies
        PROVE  \E y \in sent' : AnswerTo(kind'[y.job], y, q)
    <3>1. q.job # e.job /\ q \in Elems(down)  BY <1>2, <1>4, <1>8, <2>2
    <3>2. \A y \in sent : AnswerTo(kind[y.job], y, q) => y \in sent'  BY <1>4, <3>1 DEF AnswerTo
    <3> QED  BY <1>1, <1>2, <2>2, <3>1, <3>2 DEF JobLines
  <2> QED  BY <2>1, <2>2 DEF JobLines
<1>14. MailLines'
  <2>1. x.type \notin Replies  BY <1>6, ReplyTypes
  <2> QED  BY <1>1, <1>2, <1>8, <1>9, <2>1, MailLinesSame
<1> QED  BY <1>8, <1>10, <1>11, <1>12, <1>13, <1>14 DEF Inv

\* A packet about a mail that is on its way to the client.
LEMMA MailHead ==
  ASSUME Inv, conn = "up", down # <<>>, Head(down).type \in Requests
  PROVE  /\ Head(down).job \in Mails /\ MailAsks(mail[Head(down).job], Head(down))
         /\ Head(down).id \in Mails /\ Head(down).id = mail[Head(down).job].id
         /\ Head(down).job \in Nat /\ Head(down).id \in Nat
<1>1. Lines /\ MailsOk /\ MailLines  BY DEF Inv
<1>2. Head(down) \in Elems(down)  BY <1>1, HeadOff DEF Lines, OneWay
<1>3. Head(down).job \in Mails /\ MailAsks(mail[Head(down).job], Head(down))
  BY <1>1, <1>2 DEF MailLines
<1>4. Head(down).id = mail[Head(down).job].id /\ mail[Head(down).job].id \in Mails
  BY <1>1, <1>3 DEF MailAsks, MailsOk
<1> QED  BY <1>3, <1>4, DeliveryAssumption DEF Mails

LEMMA PublishKeeps == ASSUME Inv, Publish PROVE Inv'
<1> DEFINE h == Head(down)
           a == CASE mail[h.job].qos = 0 -> <<>>
                  [] mail[h.job].qos = 1 -> <<Packet("PUBACK", h.id, h.job)>>
                  [] mail[h.job].qos = 2 -> <<Packet("PUBREC", h.id, h.job)>>
           kept == [id |-> h.id, job |-> h.job]
<1>1. Lines /\ CallsOk /\ FlightOk /\ MailsOk /\ JobLines /\ MailLines  BY DEF Inv
<1>2. /\ conn = "up" /\ down # <<>> /\ h.type = "PUBLISH"
      /\ conn' = conn /\ down' = Tail(down) /\ up' = up \o a
      /\ UNCHANGED <<nextId, nextSeq, kind, mail, taken, clean, sent, saved, timers, told>>
      /\ arrived' = IF mail[h.job].qos = 2 THEN arrived
                    ELSE [arrived EXCEPT ![h.job] = @ + 1]
      /\ received' = IF mail[h.job].qos = 2 THEN {r \in received : r.id # h.id} \cup {kept}
                     ELSE received
      /\ savedIn' = IF mail[h.job].qos = 2 THEN {r \in savedIn : r.id # h.id} \cup {kept}
                    ELSE savedIn
  BY DEF Publish, Receives, serverVars, faultVars
<1>3. h.type \in Requests  BY <1>2 DEF Requests
<1>4. /\ h.job \in Mails /\ MailAsks(mail[h.job], h) /\ h.id \in Mails /\ h.id = mail[h.job].id
      /\ h.job \in Nat /\ h.id \in Nat
  BY <1>2, <1>3, MailHead
<1>5. mail[h.job].qos \in 0..2  BY <1>1, <1>4 DEF MailsOk
<1>6. \/ mail[h.job].qos = 0 /\ a = <<>>
      \/ mail[h.job].qos = 1 /\ a = <<Packet("PUBACK", h.id, h.job)>>
      \/ mail[h.job].qos = 2 /\ a = <<Packet("PUBREC", h.id, h.job)>>
  BY <1>5
<1>7. \/ a = <<>> \/ \E x \in Packets : /\ a = <<x>> /\ Crosses(x, h)
                                        /\ x.type \in Requests \cup Replies
  <2>1. ASSUME NEW t \in {"PUBACK", "PUBREC"}
        PROVE  /\ Packet(t, h.id, h.job) \in Packets /\ Crosses(Packet(t, h.id, h.job), h)
               /\ Packet(t, h.id, h.job).type \in Requests \cup Replies
    <3>1. /\ Packet(t, h.id, h.job) \in Packets /\ Packet(t, h.id, h.job).type = t
          /\ Packet(t, h.id, h.job).job = h.job
      BY <1>4, PacketIn DEF PacketTypes
    <3> QED  BY <1>3, <3>1 DEF Crosses, Requests, Replies
  <2> QED  BY <1>6, <2>1
<1> HIDE DEF h, a
<1>8. /\ Lines' /\ Elems(up') = Elems(up) \cup Elems(a)
      /\ \A q \in Elems(down') : q \in Elems(down) /\ ~SameLine(q, h)
      /\ \A p \in Elems(up) : ~Crosses(p, h)
  BY <1>1, <1>2, <1>7, ClientGets DEF h
<1>9. \A p \in Elems(a) : p.type \in Replies /\ MailAnswer(mail[h.job], p) /\ p.job = h.job
  <2>1. ASSUME NEW t \in {"PUBACK", "PUBREC"}
        PROVE  /\ Packet(t, h.id, h.job) \in Packets /\ Packet(t, h.id, h.job).type = t
               /\ Packet(t, h.id, h.job).id = h.id /\ Packet(t, h.id, h.job).job = h.job
               /\ Elems(<<Packet(t, h.id, h.job)>>) = {Packet(t, h.id, h.job)}
    <3>1. /\ Packet(t, h.id, h.job) \in Packets /\ Packet(t, h.id, h.job).type = t
          /\ Packet(t, h.id, h.job).id = h.id /\ Packet(t, h.id, h.job).job = h.job
      BY <1>4, PacketIn DEF PacketTypes
    <3> QED  BY <3>1, Short
  <2>2. h.id = mail[h.job].id /\ (mail[h.job].qos # 0 => mail[h.job].stage = "sent")
    BY <1>2, <1>4 DEF MailAsks
  <2>3. CASE mail[h.job].qos = 0  BY <1>6, <2>3, Short
  <2>4. CASE mail[h.job].qos = 1  BY <1>6, <2>1, <2>2, <2>4 DEF MailAnswer, Replies
  <2>5. CASE mail[h.job].qos = 2  BY <1>6, <2>1, <2>2, <2>5 DEF MailAnswer, Replies
  <2> QED  BY <1>6, <2>3, <2>4, <2>5
<1>10. CallsOk' /\ FlightOk'  BY <1>1, <1>2, CallsSame, FlightSame
<1>11. MailsOk'
  <2>1. kept \in Arrival  BY <1>4 DEF Arrival
  <2>2. arrived' \in [Mails -> Nat]  BY <1>1, <1>2, <1>4 DEF MailsOk
  <2>3. received' \subseteq Arrival /\ savedIn' = received'
    BY <1>1, <1>2, <2>1 DEF MailsOk
  <2> QED  BY <1>1, <1>2, <2>2, <2>3 DEF MailsOk, InFlight
<1>12. JobLines'
  <2>1. \A p \in Elems(up') : p.type \in Requests => p \in Elems(up)
    BY <1>8, <1>9, ReplyTypes
  <2> QED  BY <1>1, <1>2, <1>8, <2>1, JobLinesSame
<1>13. MailLines'
  <2>1. ASSUME NEW p \in Elems(up'), p.type \in Replies
        PROVE  p.job \in Mails /\ MailAnswer(mail'[p.job], p)
    <3>1. p \in Elems(up) \/ p \in Elems(a)  BY <1>8
    <3> QED  BY <1>1, <1>2, <1>4, <1>9, <2>1, <3>1 DEF MailLines
  <2> QED  BY <1>1, <1>2, <1>8, <2>1 DEF MailLines
<1> QED  BY <1>8, <1>10, <1>11, <1>12, <1>13 DEF Inv

LEMMA PubrelKeeps == ASSUME Inv, Pubrel PROVE Inv'
<1> DEFINE h == Head(down)
           x == Packet("PUBCOMP", h.id, h.job)
<1>1. Lines /\ CallsOk /\ FlightOk /\ MailsOk /\ JobLines /\ MailLines  BY DEF Inv
<1>2. /\ conn = "up" /\ down # <<>> /\ h.type = "PUBREL"
      /\ conn' = conn /\ down' = Tail(down) /\ up' = up \o <<x>>
      /\ UNCHANGED <<nextId, nextSeq, kind, mail, taken, clean, sent, saved, timers, told>>
      /\ arrived' = [n \in Mails |->
                       IF \E r \in received : r.id = h.id /\ r.job = n THEN arrived[n] + 1
                       ELSE arrived[n]]
      /\ received' = {r \in received : r.id # h.id}
      /\ savedIn' = {r \in savedIn : r.id # h.id}
  BY DEF Pubrel, Receives, serverVars, faultVars, Consumed
<1>3. h.type \in Requests  BY <1>2 DEF Requests
<1>4. /\ h.job \in Mails /\ MailAsks(mail[h.job], h) /\ h.id = mail[h.job].id
      /\ h.job \in Nat /\ h.id \in Nat
  BY <1>2, <1>3, MailHead
<1>5. x \in Packets /\ x.type = "PUBCOMP" /\ x.id = h.id /\ x.job = h.job
  BY <1>4, PacketIn DEF PacketTypes
<1>6. Crosses(x, h) /\ x.type \in Replies
  BY <1>3, <1>5 DEF Crosses, Requests, Replies
<1> HIDE DEF h, x
<1>8. /\ Lines' /\ Elems(up') = Elems(up) \cup Elems(<<x>>)
      /\ \A q \in Elems(down') : q \in Elems(down) /\ ~SameLine(q, h)
  BY <1>1, <1>2, <1>5, <1>6, ClientGets DEF h
<1>9. Elems(up') = Elems(up) \cup {x}  BY <1>5, <1>8, Short
<1>10. CallsOk' /\ FlightOk'  BY <1>1, <1>2, CallsSame, FlightSame
<1>11. MailsOk'
  <2>1. arrived' \in [Mails -> Nat]  BY <1>1, <1>2 DEF MailsOk
  <2>2. received' \subseteq Arrival /\ savedIn' = received'  BY <1>1, <1>2 DEF MailsOk
  <2> QED  BY <1>1, <1>2, <2>1, <2>2 DEF MailsOk, InFlight
<1>12. JobLines'
  <2>1. \A p \in Elems(up') : p.type \in Requests => p \in Elems(up)
    BY <1>6, <1>9, ReplyTypes
  <2> QED  BY <1>1, <1>2, <1>8, <2>1, JobLinesSame
<1>13. MailLines'
  <2>1. MailAnswer(mail[h.job], x)  BY <1>2, <1>4, <1>5 DEF MailAsks, MailAnswer
  <2>2. ASSUME NEW p \in Elems(up'), p.type \in Replies
        PROVE  p.job \in Mails /\ MailAnswer(mail'[p.job], p)
    BY <1>1, <1>2, <1>4, <1>5, <1>9, <2>1, <2>2 DEF MailLines
  <2> QED  BY <1>1, <1>2, <1>8, <2>2 DEF MailLines
<1> QED  BY <1>8, <1>10, <1>11, <1>12, <1>13 DEF Inv

-----------------------------------------------------------------------------
(* The connection and the program.                                           *)

LEMMA ConnectKeeps == ASSUME Inv, Connect PROVE Inv'
<1> DEFINE x == Packet("CONNECT", 0, 0)
<1>1. Lines /\ CallsOk /\ FlightOk /\ MailsOk /\ JobLines /\ MailLines  BY DEF Inv
<1>2. /\ conn = "down" /\ conn' = "opening" /\ up' = <<x>> /\ down' = down
      /\ UNCHANGED <<clientVars, callVars, serverVars, taken, arrived, faultVars>>
  BY DEF Connect
<1>3. x \in Packets /\ x.type = "CONNECT" /\ x.job = 0  BY PacketIn DEF PacketTypes
<1> HIDE DEF x
<1>4. up' \in Seq(Packets) /\ Elems(up') = {x} /\ Sole(up')  BY <1>2, <1>3, Short
<1>5. down' = <<>> /\ down' \in Seq(Packets) /\ Elems(down') = {} /\ Sole(down')
  BY <1>1, <1>2, NothingWhenDown, Short
<1>6. OneWay'  BY <1>4, <1>5 DEF OneWay
<1>7. x.type \notin Requests /\ x.type \notin Replies  BY <1>3 DEF Requests, Replies
<1>8. Lines'  BY <1>2, <1>3, <1>4, <1>5, <1>6 DEF Lines
<1>9. JobLines' /\ MailLines'  BY <1>4, <1>5, <1>7 DEF JobLines, MailLines
<1>10. CallsOk' /\ FlightOk' /\ MailsOk'
  BY <1>1, <1>2, CallsSame, FlightSame, MailsSame
    DEF clientVars, callVars, serverVars, faultVars
<1> QED  BY <1>8, <1>9, <1>10 DEF Inv

LEMMA DropKeeps == ASSUME Inv, Drop PROVE Inv'
<1>1. CallsOk /\ FlightOk /\ MailsOk  BY DEF Inv
<1>2. Lines' /\ JobLines' /\ MailLines'  BY NoLines DEF Drop
<1>3. CallsOk' /\ FlightOk' /\ MailsOk'
  BY <1>1, CallsSame, FlightSame, MailsSame DEF Drop, clientVars, callVars, serverVars
<1> QED  BY <1>2, <1>3 DEF Inv

LEMMA RestartKeeps == ASSUME Inv, Restart PROVE Inv'
<1>1. CallsOk /\ FlightOk /\ MailsOk  BY DEF Inv
<1>2. Lines' /\ JobLines' /\ MailLines'  BY NoLines DEF Restart
<1>3. /\ sent' = saved' /\ saved' \in {saved, {}}
      /\ received' = savedIn' /\ savedIn' \in {savedIn, {}}
      /\ nextId' = 1 /\ nextSeq' = 0 /\ timers' = {}
      /\ told' = [j \in Jobs |-> IF told[j] = "pending" /\ kind[j] \notin Publishes
                                 THEN "lost" ELSE told[j]]
      /\ UNCHANGED <<kind, mail, taken, arrived, clean>>
  BY DEF Restart, serverVars
<1>4. CallsOk'  BY <1>1, <1>3 DEF CallsOk
<1>5. FlightOk'
  <2>1. /\ saved = {e \in sent : kind[e.job] \in Publishes}
        /\ \A e \in sent : e \in Entry
    BY <1>1 DEF FlightOk
  <2>2. \A e \in sent' : e \in sent /\ kind'[e.job] \in Publishes /\ e.job \in Jobs
    BY <1>3, <2>1 DEF Entry
  <2>3. saved' = {e \in sent' : kind'[e.job] \in Publishes}  BY <1>3, <2>2
  <2>4. \A n : Reached(n) <=> Reached(n)'  BY <1>3 DEF Reached
  <2>5. \A e \in sent' : told'[e.job] = told[e.job]  BY <1>3, <2>2
  <2> QED  BY <1>1, <1>3, <2>1, <2>2, <2>3, <2>4, <2>5 DEF FlightOk
<1>6. MailsOk'  BY <1>1, <1>3 DEF MailsOk, InFlight
<1> QED  BY <1>2, <1>4, <1>5, <1>6 DEF Inv

LEMMA TimesOutKeeps == ASSUME Inv, NEW j \in Jobs, TimesOut(j) PROVE Inv'
<1>1. Lines /\ CallsOk /\ FlightOk /\ MailsOk /\ JobLines /\ MailLines  BY DEF Inv
<1>2. /\ j \in timers /\ timers' = timers \ {j}
      /\ told' = [i \in Jobs |-> IF told[i] = "pending" /\ i \in {j} THEN "failed" ELSE told[i]]
      /\ UNCHANGED <<conn, sent, received, saved, savedIn, nextId, nextSeq, up, down, kind,
                     mail, taken, arrived, clean>>
  BY DEF TimesOut, Settled, serverVars, faultVars
<1>3. kind[j] \notin Publishes  BY <1>1, <1>2 DEF CallsOk, Timed, Publishes
<1>4. Lines'  BY <1>1, <1>2 DEF Lines, OneWay
<1>5. CallsOk'  BY <1>1, <1>2 DEF CallsOk
<1>6. FlightOk'
  <2>1. \A e \in sent : e.job \in Jobs  BY <1>1 DEF FlightOk, Entry
  <2>2. \A e \in sent : kind[e.job] \in Publishes => told'[e.job] = told[e.job]
    BY <1>2, <1>3, <2>1
  <2> QED  BY <1>1, <1>2, <2>2 DEF FlightOk, Reached
<1>7. MailsOk' /\ JobLines' /\ MailLines'
  BY <1>1, <1>2, MailsSame, JobLinesSame, MailLinesSame
<1> QED  BY <1>4, <1>5, <1>6, <1>7 DEF Inv

-----------------------------------------------------------------------------
(* Calls.                                                                    *)

\* The search for an identifier ends: those in flight are not above the number of
\* an earlier call, so that of this call is free.
LEMMA FreeIds ==
  ASSUME CallsOk, FlightOk, NEW j \in Jobs, kind[j] = "none"
  PROVE  /\ FreeId \in Ids /\ FreeId <= j /\ \A e \in sent : e.id # FreeId
<1> USE DeliveryAssumption
<1>1. MaxId \in Nat \ {0} /\ MaxJobs \in Nat /\ j \in 1..MaxJobs /\ nextId \in Nat \ {0}
  BY DEF Jobs, FlightOk
<1>2. \A n \in Nat : Reached(n) => n < j
  <2> SUFFICES ASSUME NEW n \in Nat, NEW k \in Jobs, kind[k] # "none", n <= k PROVE n < j
    BY DEF Reached
  <2>1. ~(j < k) /\ j # k  BY DEF CallsOk
  <2> QED  BY <1>1, <2>1 DEF Jobs
<1>3. j \in Ids /\ j >= nextId  BY <1>1, <1>2 DEF FlightOk, Ids
<1>4. \A e \in sent : e.id \in Ids /\ e.id # j
  <2>1. \A e \in sent : e.id \in Ids /\ Reached(e.id)  BY DEF FlightOk, Entry
  <2>2. \A i \in Ids : i \in Nat  BY <1>1 DEF Ids
  <2> QED  BY <1>1, <1>2, <2>1, <2>2
<1> DEFINE T == {i \in Ids : i >= nextId /\ \A e \in sent : e.id # i}
           P(i) == /\ i >= nextId /\ \A e \in sent : e.id # i
                   /\ \A k \in nextId..(i - 1) : \E e \in sent : e.id = k
<1>5. j \in T /\ T \subseteq Nat  BY <1>1, <1>3, <1>4 DEF Ids
<1>6. PICK x \in T : \A y \in T : x <= y  BY <1>5, Least
<1>7. x \in Ids /\ P(x)
  <2>1. ASSUME NEW k \in nextId..(x - 1) PROVE \E e \in sent : e.id = k
    <3>1. k \in Ids /\ k >= nextId /\ ~(x <= k)  BY <1>1, <1>6 DEF Ids
    <3>2. k \notin T  BY <1>6, <3>1
    <3> QED  BY <3>1, <3>2
  <2> QED  BY <1>6, <2>1
<1>8. FreeId \in Ids /\ P(FreeId)
  <2>1. FreeId = CHOOSE i \in Ids : P(i)  BY DEF FreeId
  <2> HIDE DEF P
  <2> QED  BY <1>7, <2>1
<1>9. FreeId <= x
  <2> SUFFICES ASSUME x < FreeId PROVE FALSE  BY <1>1, <1>7, <1>8 DEF Ids
  <2>1. x \in nextId..(FreeId - 1)  BY <1>1, <1>7, <1>8 DEF Ids
  <2> QED  BY <1>7, <1>8, <2>1
<1> QED  BY <1>1, <1>5, <1>6, <1>7, <1>8, <1>9 DEF Ids

\* Of a call that was not made nothing is on its way.
LEMMA NothingOf ==
  ASSUME FlightOk, JobLines, NEW j, kind[j] = "none"
  PROVE  /\ \A p \in Elems(up) : p.type \in Requests => p.job # j
         /\ \A q \in Elems(down) : q.type \in Replies => q.job # j
         /\ \A e \in sent : e.job # j
<1>1. \A e \in sent : e.job # j
  <2>1. "none" \notin Calls  BY DEF Calls, Publishes, Subscribes, Unsubscribes
  <2> QED  BY <2>1 DEF FlightOk
<1> QED  BY <1>1 DEF JobLines, Asks, AnswerTo

\* One side begins to speak of a message.
LEMMA ClientSpeaks ==
  ASSUME Lines, conn = "up", NEW x \in Packets, x.type \in Requests,
         \A p \in Elems(up) : p.type \in Requests => p.job # x.job,
         \A q \in Elems(down) : q.type \in Replies => q.job # x.job,
         up' = Append(up, x), down' = down, conn' = conn
  PROVE  Lines' /\ Elems(up') = Elems(up) \cup {x}
<1>1. /\ up \in Seq(Packets) /\ down \in Seq(Packets) /\ Sole(up) /\ Sole(down)
      /\ \A p \in Elems(up), q \in Elems(down) : ~Crosses(p, q)
  BY DEF Lines, OneWay
<1>2. /\ up' = up \o <<x>> /\ <<x>> \in Seq(Packets) /\ Sole(<<x>>) /\ Elems(<<x>>) = {x}
  BY <1>1, Short
<1>3. \A p \in Elems(up), q \in Elems(<<x>>) : ~SameLine(p, q)  BY <1>2 DEF SameLine
<1>4. up' \in Seq(Packets) /\ Sole(up') /\ Elems(up') = Elems(up) \cup {x}
  <2>1. /\ up \o <<x>> \in Seq(Packets) /\ Sole(up \o <<x>>)
        /\ Elems(up \o <<x>>) = Elems(up) \cup Elems(<<x>>)
    BY <1>1, <1>2, <1>3, Joined
  <2> QED  BY <1>2, <2>1
<1>5. \A q \in Elems(down) : ~Crosses(x, q)
  BY ReplyTypes, NothingWhenDown DEF Crosses
<1>6. OneWay'  BY <1>1, <1>4, <1>5 DEF OneWay
<1> QED  BY <1>4, <1>6 DEF Lines

LEMMA ServerSpeaks ==
  ASSUME Lines, conn = "up", NEW x \in Packets, x.type \in Requests,
         \A p \in Elems(up) : p.type \in Replies => p.job # x.job,
         \A q \in Elems(down) : q.type \in Requests => q.job # x.job,
         down' = Append(down, x), up' = up, conn' = conn
  PROVE  Lines' /\ Elems(down') = Elems(down) \cup {x}
<1>1. /\ up \in Seq(Packets) /\ down \in Seq(Packets) /\ Sole(up) /\ Sole(down)
      /\ \A p \in Elems(up), q \in Elems(down) : ~Crosses(p, q)
  BY DEF Lines, OneWay
<1>2. /\ down' = down \o <<x>> /\ <<x>> \in Seq(Packets) /\ Sole(<<x>>) /\ Elems(<<x>>) = {x}
  BY <1>1, Short
<1>3. \A p \in Elems(down), q \in Elems(<<x>>) : ~SameLine(p, q)  BY <1>2 DEF SameLine
<1>4. down' \in Seq(Packets) /\ Sole(down') /\ Elems(down') = Elems(down) \cup {x}
  <2>1. /\ down \o <<x>> \in Seq(Packets) /\ Sole(down \o <<x>>)
        /\ Elems(down \o <<x>>) = Elems(down) \cup Elems(<<x>>)
    BY <1>1, <1>2, <1>3, Joined
  <2> QED  BY <1>2, <2>1
<1>5. \A p \in Elems(up) : ~Crosses(p, x)
  BY ReplyTypes, NothingWhenDown DEF Crosses
<1>6. OneWay'  BY <1>1, <1>4, <1>5 DEF OneWay
<1> QED  BY <1>4, <1>6 DEF Lines

\* A call that needs an answer.
LEMMA Asked ==
  ASSUME Inv, conn = "up", NEW j \in Jobs, NEW k \in Calls \ {"qos0"}, Called(j, k),
         NEW seq, seq \in {0, nextSeq + 1}, RequiresAck(j, seq),
         nextSeq' = nextSeq \/ nextSeq' = nextSeq + 1,
         saved' = IF k \in Publishes THEN saved \cup (sent' \ sent) ELSE saved,
         timers' = timers \/ (timers' = timers \cup {j} /\ k \in Timed),
         told' = [told EXCEPT ![j] = "pending"],
         up' = Append(up, Packet(TypeOf(k), WireId(FreeId), j)),
         UNCHANGED <<conn, down, received, savedIn, mail, arrived, taken, clean>>
  PROVE  Inv'
<1> DEFINE d == [id |-> FreeId, job |-> j, rel |-> FALSE, seq |-> seq]
           x == Packet(TypeOf(k), WireId(FreeId), j)
<1>1. Lines /\ CallsOk /\ FlightOk /\ MailsOk /\ JobLines /\ MailLines  BY DEF Inv
<1>2. kind[j] = "none" /\ kind' = [kind EXCEPT ![j] = k]
      /\ \A i \in 1..(j - 1) : kind[i] # "none"
  BY DEF Called
<1>3. FreeId \in Ids /\ FreeId <= j /\ \A e \in sent : e.id # FreeId  BY <1>1, <1>2, FreeIds
<1>4. /\ kind \in [Jobs -> Calls \cup {"none"}] /\ kind'[j] = k
      /\ \A i \in Jobs : i # j => kind'[i] = kind[i]
      /\ kind' \in [Jobs -> Calls \cup {"none"}]
  BY <1>1, <1>2 DEF CallsOk
<1>5. "none" \notin Calls
  BY DEF Calls, Publishes, Subscribes, Unsubscribes
<1>6. /\ \A p \in Elems(up) : p.type \in Requests => p.job # j
      /\ \A q \in Elems(down) : q.type \in Replies => q.job # j
      /\ \A e \in sent : e.job # j
  BY <1>1, <1>2, NothingOf
<1>7. \A n : Reached(n) => Reached(n)'  BY <1>2, <1>4, <1>5 DEF Reached
<1>8. \A n : n <= j => Reached(n)'  BY <1>4, <1>5 DEF Reached
<1>9. /\ FreeId \in Nat \ {0} /\ j \in Nat \ {0} /\ WireId(FreeId) \in Nat /\ j <= MaxJobs
      /\ MaxJobs \in Nat
  BY <1>3, WireIds, DeliveryAssumption DEF Jobs
<1>10. nextSeq + 1 \in Nat /\ nextSeq + 1 <= j
  <2>1. nextSeq \in Nat /\ (nextSeq = 0 \/ Reached(nextSeq))  BY <1>1 DEF FlightOk
  <2>2. Reached(nextSeq) => nextSeq < j
    <3> SUFFICES ASSUME NEW i \in Jobs, kind[i] # "none", nextSeq <= i PROVE nextSeq < j
      BY DEF Reached
    <3>1. ~(j < i) /\ i # j  BY <1>1, <1>2 DEF CallsOk
    <3>2. i \in Nat  BY DeliveryAssumption DEF Jobs
    <3> QED  BY <1>9, <2>1, <3>1, <3>2
  <2> QED  BY <1>9, <2>1, <2>2
<1>11. seq \in 0..MaxJobs  BY <1>9, <1>10
<1>12. d \in Entry /\ d.id = FreeId /\ d.job = j /\ d.rel = FALSE  BY <1>3, <1>11 DEF Entry
<1>13. sent' = sent \cup {d} /\ (nextId' = 1 \/ nextId' = FreeId)  BY DEF RequiresAck
<1>14. /\ x \in Packets /\ x.type = TypeOf(k) /\ x.id = WireId(FreeId) /\ x.job = j
       /\ x.type \in Requests /\ x.type \notin Replies
  <2>1. TypeOf(k) \in {"PUBLISH", "SUBSCRIBE", "UNSUBSCRIBE"}  BY TypesOfCalls
  <2>2. TypeOf(k) \in PacketTypes  BY <2>1 DEF PacketTypes
  <2>3. x \in Packets /\ x.type = TypeOf(k) /\ x.id = WireId(FreeId) /\ x.job = j
    BY <1>9, <2>2, PacketIn
  <2> QED  BY <2>1, <2>3 DEF Requests, Replies
<1>15. up' = Append(up, x)  OBVIOUS
<1> HIDE DEF d, x
<1>16. Lines' /\ Elems(up') = Elems(up) \cup {x}  BY <1>1, <1>6, <1>14, <1>15, ClientSpeaks
<1>17. CallsOk'
  <2>1. told' \in [Jobs -> {"none", "pending", "done", "failed", "lost"}]
    BY <1>1 DEF CallsOk
  <2>2. \A i \in timers' : i \in Jobs /\ kind'[i] \in Timed
    <3>1. \A i \in timers : i \in Jobs /\ kind[i] \in Timed /\ i # j
      BY <1>1, <1>2 DEF CallsOk, Timed
    <3> QED  BY <1>4, <3>1
  <2>3. \A i, m \in Jobs : i < m /\ kind'[m] # "none" => kind'[i] # "none"
    <3> SUFFICES ASSUME NEW i \in Jobs, NEW m \in Jobs, i < m, kind'[m] # "none", i # j
                 PROVE  kind[i] # "none"
      BY <1>4, <1>5
    <3>1. CASE m = j
      <4>1. i \in 1..(j - 1)  BY <1>9, <3>1 DEF Jobs
      <4> QED  BY <1>2, <4>1
    <3>2. CASE m # j  BY <1>1, <1>4, <3>2 DEF CallsOk
    <3> QED  BY <3>1, <3>2
  <2>4. \A i \in Jobs : kind'[i] = "none" => told'[i] = "none" /\ taken'[i] = 0
    BY <1>1, <1>4, <1>5 DEF CallsOk
  <2> QED  BY <1>1, <1>4, <2>1, <2>2, <2>3, <2>4 DEF CallsOk
<1>18. FlightOk'
  <2>1. \A e \in sent' : e = d \/ (e \in sent /\ e.id # FreeId /\ e.job # j /\ e.job \in Jobs)
    BY <1>1, <1>3, <1>6, <1>13 DEF FlightOk, Entry
  <2>2. sent' \subseteq Entry  BY <1>1, <1>12, <1>13 DEF FlightOk
  <2>3. d \notin sent  BY <1>6, <1>12
  <2>4. saved' = {e \in sent' : kind'[e.job] \in Publishes}
    <3>1. saved = {e \in sent : kind[e.job] \in Publishes}  BY <1>1 DEF FlightOk
    <3>2. sent' \ sent = {d}  BY <1>13, <2>3
    <3>3. \A e \in sent' : kind'[e.job] = IF e = d THEN k ELSE kind[e.job]
      BY <1>4, <1>6, <1>12, <1>13, <2>1
    <3>4. CASE k \in Publishes  BY <1>13, <2>3, <3>1, <3>2, <3>3, <3>4
    <3>5. CASE k \notin Publishes  BY <1>13, <2>3, <3>1, <3>2, <3>3, <3>5
    <3> QED  BY <3>4, <3>5
  <2>5. nextId' \in Nat \ {0} /\ (nextId' = 1 \/ Reached(nextId)')
    <3>1. nextId' \in Nat \ {0}  BY <1>9, <1>13
    <3>2. nextId' = FreeId => Reached(nextId)'
      <4>1. \E i \in Jobs : kind'[i] # "none" /\ FreeId <= i  BY <1>3, <1>4, <1>5
      <4> QED  BY <4>1 DEF Reached
    <3> QED  BY <1>13, <3>1, <3>2
  <2>6. nextSeq' \in Nat /\ (nextSeq' = 0 \/ Reached(nextSeq)')
    <3>1. CASE nextSeq' = nextSeq  BY <1>1, <1>7, <3>1 DEF FlightOk, Reached
    <3>2. CASE nextSeq' = nextSeq + 1  BY <1>8, <1>10, <3>2 DEF Reached
    <3> QED  BY <3>1, <3>2
  <2>7. \A e \in sent' : /\ Reached(e.id)'
                         /\ kind'[e.job] \in Calls \ {"qos0"}
                         /\ kind'[e.job] \in Publishes => told'[e.job] = "pending"
                         /\ e.rel => kind'[e.job] = "qos2" /\ WireId(e.id) = e.id
    <3> SUFFICES ASSUME NEW e \in sent'
                 PROVE  /\ Reached(e.id)'
                        /\ kind'[e.job] \in Calls \ {"qos0"}
                        /\ kind'[e.job] \in Publishes => told'[e.job] = "pending"
                        /\ e.rel => kind'[e.job] = "qos2" /\ WireId(e.id) = e.id
      OBVIOUS
    <3>1. CASE e = d
      <4>1. told'[j] = "pending"  BY <1>1 DEF CallsOk
      <4> QED  BY <1>3, <1>4, <1>8, <1>12, <3>1, <4>1
    <3>2. CASE e # d
      <4>1. e \in sent /\ kind'[e.job] = kind[e.job] /\ told'[e.job] = told[e.job]
        BY <1>1, <1>4, <2>1, <3>2 DEF CallsOk
      <4> QED  BY <1>1, <1>7, <4>1 DEF FlightOk
    <3> QED  BY <3>1, <3>2
  <2>8. \A e, f \in sent' : e.id = f.id \/ e.job = f.job => e = f
    BY <1>1, <1>12, <2>1 DEF FlightOk
  <2> QED  BY <2>2, <2>4, <2>5, <2>6, <2>7, <2>8 DEF FlightOk
<1>19. MailsOk'  BY <1>1, MailsSame
<1>20. \A e \in sent : e \in sent' /\ kind'[e.job] = kind[e.job]
  <2>1. \A e \in sent : e.job \in Jobs /\ e.job # j  BY <1>1, <1>6 DEF FlightOk, Entry
  <2> QED  BY <1>4, <1>13, <2>1
<1>21. JobLines'
  <2>1. ASSUME NEW p \in Elems(up'), p.type \in Requests
        PROVE  \/ p.job \in Jobs /\ kind'[p.job] = "qos0" /\ p.type = "PUBLISH"
               \/ \E e \in sent' : Asks(kind'[e.job], e, p)
    <3>1. CASE p = x
      <4>1. Asks(kind'[d.job], d, p)  BY <1>4, <1>12, <1>14, <3>1 DEF Asks
      <4> QED  BY <1>13, <4>1
    <3>2. CASE p \in Elems(up)
      <4>1. p.job # j  BY <1>6, <2>1, <3>2
      <4> QED  BY <1>1, <1>4, <1>20, <2>1, <3>2, <4>1 DEF JobLines
    <3> QED  BY <1>16, <3>1, <3>2
  <2>2. \A q \in Elems(down') : q.type \in Replies =>
          \E e \in sent' : AnswerTo(kind'[e.job], e, q)
    BY <1>1, <1>20 DEF JobLines
  <2> QED  BY <2>1, <2>2 DEF JobLines
<1>22. MailLines'  BY <1>1, <1>14, <1>16, MailLinesSame
<1> QED  BY <1>16, <1>17, <1>18, <1>19, <1>21, <1>22 DEF Inv

LEMMA PublishCallKeeps == ASSUME Inv, NEW j \in Jobs, PublishCall(j) PROVE Inv'
<1>1. Lines /\ CallsOk /\ FlightOk /\ MailsOk /\ JobLines /\ MailLines  BY DEF Inv
<1>2. /\ conn = "up"
      /\ UNCHANGED <<conn, down, mail, taken, arrived, clean>>
  BY DEF PublishCall, serverVars, faultVars
<1>3. PICK k \in Kinds \cap Publishes :
       /\ Called(j, k)
       /\ IF k = "qos0"
          THEN /\ told' = [told EXCEPT ![j] = "done"]
               /\ up' = Append(up, Packet("PUBLISH", 0, j))
               /\ UNCHANGED clientVars
          ELSE /\ told' = [told EXCEPT ![j] = "pending"]
               /\ RequiresAck(j, nextSeq + 1)
               /\ nextSeq' = nextSeq + 1
               /\ saved' = saved \cup (sent' \ sent)
               /\ up' = Append(up, Packet("PUBLISH", WireId(FreeId), j))
               /\ UNCHANGED <<received, savedIn, timers>>
  BY DEF PublishCall
<1>4. CASE k # "qos0"
  <2>1. k \in Calls \ {"qos0"} /\ k \in Publishes  BY <1>4 DEF Calls
  <2>2. TypeOf(k) = "PUBLISH"  BY <2>1, TypesOfCalls
  <2>3. /\ told' = [told EXCEPT ![j] = "pending"] /\ Called(j, k)
        /\ RequiresAck(j, nextSeq + 1) /\ nextSeq' = nextSeq + 1
        /\ saved' = saved \cup (sent' \ sent)
        /\ up' = Append(up, Packet(TypeOf(k), WireId(FreeId), j))
        /\ UNCHANGED <<received, savedIn, timers>>
    BY <1>3, <1>4, <2>2
  <2>4. nextSeq + 1 \in {0, nextSeq + 1}  OBVIOUS
  <2> DEFINE s == nextSeq + 1
  <2>5. s \in {0, s} /\ RequiresAck(j, s) /\ nextSeq' = s /\ s = nextSeq + 1
    BY <2>3
  <2> HIDE DEF s
  <2> QED  BY <1>2, <2>1, <2>3, <2>5, Asked
<1>5. CASE k = "qos0"
  <2> DEFINE x == Packet("PUBLISH", 0, j)
  <2>1. /\ kind[j] = "none" /\ kind' = [kind EXCEPT ![j] = "qos0"]
        /\ \A i \in 1..(j - 1) : kind[i] # "none"
        /\ told' = [told EXCEPT ![j] = "done"] /\ up' = Append(up, x)
        /\ UNCHANGED <<sent, received, saved, savedIn, nextId, nextSeq, timers>>
    BY <1>3, <1>5 DEF Called, clientVars
  <2>2. j \in Nat  BY DeliveryAssumption DEF Jobs
  <2>3. x \in Packets /\ x.type = "PUBLISH" /\ x.job = j
    BY <2>2, PacketIn DEF PacketTypes
  <2>4. x.type \in Requests /\ x.type \notin Replies  BY <2>3 DEF Requests, Replies
  <2> HIDE DEF x
  <2>5. /\ \A p \in Elems(up) : p.type \in Requests => p.job # j
        /\ \A q \in Elems(down) : q.type \in Replies => q.job # j
        /\ \A e \in sent : e.job # j
    BY <1>1, <2>1, NothingOf
  <2>6. Lines' /\ Elems(up') = Elems(up) \cup {x}
    BY <1>1, <1>2, <2>1, <2>3, <2>4, <2>5, ClientSpeaks
  <2>7. /\ kind'[j] = "qos0" /\ "qos0" # "none" /\ "qos0" \in Calls
        /\ \A i \in Jobs : i # j => kind'[i] = kind[i] /\ told'[i] = told[i]
        /\ kind' \in [Jobs -> Calls \cup {"none"}]
        /\ told' \in [Jobs -> {"none", "pending", "done", "failed", "lost"}]
    BY <1>1, <2>1 DEF CallsOk, Calls, Publishes
  <2>8. CallsOk'
    <3>1. \A i \in timers' : i \in Jobs /\ kind'[i] \in Timed
      <4>1. \A i \in timers : i \in Jobs /\ kind[i] \in Timed /\ i # j
        BY <1>1, <2>1 DEF CallsOk, Timed
      <4> QED  BY <2>1, <2>7, <4>1
    <3>2. \A i, m \in Jobs : i < m /\ kind'[m] # "none" => kind'[i] # "none"
      <4> SUFFICES ASSUME NEW i \in Jobs, NEW m \in Jobs, i < m, kind'[m] # "none", i # j
                   PROVE  kind[i] # "none"
        BY <2>7
      <4>1. CASE m = j
        <5>1. i \in 1..(j - 1)  BY <4>1, DeliveryAssumption DEF Jobs
        <5> QED  BY <2>1, <5>1
      <4>2. CASE m # j  BY <1>1, <2>7, <4>2 DEF CallsOk
      <4> QED  BY <4>1, <4>2
    <3>3. \A i \in Jobs : kind'[i] = "none" => told'[i] = "none" /\ taken'[i] = 0
      BY <1>1, <1>2, <2>7 DEF CallsOk
    <3> QED  BY <1>1, <1>2, <2>7, <3>1, <3>2, <3>3 DEF CallsOk
  <2>9. \A e \in sent : e.job \in Jobs /\ e.job # j /\ kind'[e.job] = kind[e.job]
                        /\ told'[e.job] = told[e.job]
    <3>1. \A e \in sent : e.job \in Jobs  BY <1>1 DEF FlightOk, Entry
    <3> QED  BY <2>5, <2>7, <3>1
  <2>10. FlightOk'
    <3>1. \A n : Reached(n) => Reached(n)'  BY <2>1, <2>7 DEF Reached
    <3>2. (nextId' = 1 \/ Reached(nextId)') /\ (nextSeq' = 0 \/ Reached(nextSeq)')
      BY <1>1, <2>1, <2>7 DEF FlightOk, Reached
    <3>3. saved' = {e \in sent' : kind'[e.job] \in Publishes}
      BY <1>1, <2>1, <2>9 DEF FlightOk
    <3> QED  BY <1>1, <2>1, <2>9, <3>1, <3>2, <3>3 DEF FlightOk
  <2>11. MailsOk'  BY <1>1, <1>2, <2>1, MailsSame
  <2>12. JobLines'
    <3>1. ASSUME NEW p \in Elems(up'), p.type \in Requests
          PROVE  \/ p.job \in Jobs /\ kind'[p.job] = "qos0" /\ p.type = "PUBLISH"
                 \/ \E e \in sent' : Asks(kind'[e.job], e, p)
      <4>1. CASE p = x  BY <2>3, <2>7, <4>1
      <4>2. CASE p \in Elems(up)
        <5>1. p.job # j  BY <2>5, <3>1, <4>2
        <5> QED  BY <1>1, <2>1, <2>7, <2>9, <3>1, <4>2, <5>1 DEF JobLines
      <4> QED  BY <2>6, <4>1, <4>2
    <3>2. \A q \in Elems(down') : q.type \in Replies =>
            \E e \in sent' : AnswerTo(kind'[e.job], e, q)
      BY <1>1, <1>2, <2>1, <2>9 DEF JobLines
    <3> QED  BY <3>1, <3>2 DEF JobLines
  <2>13. MailLines'  BY <1>1, <1>2, <2>4, <2>6, MailLinesSame
  <2> QED  BY <2>6, <2>8, <2>10, <2>11, <2>12, <2>13 DEF Inv
<1> QED  BY <1>4, <1>5

LEMMA SubscribeCallKeeps == ASSUME Inv, NEW j \in Jobs, SubscribeCall(j) PROVE Inv'
<1>1. /\ conn = "up" /\ told' = [told EXCEPT ![j] = "pending"] /\ RequiresAck(j, 0)
      /\ UNCHANGED <<conn, received, saved, savedIn, nextSeq, down, mail, taken, arrived, clean>>
  BY DEF SubscribeCall, serverVars, faultVars
<1>2. PICK k \in Kinds \cap (Subscribes \cup Unsubscribes) :
       /\ Called(j, k)
       /\ timers' = IF k \in Timed THEN timers \cup {j} ELSE timers
       /\ up' = Append(up, Packet(TypeOf(k), WireId(FreeId), j))
  BY DEF SubscribeCall
<1>3. k \in Calls \ {"qos0"} /\ k \notin Publishes
  BY DEF Calls, Publishes, Subscribes, Unsubscribes
<1>4. timers' = timers \/ (timers' = timers \cup {j} /\ k \in Timed)  BY <1>2
<1> DEFINE s == 0
<1>5. s \in {0, nextSeq + 1} /\ RequiresAck(j, s)  BY <1>1
<1> HIDE DEF s
<1> QED  BY <1>1, <1>2, <1>3, <1>4, <1>5, Asked

-----------------------------------------------------------------------------
(* The server receives.                                                      *)

LEMMA ServerHead ==
  ASSUME Lines, up # <<>>
  PROVE  /\ Head(up) \in Elems(up) /\ Head(up) \in Packets /\ conn \in {"opening", "up"}
         /\ Head(up).type \in Requests \cup Replies => conn = "up"
         /\ Head(up).type = "CONNECT" => conn = "opening"
<1>1. up \in Seq(Packets) /\ Sole(up)  BY DEF Lines, OneWay
<1>2. Head(up) \in Elems(up) /\ Head(up) \in Packets  BY <1>1, HeadOff
<1>3. "CONNECT" \notin Requests \cup Replies  BY DEF Requests, Replies
<1> QED  BY <1>2, <1>3 DEF Lines

\* It answers a request of the client.
LEMMA Replied ==
  ASSUME Inv, up # <<>>, Head(up).type \in Requests, NEW e \in sent,
         NEW x \in Packets, x.type \in Replies, x.job = Head(up).job,
         AnswerTo(kind[e.job], e, x),
         up' = Tail(up), down' = down \o <<x>>,
         UNCHANGED <<conn, clientVars, kind, told, mail, arrived>>
  PROVE  Lines' /\ FlightOk' /\ MailsOk' /\ JobLines' /\ MailLines'
<1>1. Lines /\ FlightOk /\ MailsOk /\ JobLines /\ MailLines  BY DEF Inv
<1>2. conn = "up"  BY <1>1, ServerHead
<1>3. x.type \notin Requests  BY ReplyTypes
<1>4. Crosses(x, Head(up))  BY <1>3 DEF Crosses
<1>5. /\ Lines' /\ Elems(down') = Elems(down) \cup Elems(<<x>>)
      /\ \A p \in Elems(up') : p \in Elems(up)
  BY <1>1, <1>2, <1>4, ServerGets
<1>6. Elems(down') = Elems(down) \cup {x}  BY <1>5, Short
<1>7. FlightOk' /\ MailsOk'  BY <1>1, FlightSame, MailsSame DEF clientVars
<1>8. JobLines'
  <2>1. sent' = sent /\ kind' = kind  BY DEF clientVars
  <2> QED  BY <1>1, <1>5, <1>6, <2>1 DEF JobLines
<1>9. MailLines'  BY <1>1, <1>3, <1>5, <1>6, MailLinesSame
<1> QED  BY <1>5, <1>7, <1>8, <1>9

\* It takes a request without an answer, or an answer to what it sent.
LEMMA Accepted ==
  ASSUME Inv, up # <<>>, Head(up).type \in Requests \cup Replies,
         up' = Tail(up), down' = down \o <<>>,
         UNCHANGED <<conn, clientVars, kind>>
  PROVE  /\ Lines' /\ JobLines' /\ down' = down
         /\ \A p \in Elems(up') : p \in Elems(up) /\ ~SameLine(p, Head(up))
         /\ \A q \in Elems(down) : ~Crosses(q, Head(up))
<1>1. Lines /\ JobLines  BY DEF Inv
<1>2. conn = "up"  BY <1>1, ServerHead
<1>3. /\ Lines'
      /\ \A p \in Elems(up') : p \in Elems(up) /\ ~SameLine(p, Head(up))
      /\ \A q \in Elems(down) : ~Crosses(q, Head(up))
  BY <1>1, <1>2, ServerGets
<1>4. down' = down  BY <1>1, Short DEF Lines
<1>5. JobLines'
  <2>1. sent' = sent /\ kind' = kind  BY DEF clientVars
  <2> QED  BY <1>1, <1>3, <1>4, <2>1, JobLinesSame
<1> QED  BY <1>3, <1>4, <1>5

\* The entry a request is about, under its identifier.
LEMMA Asker ==
  ASSUME Inv, IdsFit, up # <<>>, Head(up).type \in Requests,
         Head(up).id # 0 \/ Head(up).type = "PUBREL",
         Head(up).type # "PUBLISH" \/ kind[Head(up).job] # "qos0"
  PROVE  \E e \in sent :
           /\ Asks(kind[e.job], e, Head(up)) /\ e.id = Head(up).id /\ WireId(e.id) = e.id
           /\ e.job = Head(up).job /\ kind[e.job] \in Calls \ {"qos0"} /\ e.job \in Jobs
           /\ e.id \in Nat /\ e.job \in Nat
<1>1. Lines /\ FlightOk /\ JobLines  BY DEF Inv
<1>2. Head(up) \in Elems(up)  BY <1>1, ServerHead
<1>3. PICK e \in sent : Asks(kind[e.job], e, Head(up))  BY <1>1, <1>2 DEF JobLines
<1>4. e \in Entry /\ e.id \in Ids /\ e.job \in Jobs /\ kind[e.job] \in Calls \ {"qos0"}
  BY <1>1 DEF FlightOk, Entry
<1>5. e.job = Head(up).job /\ WireId(e.id) = Head(up).id  BY <1>3 DEF Asks
<1>6. WireId(e.id) = e.id
  <2>1. CASE Head(up).type = "PUBREL"
    <3>1. TypeOf(kind[e.job]) # "PUBREL"  BY <1>4, TypesOfCalls
    <3>2. e.rel  BY <1>3, <2>1, <3>1 DEF Asks
    <3> QED  BY <1>1, <3>2 DEF FlightOk
  <2>2. CASE Head(up).id # 0  BY <1>4, <1>5, <2>2, WireIds DEF IdsFit
  <2> QED  BY <2>1, <2>2
<1>7. e.id \in Nat /\ e.job \in Nat  BY <1>4, WireIds, DeliveryAssumption DEF Jobs
<1> QED  BY <1>3, <1>4, <1>5, <1>6, <1>7

LEMMA ServePublishEffect ==
  ASSUME Inv, IdsFit, ServePublish
  PROVE  /\ up # <<>> /\ Head(up).type = "PUBLISH" /\ up' = Tail(up)
         /\ UNCHANGED <<conn, clientVars, kind, told, mail, arrived, clean>>
         /\ LET j == Head(up).job
                new == kind[j] # "qos2" \/ Head(up).id \notin held IN
            /\ j \in Jobs
            /\ taken' = IF new THEN [taken EXCEPT ![j] = @ + 1] ELSE taken
            /\ held' = IF kind[j] = "qos2" THEN held \cup {Head(up).id} ELSE held
            /\ \/ kind[j] = "qos0" /\ down' = down \o <<>>
               \/ \E e \in sent : \E x \in Packets :
                    /\ Asks(kind[e.job], e, Head(up)) /\ e.id = Head(up).id /\ e.job = j /\ ~e.rel
                    /\ down' = down \o <<x>> /\ AnswerTo(kind[e.job], e, x)
                    /\ x.job = j /\ x.id = e.id
                    /\ \/ kind[j] = "qos1" /\ x.type = "PUBACK"
                       \/ kind[j] = "qos2" /\ x.type = "PUBREC"
<1> DEFINE h == Head(up)
           k == kind[h.job]
           new == k # "qos2" \/ h.id \notin held
<1>1. /\ up # <<>> /\ h.type = "PUBLISH" /\ up' = Tail(up)
      /\ UNCHANGED <<conn, clientVars, kind, told, mail, arrived, clean>>
      /\ k = "qos0" \/ h.id # 0
      /\ taken' = IF new THEN [taken EXCEPT ![h.job] = @ + 1] ELSE taken
      /\ held' = IF k = "qos2" THEN held \cup {h.id} ELSE held
  BY DEF ServePublish, Serves, callVars, faultVars
<1>2. /\ k = "qos0" => down' = down \o <<>>
      /\ k = "qos1" => down' = down \o <<Packet("PUBACK", h.id, h.job)>>
      /\ k = "qos2" => down' = down \o <<Packet("PUBREC", h.id, h.job)>>
  BY DEF ServePublish, Serves
<1>3. h.type \in Requests  BY <1>1 DEF Requests
<1>4. CASE k = "qos0"
  <2>1. Lines /\ FlightOk /\ JobLines  BY DEF Inv
  <2>2. h \in Elems(up)  BY <1>1, <2>1, ServerHead
  <2>3. h.job \in Jobs
    <3>1. \A e \in sent : e.job \in Jobs  BY <2>1 DEF FlightOk, Entry
    <3> QED  BY <1>3, <2>1, <2>2, <3>1 DEF JobLines, Asks
  <2> QED  BY <1>1, <1>2, <1>4, <2>3
<1>5. CASE k # "qos0"
  <2>1. PICK e \in sent :
           /\ Asks(kind[e.job], e, h) /\ e.id = h.id /\ WireId(e.id) = e.id
           /\ e.job = h.job /\ kind[e.job] \in Calls \ {"qos0"} /\ e.job \in Jobs
           /\ e.id \in Nat /\ e.job \in Nat
    BY <1>1, <1>3, <1>5, Asker
  <2>2. ~e.rel /\ TypeOf(k) = "PUBLISH"  BY <1>1, <2>1 DEF Asks
  <2>3. k \in {"qos1", "qos2"}  BY <1>5, <2>1, <2>2, TypesOfCalls DEF Publishes
  <2> DEFINE x == Packet(IF k = "qos1" THEN "PUBACK" ELSE "PUBREC", h.id, h.job)
  <2>4. /\ x \in Packets /\ x.id = e.id /\ x.job = h.job
        /\ x.type = IF k = "qos1" THEN "PUBACK" ELSE "PUBREC"
    BY <2>1, PacketIn DEF PacketTypes
  <2>5. down' = down \o <<x>>  BY <1>2, <2>3
  <2> HIDE DEF x
  <2>6. AnswerTo(kind[e.job], e, x)  BY <2>1, <2>2, <2>3, <2>4 DEF AnswerTo
  <2> QED  BY <1>1, <2>1, <2>2, <2>3, <2>4, <2>5, <2>6
<1> QED  BY <1>4, <1>5

LEMMA ServePublishKeeps == ASSUME Inv, IdsFit, ServePublish PROVE Inv'
<1> DEFINE j == Head(up).job
<1>1. Lines /\ CallsOk /\ FlightOk /\ MailsOk /\ JobLines /\ MailLines  BY DEF Inv
<1>2. /\ up # <<>> /\ Head(up).type = "PUBLISH" /\ up' = Tail(up)
      /\ UNCHANGED <<conn, clientVars, kind, told, mail, arrived, clean>>
      /\ j \in Jobs
      /\ taken' = [taken EXCEPT ![j] = @ + 1] \/ taken' = taken
      /\ \/ kind[j] = "qos0" /\ down' = down \o <<>>
         \/ \E e \in sent : \E x \in Packets :
              /\ Asks(kind[e.job], e, Head(up)) /\ e.id = Head(up).id /\ e.job = j /\ ~e.rel
              /\ down' = down \o <<x>> /\ AnswerTo(kind[e.job], e, x)
              /\ x.job = j /\ x.id = e.id
              /\ \/ kind[j] = "qos1" /\ x.type = "PUBACK"
                 \/ kind[j] = "qos2" /\ x.type = "PUBREC"
  BY ServePublishEffect
<1>3. Head(up).type \in Requests  BY <1>2 DEF Requests
<1>4. kind[j] # "none"
  <2>1. kind[j] \in {"qos0", "qos1", "qos2"}  BY <1>2
  <2> QED  BY <2>1
<1>5. CallsOk'
  <2>1. taken' \in [Jobs -> Nat] /\ \A i \in Jobs : i # j => taken'[i] = taken[i]
    BY <1>1, <1>2 DEF CallsOk
  <2>2. timers' = timers  BY <1>2 DEF clientVars
  <2> HIDE DEF j
  <2> QED  BY <1>1, <1>2, <1>4, <2>1, <2>2 DEF CallsOk
<1>6. Lines' /\ FlightOk' /\ MailsOk' /\ JobLines' /\ MailLines'
  <2>1. CASE kind[j] = "qos0" /\ down' = down \o <<>>
    <3>1. Lines' /\ JobLines' /\ down' = down /\ \A p \in Elems(up') : p \in Elems(up)
      BY <1>2, <1>3, <2>1, Accepted
    <3>2. FlightOk' /\ MailsOk'  BY <1>1, <1>2, FlightSame, MailsSame DEF clientVars
    <3>3. MailLines'  BY <1>1, <1>2, <3>1, MailLinesSame
    <3> QED  BY <3>1, <3>2, <3>3
  <2>2. CASE ~(kind[j] = "qos0" /\ down' = down \o <<>>)
    <3>1. PICK e \in sent : \E x \in Packets :
              /\ Asks(kind[e.job], e, Head(up)) /\ e.id = Head(up).id /\ e.job = j /\ ~e.rel
              /\ down' = down \o <<x>> /\ AnswerTo(kind[e.job], e, x)
              /\ x.job = j /\ x.id = e.id
              /\ \/ kind[j] = "qos1" /\ x.type = "PUBACK"
                 \/ kind[j] = "qos2" /\ x.type = "PUBREC"
      BY <1>2, <2>2
    <3>2. PICK x \in Packets :
              /\ down' = down \o <<x>> /\ AnswerTo(kind[e.job], e, x)
              /\ x.job = Head(up).job /\ x.type \in {"PUBACK", "PUBREC"}
      BY <3>1
    <3>3. x.type \in Replies  BY <3>2 DEF Replies
    <3> QED  BY <1>2, <1>3, <3>2, <3>3, Replied
  <2> QED  BY <2>1, <2>2
<1> QED  BY <1>5, <1>6 DEF Inv

LEMMA ServePubrelEffect ==
  ASSUME Inv, IdsFit, ServePubrel
  PROVE  /\ up # <<>> /\ Head(up).type = "PUBREL" /\ up' = Tail(up)
         /\ UNCHANGED <<conn, clientVars, kind, told, mail, taken, arrived, clean>>
         /\ held' = held \ {Head(up).id}
         /\ \E e \in sent : \E x \in Packets :
              /\ e.id = Head(up).id /\ e.job = Head(up).job /\ e.rel
              /\ down' = down \o <<x>> /\ AnswerTo(kind[e.job], e, x)
              /\ x.job = Head(up).job /\ x.id = Head(up).id /\ x.type = "PUBCOMP"
<1> DEFINE h == Head(up)
           x == Packet("PUBCOMP", h.id, h.job)
<1>1. /\ up # <<>> /\ h.type = "PUBREL" /\ up' = Tail(up) /\ down' = down \o <<x>>
      /\ UNCHANGED <<conn, clientVars, kind, told, mail, taken, arrived, clean>>
      /\ held' = held \ {h.id}
  BY DEF ServePubrel, Serves, callVars, faultVars
<1>2. h.type \in Requests  BY <1>1 DEF Requests
<1>3. PICK e \in sent :
           /\ Asks(kind[e.job], e, h) /\ e.id = h.id /\ WireId(e.id) = e.id
           /\ e.job = h.job /\ kind[e.job] \in Calls \ {"qos0"} /\ e.job \in Jobs
           /\ e.id \in Nat /\ e.job \in Nat
  BY <1>1, <1>2, Asker
<1>4. x \in Packets /\ x.id = h.id /\ x.job = h.job /\ x.type = "PUBCOMP"
  BY <1>3, PacketIn DEF PacketTypes
<1> HIDE DEF x
<1>5. e.rel
  <2>1. TypeOf(kind[e.job]) # "PUBREL"  BY <1>3, TypesOfCalls
  <2> QED  BY <1>1, <1>3, <2>1 DEF Asks
<1>6. kind[e.job] = "qos2"  BY <1>5 DEF Inv, FlightOk
<1>7. AnswerTo(kind[e.job], e, x)  BY <1>3, <1>4, <1>5, <1>6 DEF AnswerTo
<1> QED  BY <1>1, <1>3, <1>4, <1>5, <1>7

LEMMA ServePubrelKeeps == ASSUME Inv, IdsFit, ServePubrel PROVE Inv'
<1>1. /\ up # <<>> /\ Head(up).type = "PUBREL" /\ up' = Tail(up)
      /\ UNCHANGED <<conn, clientVars, kind, told, mail, taken, arrived, clean>>
  BY ServePubrelEffect
<1>2. PICK e \in sent : \E x \in Packets :
              /\ e.id = Head(up).id /\ e.job = Head(up).job /\ e.rel
              /\ down' = down \o <<x>> /\ AnswerTo(kind[e.job], e, x)
              /\ x.job = Head(up).job /\ x.id = Head(up).id /\ x.type = "PUBCOMP"
  BY ServePubrelEffect
<1>3. PICK x \in Packets : /\ down' = down \o <<x>> /\ AnswerTo(kind[e.job], e, x)
                           /\ x.job = Head(up).job /\ x.type = "PUBCOMP"
  BY <1>2
<1>4. x.type \in Replies /\ Head(up).type \in Requests  BY <1>1, <1>3 DEF Requests, Replies
<1>5. Lines' /\ FlightOk' /\ MailsOk' /\ JobLines' /\ MailLines'
  BY <1>1, <1>3, <1>4, Replied
<1>6. CallsOk'
  <2>1. CallsOk /\ timers' = timers  BY <1>1 DEF Inv, clientVars
  <2> QED  BY <1>1, <2>1, CallsSame
<1> QED  BY <1>5, <1>6 DEF Inv

LEMMA ServeSubscribeKeeps ==
  ASSUME Inv, IdsFit, ServeSubscribe
  PROVE  Inv' /\ UNCHANGED <<conn, clean, clientVars, kind, told, held, mail, taken, arrived>>
         /\ up # <<>> /\ up' = Tail(up)
         /\ \E x : down' = down \o <<x>> /\ x \in Packets /\ x.type \in {"SUBACK", "UNSUBACK"}
<1> DEFINE h == Head(up)
           x == Packet(IF h.type = "SUBSCRIBE" THEN "SUBACK" ELSE "UNSUBACK", h.id, h.job)
<1>1. /\ up # <<>> /\ h.type \in {"SUBSCRIBE", "UNSUBSCRIBE"} /\ up' = Tail(up)
      /\ down' = down \o <<x>> /\ h.id # 0
      /\ UNCHANGED <<conn, clientVars, kind, told, held, mail, taken, arrived, clean>>
  BY DEF ServeSubscribe, Serves, callVars, serverVars, faultVars
<1>2. h.type \in Requests /\ h.type # "PUBLISH" /\ h.type # "PUBREL"  BY <1>1 DEF Requests
<1>3. PICK e \in sent :
           /\ Asks(kind[e.job], e, h) /\ e.id = h.id /\ WireId(e.id) = e.id
           /\ e.job = h.job /\ kind[e.job] \in Calls \ {"qos0"} /\ e.job \in Jobs
           /\ e.id \in Nat /\ e.job \in Nat
  BY <1>1, <1>2, Asker
<1>4. /\ x \in Packets /\ x.id = h.id /\ x.job = h.job
      /\ x.type = IF h.type = "SUBSCRIBE" THEN "SUBACK" ELSE "UNSUBACK"
  BY <1>3, PacketIn DEF PacketTypes
<1> HIDE DEF x
<1>5. h.type = TypeOf(kind[e.job])  BY <1>2, <1>3 DEF Asks
<1>6. AnswerTo(kind[e.job], e, x)
  <2>1. /\ h.type = "SUBSCRIBE" => kind[e.job] \in Subscribes
        /\ h.type = "UNSUBSCRIBE" => kind[e.job] \in Unsubscribes
    BY <1>3, <1>5, TypesOfCalls
  <2> QED  BY <1>1, <1>3, <1>4, <2>1 DEF AnswerTo
<1>7. x.type \in {"SUBACK", "UNSUBACK"} /\ x.type \in Replies  BY <1>4 DEF Replies
<1>8. Lines' /\ FlightOk' /\ MailsOk' /\ JobLines' /\ MailLines'
  BY <1>1, <1>2, <1>4, <1>6, <1>7, Replied
<1>9. CallsOk'
  <2>1. CallsOk /\ timers' = timers  BY <1>1 DEF Inv, clientVars
  <2> QED  BY <1>1, <2>1, CallsSame
<1>10. Inv'  BY <1>8, <1>9 DEF Inv
<1> QED  BY <1>1, <1>4, <1>7, <1>10

\* A message of the server goes on.
LEMMA Moved ==
  ASSUME MailsOk, NEW n \in Mails, InFlight(n), NEW stage \in {"done", "released"},
         stage = "released" => mail[n].qos = 2,
         mail' = [mail EXCEPT ![n].stage = stage], UNCHANGED <<received, savedIn, arrived>>
  PROVE  /\ MailsOk'
         /\ mail'[n].stage = stage /\ mail'[n].id = mail[n].id /\ mail'[n].qos = mail[n].qos
         /\ \A m \in Mails : m # n => mail'[m] = mail[m]
<1>1. mail \in [Mails -> [qos : 0..2, id : Mails, stage : Stage]]  BY DEF MailsOk
<1>2. /\ mail'[n].stage = stage /\ mail'[n].id = mail[n].id /\ mail'[n].qos = mail[n].qos
      /\ \A m \in Mails : m # n => mail'[m] = mail[m]
  BY <1>1
<1>3. mail' \in [Mails -> [qos : 0..2, id : Mails, stage : Stage]]
  BY <1>1 DEF Stage
<1>4. \A m \in Mails : /\ mail'[m].id = mail[m].id /\ mail'[m].qos = mail[m].qos
                       /\ mail'[m].stage = "unsent" <=> mail[m].stage = "unsent"
                       /\ InFlight(m)' => InFlight(m)
                       /\ mail'[m].stage = "sent" => mail[m].stage = "sent"
  BY <1>2 DEF InFlight
<1>5. \A m \in Mails : mail'[m].stage = "released" => mail'[m].qos = 2
  BY <1>2 DEF MailsOk
<1>6. MailsOk'  BY <1>3, <1>4, <1>5 DEF MailsOk
<1> QED  BY <1>2, <1>6

\* The answer at the head is for a message of the server that waits for it.
LEMMA MailAnswered ==
  ASSUME Inv, up # <<>>, Head(up).type \in Replies
  PROVE  /\ Head(up).job \in Mails /\ MailAnswer(mail[Head(up).job], Head(up))
         /\ InFlight(Head(up).job) /\ Head(up).id = mail[Head(up).job].id
         /\ Head(up).job \in Nat /\ Head(up).id \in Nat
<1>1. Lines /\ MailsOk /\ MailLines  BY DEF Inv
<1>2. Head(up) \in Elems(up)  BY <1>1, ServerHead
<1>3. Head(up).job \in Mails /\ MailAnswer(mail[Head(up).job], Head(up))
  BY <1>1, <1>2 DEF MailLines
<1>4. Head(up).id = mail[Head(up).job].id /\ mail[Head(up).job].id \in Mails
  BY <1>1, <1>3 DEF MailAnswer, MailsOk
<1>5. InFlight(Head(up).job)  BY <1>3 DEF MailAnswer, InFlight
<1> QED  BY <1>3, <1>4, <1>5, DeliveryAssumption DEF Mails

LEMMA ServePubackKeeps ==
  ASSUME Inv, ServePuback
  PROVE  /\ Inv' /\ down' = down /\ \A p \in Elems(up') : p \in Elems(up) /\ ~SameLine(p, Head(up))
         /\ up # <<>> /\ Head(up) \in Elems(up) /\ Head(up).type \in {"PUBACK", "PUBCOMP"}
         /\ MailAnswer(mail[Head(up).job], Head(up)) /\ Head(up).job \in Mails
         /\ mail' = [mail EXCEPT ![Head(up).job].stage = "done"]
         /\ UNCHANGED <<conn, clientVars, kind, told, arrived, clean, held, taken>>
<1> DEFINE h == Head(up)
<1>1. Lines /\ CallsOk /\ FlightOk /\ MailsOk /\ JobLines /\ MailLines  BY DEF Inv
<1>2. /\ up # <<>> /\ h.type \in {"PUBACK", "PUBCOMP"} /\ up' = Tail(up) /\ down' = down \o <<>>
      /\ UNCHANGED <<conn, clientVars, kind, told, arrived, clean, held, taken>>
      /\ mail' = [mail EXCEPT ![h.job].stage = "done"]
  BY DEF ServePuback, Serves, Acknowledged, callVars, faultVars
<1>3. h.type \in Replies  BY <1>2 DEF Replies
<1>4. h.job \in Mails /\ MailAnswer(mail[h.job], h) /\ InFlight(h.job)
  BY <1>2, <1>3, MailAnswered
<1>5. /\ Lines' /\ JobLines' /\ down' = down
      /\ \A p \in Elems(up') : p \in Elems(up) /\ ~SameLine(p, h)
      /\ \A q \in Elems(down) : ~Crosses(q, h)
  <2>1. UNCHANGED <<conn, clientVars, kind>> /\ h.type \in Requests \cup Replies
    BY <1>2, <1>3
  <2> QED  BY <1>2, <2>1, Accepted
<1>6. h \in Elems(up)  BY <1>1, <1>2, ServerHead
<1> DEFINE n == h.job
           st == "done"
<1>7. /\ n \in Mails /\ InFlight(n) /\ st \in {"done", "released"} /\ st # "released"
      /\ mail' = [mail EXCEPT ![n].stage = st]
      /\ UNCHANGED <<received, savedIn, arrived>>
  BY <1>2, <1>4 DEF clientVars
<1> HIDE DEF n, st
<1>8. MailsOk' /\ \A m \in Mails : m # n => mail'[m] = mail[m]
  BY <1>1, <1>7, Moved
<1>9. CallsOk' /\ FlightOk'  BY <1>1, <1>2, CallsSame, FlightSame DEF clientVars
<1>10. MailLines'
  <2>1. ASSUME NEW q \in Elems(down'), q.type \in Requests PROVE q.job # n
    BY <1>3, <1>5, <2>1, ReplyTypes DEF Crosses, n
  <2>2. ASSUME NEW p \in Elems(up'), p.type \in Replies PROVE p.job # n
    BY <1>3, <1>5, <2>2, ReplyTypes DEF SameLine, n
  <2> QED  BY <1>1, <1>5, <1>8, <2>1, <2>2 DEF MailLines
<1>11. Inv'  BY <1>5, <1>8, <1>9, <1>10 DEF Inv
<1> QED  BY <1>2, <1>4, <1>5, <1>6, <1>11

LEMMA ServePubrecKeeps ==
  ASSUME Inv, ServePubrec
  PROVE  /\ Inv' /\ \A p \in Elems(up') : p \in Elems(up) /\ ~SameLine(p, Head(up))
         /\ up # <<>> /\ Head(up) \in Elems(up) /\ Head(up).type = "PUBREC"
         /\ MailAnswer(mail[Head(up).job], Head(up)) /\ Head(up).job \in Mails
         /\ mail' = [mail EXCEPT ![Head(up).job].stage = "released"]
         /\ UNCHANGED <<conn, clientVars, kind, told, arrived, clean, held, taken>>
         /\ \A q \in Elems(down') : q \in Elems(down) \/ q.type = "PUBREL"
<1> DEFINE h == Head(up)
           x == Packet("PUBREL", h.id, h.job)
<1>1. Lines /\ CallsOk /\ FlightOk /\ MailsOk /\ JobLines /\ MailLines  BY DEF Inv
<1>2. /\ up # <<>> /\ h.type = "PUBREC" /\ up' = Tail(up) /\ down' = down \o <<x>>
      /\ UNCHANGED <<conn, clientVars, kind, told, arrived, clean, held, taken>>
      /\ mail' = [mail EXCEPT ![h.job].stage = "released"]
  BY DEF ServePubrec, Serves, Acknowledged, callVars, faultVars
<1>3. h.type \in Replies  BY <1>2 DEF Replies
<1>4. /\ h.job \in Mails /\ MailAnswer(mail[h.job], h) /\ InFlight(h.job)
      /\ h.job \in Nat /\ h.id \in Nat /\ h.id = mail[h.job].id
  BY <1>2, <1>3, MailAnswered
<1>5. /\ x \in Packets /\ x.type = "PUBREL" /\ x.id = h.id /\ x.job = h.job
  BY <1>4, PacketIn DEF PacketTypes
<1>6. x.type \in Requests /\ x.type \notin Replies /\ Crosses(x, h)
  <2>1. h.type \notin Requests  BY <1>3, ReplyTypes
  <2> QED  BY <1>5, <2>1 DEF Requests, Replies, Crosses
<1> HIDE DEF x
<1>7. conn = "up" /\ h \in Elems(up)  BY <1>1, <1>2, <1>3, ServerHead
<1>8. /\ Lines' /\ Elems(down') = Elems(down) \cup Elems(<<x>>)
      /\ \A p \in Elems(up') : p \in Elems(up) /\ ~SameLine(p, h)
      /\ \A q \in Elems(down) : ~Crosses(q, h)
  BY <1>1, <1>2, <1>5, <1>6, <1>7, ServerGets
<1>9. Elems(down') = Elems(down) \cup {x}  BY <1>5, <1>8, Short
<1> DEFINE n == h.job
           st == "released"
<1>10. /\ n \in Mails /\ InFlight(n) /\ st \in {"done", "released"} /\ mail[n].qos = 2
       /\ mail' = [mail EXCEPT ![n].stage = st] /\ x.job = n /\ x.id = mail[n].id
       /\ UNCHANGED <<received, savedIn, arrived>> /\ st = "released"
  BY <1>2, <1>4, <1>5 DEF clientVars, MailAnswer
<1>11. /\ \A q \in Elems(down) : q.type \in Requests => q.job # n
       /\ \A p \in Elems(up') : p.type \in Replies => p.job # n
  BY <1>3, <1>8, ReplyTypes DEF Crosses, SameLine
<1> HIDE DEF n, st
<1>12. /\ MailsOk' /\ \A m \in Mails : m # n => mail'[m] = mail[m]
       /\ mail'[n].stage = st /\ mail'[n].id = mail[n].id
  BY <1>1, <1>10, Moved
<1>13. CallsOk' /\ FlightOk'  BY <1>1, <1>2, CallsSame, FlightSame DEF clientVars
<1>14. JobLines'
  <2>1. sent' = sent /\ kind' = kind  BY <1>2 DEF clientVars
  <2> QED  BY <1>1, <1>6, <1>8, <1>9, <2>1, JobLinesSame
<1>15. MailLines'
  <2>1. MailAsks(mail'[n], x)  BY <1>5, <1>10, <1>12 DEF MailAsks
  <2>2. ASSUME NEW q \in Elems(down'), q.type \in Requests
        PROVE  q.job \in Mails /\ MailAsks(mail'[q.job], q)
    <3>1. CASE q = x  BY <1>10, <2>1, <3>1
    <3>2. CASE q \in Elems(down)
      <4>1. q.job \in Mails /\ MailAsks(mail[q.job], q) /\ q.job # n
        BY <1>1, <1>11, <2>2, <3>2 DEF MailLines
      <4> QED  BY <1>12, <4>1
    <3> QED  BY <1>9, <3>1, <3>2
  <2>3. ASSUME NEW p \in Elems(up'), p.type \in Replies
        PROVE  p.job \in Mails /\ MailAnswer(mail'[p.job], p)
    <3>1. p \in Elems(up) /\ p.job # n  BY <1>8, <1>11, <2>3
    <3>2. p.job \in Mails /\ MailAnswer(mail[p.job], p)  BY <1>1, <2>3, <3>1 DEF MailLines
    <3> QED  BY <1>12, <3>1, <3>2
  <2> QED  BY <2>2, <2>3 DEF MailLines
<1>16. Inv'  BY <1>8, <1>12, <1>13, <1>14, <1>15 DEF Inv
<1> QED  BY <1>2, <1>4, <1>5, <1>7, <1>8, <1>9, <1>16

\* The search for an identifier of the server ends, like that of the client.
LEMMA FreeMailIds ==
  ASSUME MailsOk, NEW n \in Mails, mail[n].stage = "unsent",
         NEW id, id = CHOOSE i \in Mails :
                   /\ \A m \in Mails : InFlight(m) => mail[m].id # i
                   /\ \A k \in 1..(i - 1) : \E m \in Mails : InFlight(m) /\ mail[m].id = k
  PROVE  id \in Mails /\ id <= n /\ \A m \in Mails : InFlight(m) => mail[m].id # id
<1> USE DeliveryAssumption
<1> DEFINE P(i) == /\ \A m \in Mails : InFlight(m) => mail[m].id # i
                   /\ \A k \in 1..(i - 1) : \E m \in Mails : InFlight(m) /\ mail[m].id = k
           T == {i \in Mails : \A m \in Mails : InFlight(m) => mail[m].id # i}
<1>1. MaxMails \in Nat /\ Mails = 1..MaxMails /\ n \in 1..MaxMails  BY DEF Mails
<1>2. \A m \in Mails : InFlight(m) => mail[m].id # n
  <2> SUFFICES ASSUME NEW m \in Mails, InFlight(m), mail[m].id = n PROVE FALSE  OBVIOUS
  <2>1. ~(n < m) /\ n # m /\ n <= m  BY DEF MailsOk, InFlight
  <2> QED  BY <1>1, <2>1
<1>3. n \in T /\ T \subseteq Nat  BY <1>1, <1>2
<1>4. PICK x \in T : \A y \in T : x <= y  BY <1>3, Least
<1>5. x \in Mails /\ P(x)
  <2>1. ASSUME NEW k \in 1..(x - 1) PROVE \E m \in Mails : InFlight(m) /\ mail[m].id = k
    <3>1. k \in Mails /\ ~(x <= k)  BY <1>1, <1>4
    <3>2. k \notin T  BY <1>4, <3>1
    <3> QED  BY <3>1, <3>2
  <2> QED  BY <1>4, <2>1
<1>6. id \in Mails /\ P(id)
  <2>1. id = CHOOSE i \in Mails : P(i)  OBVIOUS
  <2> HIDE DEF P
  <2> QED  BY <1>5, <2>1
<1>7. id <= x
  <2> SUFFICES ASSUME x < id PROVE FALSE  BY <1>1, <1>5, <1>6
  <2>1. x \in 1..(id - 1)  BY <1>1, <1>5, <1>6
  <2> QED  BY <1>5, <1>6, <2>1
<1> QED  BY <1>1, <1>3, <1>4, <1>5, <1>6, <1>7

LEMMA ServerSendsKeeps ==
  ASSUME Inv, NEW n \in Mails, ServerSends(n)
  PROVE  /\ Inv'
         /\ conn = "up" /\ mail[n].stage = "unsent"
         /\ mail'[n].stage = (IF mail'[n].qos = 0 THEN "done" ELSE "sent")
         /\ \A m \in Mails : m # n => mail'[m] = mail[m]
         /\ \A q \in Elems(down') : q \in Elems(down) \/ q.type = "PUBLISH"
         /\ UNCHANGED <<conn, clientVars, up, kind, told, arrived, clean, held, taken>>
<1>1. Lines /\ CallsOk /\ FlightOk /\ MailsOk /\ JobLines /\ MailLines  BY DEF Inv
<1>2. /\ conn = "up" /\ mail[n].stage = "unsent"
      /\ \A m \in 1..(n - 1) : mail[m].stage # "unsent"
      /\ UNCHANGED <<conn, clientVars, up, kind, told, arrived, clean, held, taken>>
  BY DEF ServerSends, callVars, faultVars
<1> DEFINE id == CHOOSE i \in Mails :
                   /\ \A m \in Mails : InFlight(m) => mail[m].id # i
                   /\ \A k \in 1..(i - 1) : \E m \in Mails : InFlight(m) /\ mail[m].id = k
           x == Packet("PUBLISH", id, n)
<1>3. PICK qos \in MailQos :
        /\ mail' = [mail EXCEPT ![n] = [qos |-> qos, id |-> id,
                                        stage |-> IF qos = 0 THEN "done" ELSE "sent"]]
        /\ down' = Append(down, x)
  BY DEF ServerSends
<1>4. id \in Mails /\ id <= n /\ \A m \in Mails : InFlight(m) => mail[m].id # id
  BY <1>1, <1>2, FreeMailIds
<1>5. n \in Nat /\ id \in Nat /\ qos \in 0..2 /\ Mails = 1..MaxMails /\ MaxMails \in Nat
  BY <1>4, DeliveryAssumption DEF Mails
<1> HIDE DEF id
<1>6. x \in Packets /\ x.type = "PUBLISH" /\ x.id = id /\ x.job = n
  BY <1>5, PacketIn DEF PacketTypes
<1>7. x.type \in Requests /\ x.type \notin Replies  BY <1>6 DEF Requests, Replies
<1> HIDE DEF x
<1>8. /\ \A q \in Elems(down) : q.type \in Requests => q.job # n
      /\ \A p \in Elems(up) : p.type \in Replies => p.job # n
  BY <1>1, <1>2 DEF MailLines, MailAsks, MailAnswer
<1>9. Lines' /\ Elems(down') = Elems(down) \cup {x}
  BY <1>1, <1>2, <1>3, <1>6, <1>7, <1>8, ServerSpeaks
<1>10. /\ mail'[n].qos = qos /\ mail'[n].id = id
       /\ mail'[n].stage = IF qos = 0 THEN "done" ELSE "sent"
       /\ \A m \in Mails : m # n => mail'[m] = mail[m]
       /\ mail' \in [Mails -> [qos : 0..2, id : Mails, stage : Stage]]
  <2>1. mail \in [Mails -> [qos : 0..2, id : Mails, stage : Stage]]  BY <1>1 DEF MailsOk
  <2>2. [qos |-> qos, id |-> id, stage |-> IF qos = 0 THEN "done" ELSE "sent"]
          \in [qos : 0..2, id : Mails, stage : Stage]
    BY <1>4, <1>5 DEF Stage
  <2> QED  BY <1>3, <2>1, <2>2
<1>11. CallsOk' /\ FlightOk'  BY <1>1, <1>2, CallsSame, FlightSame DEF clientVars
<1>12. MailsOk'
  <2>1. \A m \in Mails : m # n => (InFlight(m)' <=> InFlight(m))  BY <1>10 DEF InFlight
  <2>2. \A l, m \in Mails : l < m /\ mail'[m].stage # "unsent" => mail'[l].stage # "unsent"
    <3> SUFFICES ASSUME NEW l \in Mails, NEW m \in Mails, l < m, mail'[m].stage # "unsent", l # n
                 PROVE  mail[l].stage # "unsent"
      BY <1>10
    <3>1. CASE m = n
      <4>1. l \in 1..(n - 1)  BY <1>5, <3>1
      <4> QED  BY <1>2, <4>1
    <3>2. CASE m # n  BY <1>1, <1>10, <3>2 DEF MailsOk
    <3> QED  BY <3>1, <3>2
  <2>3. \A m \in Mails : InFlight(m)' => mail'[m].id <= m
    BY <1>1, <1>4, <1>10, <2>1 DEF MailsOk
  <2>4. \A l, m \in Mails : InFlight(l)' /\ InFlight(m)' /\ mail'[l].id = mail'[m].id => l = m
    BY <1>1, <1>4, <1>10, <2>1 DEF MailsOk
  <2>5. \A m \in Mails : /\ mail'[m].stage = "unsent" => mail'[m].qos = 0
                         /\ mail'[m].stage = "sent" => mail'[m].qos \in {1, 2}
                         /\ mail'[m].stage = "released" => mail'[m].qos = 2
    <3> SUFFICES ASSUME NEW m \in Mails
                 PROVE  /\ mail'[m].stage = "unsent" => mail'[m].qos = 0
                        /\ mail'[m].stage = "sent" => mail'[m].qos \in {1, 2}
                        /\ mail'[m].stage = "released" => mail'[m].qos = 2
      OBVIOUS
    <3>1. CASE m = n
      <4>1. qos # 0 => qos \in {1, 2}  BY <1>5
      <4>2. \/ qos = 0 /\ mail'[m].stage = "done"
            \/ qos # 0 /\ mail'[m].stage = "sent"
        BY <1>10, <3>1
      <4> QED  BY <1>10, <3>1, <4>1, <4>2
    <3>2. CASE m # n  BY <1>1, <1>10, <3>2 DEF MailsOk
    <3> QED  BY <3>1, <3>2
  <2>6. UNCHANGED <<received, savedIn, arrived>>  BY <1>2 DEF clientVars
  <2> QED  BY <1>1, <1>10, <2>2, <2>3, <2>4, <2>5, <2>6 DEF MailsOk
<1>13. JobLines'
  <2>1. sent' = sent /\ kind' = kind /\ up' = up  BY <1>2 DEF clientVars
  <2> QED  BY <1>1, <1>7, <1>9, <2>1, JobLinesSame
<1>14. MailLines'
  <2>1. MailAsks(mail'[n], x)  BY <1>6, <1>10 DEF MailAsks
  <2>2. ASSUME NEW q \in Elems(down'), q.type \in Requests
        PROVE  q.job \in Mails /\ MailAsks(mail'[q.job], q)
    <3>1. CASE q = x  BY <1>6, <2>1, <3>1
    <3>2. CASE q \in Elems(down)
      <4>1. q.job \in Mails /\ MailAsks(mail[q.job], q) /\ q.job # n
        BY <1>1, <1>8, <2>2, <3>2 DEF MailLines
      <4> QED  BY <1>10, <4>1
    <3> QED  BY <1>9, <3>1, <3>2
  <2>3. ASSUME NEW p \in Elems(up'), p.type \in Replies
        PROVE  p.job \in Mails /\ MailAnswer(mail'[p.job], p)
    <3>1. p \in Elems(up) /\ p.job # n  BY <1>2, <1>8, <2>3
    <3>2. p.job \in Mails /\ MailAnswer(mail[p.job], p)  BY <1>1, <2>3, <3>1 DEF MailLines
    <3> QED  BY <1>10, <3>1, <3>2
  <2> QED  BY <2>2, <2>3 DEF MailLines
<1>15. Inv'  BY <1>9, <1>11, <1>12, <1>13, <1>14 DEF Inv
<1> QED  BY <1>2, <1>6, <1>9, <1>10, <1>15

-----------------------------------------------------------------------------
(* A new connection: what is in flight is sent again.                        *)

\* Requests about different messages.
LEMMA Batch ==
  ASSUME NEW r, NEW n \in Nat, r = [i \in 1..n |-> r[i]],
         \A i \in 1..n : r[i] \in Packets /\ r[i].type \in Requests,
         \A i, j \in 1..n : i # j => r[i].job # r[j].job
  PROVE  /\ r \in Seq(Packets) /\ Sole(r)
         /\ \A p \in Elems(r) : p.type \in Requests /\ \E i \in 1..n : p = r[i]
<1>1. r \in [1..n -> Packets]  OBVIOUS
<1>2. r \in Seq(Packets) /\ DOMAIN r = 1..n  BY <1>1
<1>3. Sole(r)  BY <1>2 DEF Sole, SameLine
<1> QED  BY <1>2, <1>3 DEF Elems

LEMMA FlightFinite == FlightOk => IsFiniteSet(sent)
<1> SUFFICES ASSUME FlightOk PROVE IsFiniteSet(sent)  OBVIOUS
<1> DEFINE f == [e \in sent |-> e.job]
<1>1. IsFiniteSet(Jobs)
  <2>1. 1 \in Int /\ MaxJobs \in Int  BY DeliveryAssumption
  <2> QED  BY <2>1, FS_Interval DEF Jobs
<1>2. f \in [sent -> Jobs]  BY DEF FlightOk, Entry
<1>3. \A a, b \in sent : f[a] = f[b] => a = b  BY DEF FlightOk
<1>4. f \in Injection(sent, Jobs)
  <2> HIDE DEF f
  <2> QED  BY <1>2, <1>3 DEF Injection, IsInjective
<1> QED  BY <1>1, <1>4, FS_Injection

\* The server answers CONNECT.
LEMMA ServeConnectKeeps ==
  ASSUME Inv, ServeConnect
  PROVE  /\ Inv' /\ conn = "opening"
         /\ UNCHANGED <<conn, clientVars, kind, told, arrived, taken, clean>>
         /\ Elems(up') = {} /\ held' = (IF clean THEN {} ELSE held)
         /\ mail' = [n \in Mails |-> IF clean /\ InFlight(n)
                                     THEN [mail[n] EXCEPT !.stage = "lost"] ELSE mail[n]]
<1> DEFINE mine == IF clean THEN {} ELSE {n \in Mails : InFlight(n)}
           c == Packet("CONNACK", 0, 0)
<1>1. Lines /\ CallsOk /\ FlightOk /\ MailsOk /\ JobLines /\ MailLines  BY DEF Inv
<1>2. PICK order \in SetToSeqs(mine) :
        Serves("CONNECT", <<c>> \o
           [i \in DOMAIN order |->
              Packet(IF mail[order[i]].stage = "sent" THEN "PUBLISH" ELSE "PUBREL",
                     mail[order[i]].id, order[i])])
  BY DEF ServeConnect
<1> DEFINE r == [i \in DOMAIN order |->
                   Packet(IF mail[order[i]].stage = "sent" THEN "PUBLISH" ELSE "PUBREL",
                          mail[order[i]].id, order[i])]
<1>3. /\ up # <<>> /\ Head(up).type = "CONNECT" /\ up' = Tail(up) /\ down' = down \o (<<c>> \o r)
      /\ UNCHANGED <<conn, clientVars, kind, told, arrived, clean>>
  BY <1>2 DEF Serves, callVars, faultVars
<1>4. /\ taken' = taken /\ held' = (IF clean THEN {} ELSE held)
      /\ mail' = [n \in Mails |-> IF clean /\ InFlight(n)
                                  THEN [mail[n] EXCEPT !.stage = "lost"] ELSE mail[n]]
  BY DEF ServeConnect
<1>5. IsFiniteSet(mine) /\ mine \subseteq Mails
  <2>1. IsFiniteSet(Mails)
    <3>1. 1 \in Int /\ MaxMails \in Int  BY DeliveryAssumption
    <3> QED  BY <3>1, FS_Interval DEF Mails
  <2>2. mine \in SUBSET Mails  OBVIOUS
  <2> HIDE DEF mine
  <2> QED  BY <2>1, <2>2, FS_Subset
<1>6. \A n \in mine : InFlight(n) /\ ~clean  OBVIOUS
<1> HIDE DEF mine
<1>7. /\ DOMAIN order = 1..Len(order) /\ Len(order) \in Nat
      /\ \A i \in DOMAIN order : order[i] \in mine
      /\ \A i, j \in DOMAIN order : i # j => order[i] # order[j]
  BY <1>5, Listed
<1>8. /\ conn = "opening" /\ up \in Seq(Packets) /\ down \in Seq(Packets)
      /\ \A p \in Elems(up) : p.type = "CONNECT" /\ p.job = 0
      /\ Head(up) \in Elems(up) /\ Sole(up)
  BY <1>1, <1>3, ServerHead, NothingWhenDown DEF Lines, OneWay
<1>9. down = <<>>  BY <1>1, <1>3, <1>8 DEF Lines
<1>10. Elems(up') = {} /\ up' = <<>>
  <2>1. /\ Tail(up) \in Seq(Packets)
        /\ \A p \in Elems(Tail(up)) : p \in Elems(up) /\ ~SameLine(p, Head(up))
    BY <1>3, <1>8, HeadOff
  <2>2. Elems(Tail(up)) = {}  BY <1>8, <2>1 DEF SameLine
  <2>3. Tail(up) = <<>>  BY <2>1, <2>2, Short
  <2> QED  BY <1>3, <2>2, <2>3
<1>11. \A i \in 1..Len(order) :
         /\ r[i] \in Packets /\ r[i].type \in Requests /\ r[i].job = order[i]
         /\ order[i] \in Mails /\ MailAsks(mail[order[i]], r[i]) /\ ~clean
  <2> SUFFICES ASSUME NEW i \in 1..Len(order)
               PROVE  /\ r[i] \in Packets /\ r[i].type \in Requests /\ r[i].job = order[i]
                      /\ order[i] \in Mails /\ MailAsks(mail[order[i]], r[i]) /\ ~clean
    OBVIOUS
  <2> DEFINE n == order[i]
             t == IF mail[n].stage = "sent" THEN "PUBLISH" ELSE "PUBREL"
  <2>1. n \in Mails /\ InFlight(n) /\ ~clean  BY <1>5, <1>6, <1>7
  <2>2. r[i] = Packet(t, mail[n].id, n)  BY <1>7
  <2>3. n \in Nat /\ mail[n].id \in Nat
    <3>1. mail[n].id \in Mails  BY <1>1, <2>1 DEF MailsOk
    <3> QED  BY <2>1, <3>1, DeliveryAssumption DEF Mails
  <2>4. t \in PacketTypes /\ t \in Requests  BY DEF PacketTypes, Requests
  <2> DEFINE id == mail[n].id
  <2>5. /\ \/ t = "PUBLISH" /\ mail[n].stage = "sent"
           \/ t = "PUBREL" /\ mail[n].stage = "released"
        /\ id = mail[n].id /\ id \in Nat /\ r[i] = Packet(t, id, n)
    BY <2>1, <2>2, <2>3 DEF InFlight
  <2> HIDE DEF n, t, id, r
  <2>6. /\ Packet(t, id, n) \in Packets /\ Packet(t, id, n).type = t
        /\ Packet(t, id, n).id = id /\ Packet(t, id, n).job = n
    BY <2>3, <2>4, <2>5, PacketIn
  <2>7. MailAsks(mail[n], r[i])  BY <2>5, <2>6 DEF MailAsks
  <2> QED  BY <2>1, <2>4, <2>5, <2>6, <2>7 DEF n
<1>12. r = [i \in 1..Len(order) |-> r[i]]  BY <1>7
<1> HIDE DEF r
<1>13. /\ r \in Seq(Packets) /\ Sole(r)
       /\ \A p \in Elems(r) : p.type \in Requests /\ \E i \in 1..Len(order) : p = r[i]
  <2>1. \A i, j \in 1..Len(order) : i # j => r[i].job # r[j].job  BY <1>7, <1>11
  <2>2. \A i \in 1..Len(order) : r[i] \in Packets /\ r[i].type \in Requests  BY <1>11
  <2>3. Len(order) \in Nat  BY <1>7
  <2> DEFINE k == Len(order)
  <2> HIDE DEF k
  <2>4. /\ k \in Nat /\ r = [i \in 1..k |-> r[i]]
        /\ \A i \in 1..k : r[i] \in Packets /\ r[i].type \in Requests
        /\ \A i, j \in 1..k : i # j => r[i].job # r[j].job
    BY <1>12, <2>1, <2>2, <2>3 DEF k
  <2> QED  BY <2>4, Batch DEF k
<1>14. c \in Packets /\ c.type = "CONNACK" /\ c.job = 0  BY PacketIn DEF PacketTypes
<1>15. c.type \notin Requests /\ c.type \notin Replies  BY <1>14 DEF Requests, Replies
<1> HIDE DEF c
<1>16. /\ <<c>> \in Seq(Packets) /\ Elems(<<c>>) = {c} /\ Sole(<<c>>)  BY <1>14, Short
<1>17. /\ down' \in Seq(Packets) /\ Sole(down') /\ Elems(down') = {c} \cup Elems(r)
       /\ Head(down') = c
  <2>1. /\ <<c>> \o r \in Seq(Packets) /\ Elems(<<c>> \o r) = Elems(<<c>>) \cup Elems(r)
        /\ Sole(<<c>> \o r)
    <3>1. \A p \in Elems(<<c>>), q \in Elems(r) : ~SameLine(p, q)
      BY <1>13, <1>15, <1>16 DEF SameLine
    <3> QED  BY <1>13, <1>16, <3>1, Joined
  <2>2. down' = <<c>> \o r  BY <1>3, <1>9, <2>1
  <2>3. Head(<<c>> \o r) = c  BY <1>13
  <2> QED  BY <1>16, <2>1, <2>2, <2>3
<1>18. Lines'
  <2>1. up' \in Seq(Packets) /\ Sole(up')  BY <1>10, Short
  <2>2. OneWay'  BY <1>10, <1>17, <2>1 DEF OneWay
  <2>3. \A q \in Elems(down') : \/ q.type = "CONNACK" /\ q.job = 0
                                \/ q.type \in Requests
    BY <1>13, <1>14, <1>17
  <2>4. conn' = "opening"  BY <1>3, <1>8
  <2>5. Head(down').type = "CONNACK"  BY <1>14, <1>17
  <2> QED  BY <1>10, <1>17, <2>1, <2>2, <2>3, <2>4, <2>5 DEF Lines
<1>19. CallsOk' /\ FlightOk'  BY <1>1, <1>3, <1>4, CallsSame, FlightSame DEF clientVars
<1>20. MailsOk'
  <2>1. mail \in [Mails -> [qos : 0..2, id : Mails, stage : Stage]]  BY <1>1 DEF MailsOk
  <2>2. \A n \in Mails : /\ mail'[n].id = mail[n].id /\ mail'[n].qos = mail[n].qos
                         /\ mail'[n].stage = mail[n].stage
                            \/ (mail'[n].stage = "lost" /\ InFlight(n))
    BY <1>4, <2>1
  <2>3. mail' \in [Mails -> [qos : 0..2, id : Mails, stage : Stage]]
    BY <1>4, <2>1 DEF Stage
  <2>4. \A n \in Mails : /\ InFlight(n)' => InFlight(n)
                         /\ (mail'[n].stage = "unsent") <=> (mail[n].stage = "unsent")
                         /\ mail'[n].stage \in {"sent", "released"} =>
                              mail'[n].stage = mail[n].stage
    BY <2>2 DEF InFlight
  <2>5. UNCHANGED <<received, savedIn, arrived>>  BY <1>3 DEF clientVars
  <2> QED  BY <1>1, <2>2, <2>3, <2>4, <2>5 DEF MailsOk
<1>21. JobLines'
  <2>1. \A q \in Elems(down') : q.type \notin Replies  BY <1>13, <1>15, <1>17, ReplyTypes
  <2> QED  BY <1>10, <2>1 DEF JobLines
<1>22. MailLines'
  <2>1. ASSUME NEW q \in Elems(down'), q.type \in Requests
        PROVE  q.job \in Mails /\ MailAsks(mail'[q.job], q)
    <3>1. PICK i \in 1..Len(order) : q = r[i]  BY <1>13, <1>15, <1>17, <2>1
    <3>2. q.job \in Mails /\ MailAsks(mail[q.job], q) /\ ~clean  BY <1>11, <3>1
    <3>3. mail'[q.job] = mail[q.job]  BY <1>4, <3>2
    <3> QED  BY <3>2, <3>3
  <2> QED  BY <1>10, <2>1 DEF MailLines
<1>23. Inv'  BY <1>18, <1>19, <1>20, <1>21, <1>22 DEF Inv
<1> QED  BY <1>3, <1>4, <1>8, <1>10, <1>23

LEMMA ConnackKeeps ==
  ASSUME Inv, Connack
  PROVE  /\ Inv' /\ conn = "opening" /\ conn' = "up" /\ down # <<>>
         /\ \A q \in Elems(down') : q.type \in Requests
         /\ \A p \in Elems(up') : p.type \in Requests
         /\ sent' = (IF clean THEN {} ELSE sent) /\ received' = (IF clean THEN {} ELSE received)
         /\ UNCHANGED <<kind, told, mail, held, taken, arrived, clean>>
<1>1. Lines /\ CallsOk /\ FlightOk /\ MailsOk /\ JobLines /\ MailLines  BY DEF Inv
<1>2. /\ conn = "opening" /\ down # <<>> /\ conn' = "up" /\ down' = Tail(down)
      /\ sent' = (IF clean THEN {} ELSE sent)
      /\ saved' = (IF clean THEN saved \ {e \in saved : e.id \in {s.id : s \in sent}} ELSE saved)
      /\ received' = (IF clean THEN {} ELSE received)
      /\ savedIn' = (IF clean THEN savedIn \ received ELSE savedIn)
      /\ UNCHANGED <<nextId, nextSeq, timers, kind, told, mail, held, taken, arrived, clean>>
  BY DEF Connack, callVars, serverVars, faultVars
<1>3. PICK order \in SetToSeqs(sent') : up' = up \o [i \in DOMAIN order |-> Again(order[i])]
  BY DEF Connack, Resent
<1> DEFINE r == [i \in DOMAIN order |-> Again(order[i])]
<1>4. FlightOk'
  <2>1. CASE clean
    <3>1. saved' = {}
      <4>1. saved \subseteq sent  BY <1>1 DEF FlightOk
      <4> QED  BY <1>2, <2>1, <4>1
    <3> QED  BY <1>1, <1>2, <2>1, <3>1 DEF FlightOk, Reached
  <2>2. CASE ~clean  BY <1>1, <1>2, <2>2, FlightSame
  <2> QED  BY <2>1, <2>2
<1>5. IsFiniteSet(sent')
  <2>1. IsFiniteSet(sent) /\ IsFiniteSet({})  BY <1>1, FlightFinite, FS_EmptySet
  <2> QED  BY <1>2, <2>1
<1>6. /\ DOMAIN order = 1..Len(order) /\ Len(order) \in Nat
      /\ \A i \in DOMAIN order : order[i] \in sent'
      /\ \A i, j \in DOMAIN order : i # j => order[i] # order[j]
  BY <1>5, Listed
<1>7. \A i \in 1..Len(order) :
         /\ r[i] \in Packets /\ r[i].type \in Requests /\ r[i].job = order[i].job
         /\ Asks(kind'[order[i].job], order[i], r[i])
  <2> SUFFICES ASSUME NEW i \in 1..Len(order)
               PROVE  /\ r[i] \in Packets /\ r[i].type \in Requests /\ r[i].job = order[i].job
                      /\ Asks(kind'[order[i].job], order[i], r[i])
    OBVIOUS
  <2> DEFINE e == order[i]
             t == IF e.rel THEN "PUBREL" ELSE TypeOf(kind[e.job])
             id == WireId(e.id)
  <2>1. e \in Entry /\ kind[e.job] \in Calls
    <3>1. e \in sent'  BY <1>6
    <3> HIDE DEF e
    <3> QED  BY <1>2, <1>4, <3>1 DEF FlightOk
  <2>2. r[i] = Packet(t, id, e.job)  BY <1>6 DEF Again
  <2>3. e.job \in Nat /\ id \in Nat
    <3>1. e.id \in Ids /\ e.job \in Jobs  BY <2>1 DEF Entry
    <3> QED  BY <3>1, WireIds, DeliveryAssumption DEF Jobs
  <2>4. /\ t \in PacketTypes /\ t \in Requests
        /\ \/ t = "PUBREL" /\ e.rel
           \/ t = TypeOf(kind[e.job]) /\ ~e.rel
    <3>1. TypeOf(kind[e.job]) \in {"PUBLISH", "SUBSCRIBE", "UNSUBSCRIBE"}
      BY <2>1, TypesOfCalls
    <3> HIDE DEF e
    <3> QED  BY <3>1 DEF PacketTypes, Requests
  <2>5. id = WireId(e.id)  OBVIOUS
  <2>6. e = order[i]  OBVIOUS
  <2> HIDE DEF e, t, id, r
  <2>7. /\ r[i] \in Packets /\ r[i].type = t /\ r[i].id = id /\ r[i].job = e.job
    BY <2>2, <2>3, <2>4, PacketIn
  <2>8. Asks(kind'[e.job], e, r[i])  BY <1>2, <2>4, <2>5, <2>7 DEF Asks
  <2> QED  BY <2>4, <2>6, <2>7, <2>8
<1>8. r = [i \in 1..Len(order) |-> r[i]] /\ up' = up \o r  BY <1>3, <1>6
<1> HIDE DEF r
<1>9. /\ r \in Seq(Packets) /\ Sole(r)
      /\ \A p \in Elems(r) : p.type \in Requests /\ \E i \in 1..Len(order) : p = r[i]
  <2>1. \A i, j \in 1..Len(order) : i # j => r[i].job # r[j].job
    <3>1. \A d, e \in sent' : d.job = e.job => d = e  BY <1>4 DEF FlightOk
    <3> QED  BY <1>6, <1>7, <3>1
  <2>2. \A i \in 1..Len(order) : r[i] \in Packets /\ r[i].type \in Requests  BY <1>7
  <2>3. Len(order) \in Nat  BY <1>6
  <2> DEFINE k == Len(order)
  <2> HIDE DEF k
  <2>4. /\ k \in Nat /\ r = [i \in 1..k |-> r[i]]
        /\ \A i \in 1..k : r[i] \in Packets /\ r[i].type \in Requests
        /\ \A i, j \in 1..k : i # j => r[i].job # r[j].job
    BY <1>8, <2>1, <2>2, <2>3 DEF k
  <2> QED  BY <2>4, Batch DEF k
<1>10. up = <<>> /\ Head(down).type = "CONNACK" /\ down \in Seq(Packets) /\ Sole(down)
  BY <1>1, <1>2 DEF Lines, OneWay
<1>11. up' = r  BY <1>8, <1>9, <1>10
<1>12. /\ Tail(down) \in Seq(Packets) /\ Sole(Tail(down)) /\ Head(down) \in Elems(down)
       /\ \A q \in Elems(Tail(down)) : q \in Elems(down) /\ ~SameLine(q, Head(down))
  BY <1>2, <1>10, HeadOff
<1>13. \A q \in Elems(down') : q \in Elems(down) /\ q.type \in Requests
  <2>1. \A q \in Elems(down) : \/ q.type = "CONNACK" /\ q.job = 0
                               \/ q.type \in Requests
    BY <1>1, <1>2, NothingWhenDown
  <2>2. "CONNACK" \notin Requests  BY DEF Requests
  <2>3. Head(down).job = 0  BY <1>10, <1>12, <2>1, <2>2
  <2>4. ASSUME NEW q \in Elems(down), q.type = "CONNACK", q.job = 0
        PROVE  SameLine(q, Head(down))
    BY <1>10, <2>2, <2>3, <2>4 DEF SameLine
  <2> QED  BY <1>2, <1>12, <2>1, <2>4
<1>14. \A p \in Elems(up') : p.type \in Requests  BY <1>9, <1>11
<1>15. Lines'
  <2>1. OneWay'  BY <1>2, <1>9, <1>11, <1>12, <1>13, <1>14 DEF OneWay, Crosses
  <2> QED  BY <1>2, <1>9, <1>11, <1>12, <1>13, <1>14, <2>1 DEF Lines
<1>16. CallsOk'  BY <1>1, <1>2, CallsSame
<1>17. MailsOk'
  <2>1. savedIn' = received' /\ received' \subseteq received  BY <1>1, <1>2 DEF MailsOk
  <2> QED  BY <1>1, <1>2, <2>1 DEF MailsOk, InFlight
<1>18. JobLines'
  <2>1. ASSUME NEW p \in Elems(up') PROVE \E e \in sent' : Asks(kind'[e.job], e, p)
    <3>1. PICK i \in 1..Len(order) : p = r[i]  BY <1>9, <1>11
    <3> QED  BY <1>6, <1>7, <3>1
  <2> QED  BY <1>13, <2>1, ReplyTypes DEF JobLines
<1>19. MailLines'  BY <1>1, <1>2, <1>13, <1>14, ReplyTypes, MailLinesSame
<1>20. Inv'  BY <1>4, <1>15, <1>16, <1>17, <1>18, <1>19 DEF Inv
<1> QED  BY <1>2, <1>13, <1>14, <1>20

-----------------------------------------------------------------------------
(* The invariant holds.                                                      *)

LEMMA InitHolds == Init => Inv /\ Held /\ Kept
<1> SUFFICES ASSUME Init PROVE Inv /\ Held /\ Kept  OBVIOUS
<1> USE DeliveryAssumption
<1>1. /\ clean \in Sessions /\ conn = "down" /\ sent = {} /\ received = {} /\ saved = {}
      /\ savedIn = {} /\ nextId = 1 /\ nextSeq = 0 /\ timers = {} /\ up = <<>> /\ down = <<>>
      /\ kind = [j \in Jobs |-> "none"] /\ told = [j \in Jobs |-> "none"] /\ held = {}
      /\ mail = [n \in Mails |-> [qos |-> 0, id |-> n, stage |-> "unsent"]]
      /\ taken = [j \in Jobs |-> 0] /\ arrived = [n \in Mails |-> 0]
  BY DEF Init
<1>2. /\ up \in Seq(Packets) /\ down \in Seq(Packets) /\ Sole(up) /\ Sole(down)
      /\ Elems(up) = {} /\ Elems(down) = {}
  BY <1>1, Short
<1>3. Lines  BY <1>1, <1>2 DEF Lines, OneWay
<1>4. CallsOk  BY <1>1 DEF CallsOk
<1>5. FlightOk  BY <1>1 DEF FlightOk
<1>6. MailsOk  BY <1>1 DEF MailsOk, InFlight, Stage
<1>7. JobLines /\ MailLines  BY <1>2 DEF JobLines, MailLines
<1>8. Held /\ Kept  BY <1>1, <1>2 DEF Held, Kept
<1> QED  BY <1>3, <1>4, <1>5, <1>6, <1>7, <1>8 DEF Inv

LEMMA InvKept == ASSUME Inv, IdsFit, [Next]_vars PROVE Inv'
<1>1. CASE UNCHANGED vars
  <2>1. UNCHANGED <<clean, conn, sent, received, saved, savedIn, nextId, nextSeq, timers, up, down,
                    kind, told, mail, taken, arrived>>
    BY <1>1 DEF vars
  <2>2. Lines' /\ CallsOk' /\ FlightOk' /\ MailsOk' /\ JobLines' /\ MailLines'
    <3>1. Lines'  BY <2>1 DEF Inv, Lines, OneWay
    <3>2. CallsOk' /\ FlightOk' /\ MailsOk'
      BY <2>1, CallsSame, FlightSame, MailsSame DEF Inv
    <3>3. JobLines' /\ MailLines'  BY <2>1 DEF Inv, JobLines, MailLines
    <3> QED  BY <3>1, <3>2, <3>3
  <2> QED  BY <2>2 DEF Inv
<1>2. ASSUME NEW j \in Jobs, PublishCall(j) \/ SubscribeCall(j) \/ TimesOut(j) PROVE Inv'
  BY <1>2, PublishCallKeeps, SubscribeCallKeeps, TimesOutKeeps
<1>3. CASE Handles
  BY <1>3, ConnackKeeps, PubackKeeps, PubrecKeeps, PubcompKeeps, SubackKeeps, PublishKeeps,
     PubrelKeeps DEF Handles
<1>4. CASE Answers
  BY <1>4, ServeConnectKeeps, ServePublishKeeps, ServePubrelKeeps, ServeSubscribeKeeps,
     ServePubackKeeps, ServePubrecKeeps DEF Answers
<1>5. ASSUME NEW n \in Mails, ServerSends(n) PROVE Inv'  BY <1>5, ServerSendsKeeps
<1>6. CASE Connect \/ Drop \/ Restart  BY <1>6, ConnectKeeps, DropKeeps, RestartKeeps
<1> QED  BY <1>1, <1>2, <1>3, <1>4, <1>5, <1>6 DEF Next

\* The types, and what is stored: localStorage holds the messages in flight that
\* survive a restart, and no other (store and removeItem, paho-mqtt.js:1128, 1281-1399).
LEMMA TypesFollow == Inv => TypeOK
<1> SUFFICES ASSUME Inv PROVE TypeOK  OBVIOUS
<1> USE DeliveryAssumption
<1>1. Lines /\ CallsOk /\ FlightOk /\ MailsOk  BY DEF Inv
<1>2. \A n \in Nat : Reached(n) => n <= MaxJobs  BY DEF Reached, Jobs
<1>3. nextId \in Ids /\ nextSeq \in 0..MaxJobs  BY <1>1, <1>2 DEF FlightOk, Ids
<1>4. timers \subseteq Jobs  BY <1>1 DEF CallsOk
<1> QED  BY <1>1, <1>3, <1>4 DEF TypeOK, Lines, CallsOk, FlightOk, MailsOk

LEMMA MatchFollows == Inv => AnswersMatch
<1> SUFFICES ASSUME Inv PROVE AnswersMatch  OBVIOUS
<1>1. FlightOk /\ JobLines  BY DEF Inv
<1>2. \A d, e \in sent : d.id = e.id => d = e  BY <1>1 DEF FlightOk
<1>3. ASSUME NEW i \in DOMAIN down,
             down[i].type \in {"PUBACK", "PUBREC", "PUBCOMP", "SUBACK", "UNSUBACK"}
      PROVE  \E e \in sent : WireId(e.id) = down[i].id /\ e.job = down[i].job
  <2>1. down[i] \in Elems(down) /\ down[i].type \in Replies  BY <1>3 DEF Elems, Replies
  <2>2. PICK e \in sent : AnswerTo(kind[e.job], e, down[i])  BY <1>1, <2>1 DEF JobLines
  <2> QED  BY <2>2 DEF AnswerTo
<1> QED  BY <1>2, <1>3 DEF AnswersMatch

LEMMA InvariantHolds == Spec /\ []IdsFit => []Inv
<1>1. Init => Inv  BY InitHolds
<1>2. Inv /\ IdsFit /\ [Next]_vars => Inv'  BY InvKept
<1> QED  BY <1>1, <1>2, PTL DEF Spec

\* Types, and the agreement of _sentMessages and _receivedMessages with what
\* localStorage keeps of them.
THEOREM TypesHold == Spec /\ []IdsFit => []TypeOK
<1>1. Spec /\ []IdsFit => []Inv  BY InvariantHolds
<1>2. Inv => TypeOK  BY TypesFollow
<1> QED  BY <1>1, <1>2, PTL

\* No call is told of another's fate: an answer on its way is for the message that
\* has its identifier now (_requires_ack and the handlers of the acknowledgements,
\* paho-mqtt.js:1192, 1359-1431), as long as no identifier past the maximum is given.
THEOREM AnswersCorrect == Spec /\ []IdsFit => []AnswersMatch
<1>1. Spec /\ []IdsFit => []Inv  BY InvariantHolds
<1>2. Inv => AnswersMatch  BY MatchFollows
<1> QED  BY <1>1, <1>2, PTL

\* Identifiers of messages in flight are not above the number of calls, so the
\* hypothesis holds of every program that makes no more calls than there are.
LEMMA FewCallsFit == ASSUME MaxJobs <= MaxId, Inv PROVE IdsFit
<1>1. FlightOk  BY DEF Inv
<1> SUFFICES ASSUME NEW e \in sent PROVE e.id <= MaxId  BY DEF IdsFit
<1>2. e.id \in Ids /\ Reached(e.id)  BY <1>1 DEF FlightOk, Entry
<1> QED  BY <1>2, DeliveryAssumption DEF Reached, Jobs, Ids

THEOREM AnswersCorrectForFewCalls == ASSUME MaxJobs <= MaxId PROVE Spec => []AnswersMatch
<1>1. Init => Inv  BY InitHolds
<1>2. Inv /\ [Next]_vars => Inv'  BY InvKept, FewCallsFit
<1>3. Inv => AnswersMatch  BY MatchFollows
<1> QED  BY <1>1, <1>2, <1>3, PTL DEF Spec

-----------------------------------------------------------------------------
(* What a call does.                                                         *)

LEMMA CallEffect ==
  ASSUME Inv, NEW j \in Jobs, PublishCall(j) \/ SubscribeCall(j)
  PROVE  \E k \in Calls :
           /\ kind[j] = "none" /\ kind' = [kind EXCEPT ![j] = k] /\ conn = "up" /\ taken[j] = 0
           /\ told' = [told EXCEPT ![j] = IF k = "qos0" THEN "done" ELSE "pending"]
           /\ UNCHANGED <<conn, down, held, taken, clean, mail, arrived, received>>
           /\ \A p \in Elems(up') : p \in Elems(up) \/ p.type \in Requests
           /\ \/ k = "qos0" /\ sent' = sent
              \/ k # "qos0" /\ \E d \in Entry :
                   /\ sent' = sent \cup {d} /\ d.job = j /\ ~d.rel
                   /\ \A e \in sent : e.id # d.id
<1>1. Lines /\ CallsOk /\ FlightOk  BY DEF Inv
<1>2. /\ conn = "up"
      /\ UNCHANGED <<conn, down, held, taken, clean, mail, arrived, received>>
  BY DEF PublishCall, SubscribeCall, serverVars, faultVars, clientVars
<1>3. PICK k \in Calls : \E t \in {"PUBLISH", "SUBSCRIBE", "UNSUBSCRIBE"}, id \in Nat :
        /\ Called(j, k) /\ up' = Append(up, Packet(t, id, j))
        /\ told' = [told EXCEPT ![j] = IF k = "qos0" THEN "done" ELSE "pending"]
        /\ \/ k = "qos0" /\ sent' = sent
           \/ k # "qos0" /\ (RequiresAck(j, nextSeq + 1) \/ RequiresAck(j, 0))
  <2>1. kind[j] = "none"  BY DEF PublishCall, SubscribeCall, Called
  <2>2. FreeId \in Ids /\ WireId(FreeId) \in Nat  BY <1>1, <2>1, FreeIds, WireIds
  <2>3. CASE PublishCall(j)
    <3>1. PICK k \in Kinds \cap Publishes :
       /\ Called(j, k)
       /\ IF k = "qos0"
          THEN /\ told' = [told EXCEPT ![j] = "done"]
               /\ up' = Append(up, Packet("PUBLISH", 0, j))
               /\ UNCHANGED clientVars
          ELSE /\ told' = [told EXCEPT ![j] = "pending"]
               /\ RequiresAck(j, nextSeq + 1)
               /\ nextSeq' = nextSeq + 1
               /\ saved' = saved \cup (sent' \ sent)
               /\ up' = Append(up, Packet("PUBLISH", WireId(FreeId), j))
               /\ UNCHANGED <<received, savedIn, timers>>
      BY <2>3 DEF PublishCall
    <3>2. k \in Calls  BY DEF Calls
    <3>3. CASE k = "qos0"  BY <3>1, <3>2, <3>3 DEF clientVars
    <3>4. CASE k # "qos0"  BY <2>2, <3>1, <3>2, <3>4
    <3> QED  BY <3>3, <3>4
  <2>4. CASE SubscribeCall(j)
    <3>1. PICK k \in Kinds \cap (Subscribes \cup Unsubscribes) :
       /\ Called(j, k)
       /\ up' = Append(up, Packet(TypeOf(k), WireId(FreeId), j))
      BY <2>4 DEF SubscribeCall
    <3>2. k \in Calls /\ k # "qos0"  BY DEF Calls, Publishes, Subscribes, Unsubscribes
    <3>3. TypeOf(k) \in {"PUBLISH", "SUBSCRIBE", "UNSUBSCRIBE"}  BY <3>2, TypesOfCalls
    <3>4. told' = [told EXCEPT ![j] = "pending"] /\ RequiresAck(j, 0)
      BY <2>4 DEF SubscribeCall
    <3> QED  BY <2>2, <3>1, <3>2, <3>3, <3>4
  <2> QED  BY <2>3, <2>4
<1>4. PICK t \in {"PUBLISH", "SUBSCRIBE", "UNSUBSCRIBE"}, id \in Nat :
        up' = Append(up, Packet(t, id, j))
  BY <1>3
<1>5. kind[j] = "none" /\ kind' = [kind EXCEPT ![j] = k]  BY <1>3 DEF Called
<1>6. FreeId \in Ids /\ FreeId <= j /\ \A e \in sent : e.id # FreeId  BY <1>1, <1>5, FreeIds
<1>7. taken[j] = 0  BY <1>1, <1>5 DEF CallsOk
<1>8. \A p \in Elems(up') : p \in Elems(up) \/ p.type \in Requests
  <2> DEFINE x == Packet(t, id, j)
  <2>1. x \in Packets /\ x.type = t
    <3>1. j \in Nat /\ t \in PacketTypes  BY DeliveryAssumption DEF Jobs, PacketTypes
    <3> QED  BY <3>1, PacketIn
  <2>2. x.type \in Requests  BY <2>1 DEF Requests
  <2> HIDE DEF x
  <2>3. up' = up \o <<x>> /\ Elems(<<x>>) = {x} /\ <<x>> \in Seq(Packets)
    BY <1>1, <1>4, <2>1, Short DEF Lines, x
  <2>4. Elems(up \o <<x>>) = Elems(up) \cup Elems(<<x>>)  BY <1>1, <2>3, Joined DEF Lines
  <2> QED  BY <2>2, <2>3, <2>4
<1>9. \/ k = "qos0" /\ sent' = sent
      \/ k # "qos0" /\ \E d \in Entry :
                   /\ sent' = sent \cup {d} /\ d.job = j /\ ~d.rel
                   /\ \A e \in sent : e.id # d.id
  <2>1. CASE k = "qos0"  BY <1>3, <2>1
  <2>2. CASE k # "qos0"
    <3>1. PICK seq \in {0, nextSeq + 1} : RequiresAck(j, seq)  BY <1>3, <2>2
    <3> DEFINE d == [id |-> FreeId, job |-> j, rel |-> FALSE, seq |-> seq]
    <3>2. sent' = sent \cup {d}  BY <3>1 DEF RequiresAck
    <3>3. d.id = FreeId /\ d.job = j /\ ~d.rel  OBVIOUS
    <3>4. seq \in 0..MaxJobs
      <4>1. /\ nextSeq \in Nat /\ (nextSeq = 0 \/ Reached(nextSeq)) /\ MaxJobs \in Nat
            /\ j \in 1..MaxJobs
        BY <1>1, DeliveryAssumption DEF FlightOk, Jobs
      <4>2. Reached(nextSeq) => nextSeq < j
        <5> SUFFICES ASSUME NEW i \in Jobs, kind[i] # "none", nextSeq <= i PROVE nextSeq < j
          BY DEF Reached
        <5>1. ~(j < i) /\ i # j  BY <1>1, <1>5 DEF CallsOk
        <5> QED  BY <4>1, <5>1 DEF Jobs
      <4> QED  BY <4>1, <4>2
    <3>5. d \in Entry  BY <1>6, <3>4 DEF Entry
    <3> HIDE DEF d
    <3> QED  BY <1>6, <2>2, <3>2, <3>3, <3>5
  <2> QED  BY <2>1, <2>2
<1> QED  BY <1>2, <1>3, <1>5, <1>7, <1>8, <1>9

-----------------------------------------------------------------------------
(* What the server has taken.                                                *)

LEMMA HeldSame ==
  ASSUME Held, UNCHANGED <<sent, held, taken, kind, clean, conn>>, conn = "up",
         \A q \in Elems(down') : q \in Elems(down) \/ q.type \notin {"PUBACK", "PUBREC", "PUBCOMP"}
  PROVE  Held'
BY DEF Held, Live

LEMMA HeldWhenClosed ==
  ASSUME Held, conn' \in {"down", "opening"}, down' = <<>>, UNCHANGED <<held, taken, kind, clean>>,
         sent' \subseteq sent, \A e \in sent : kind[e.job] = "qos2" => e \in sent'
  PROVE  Held'
<1>1. Elems(down') = {}  BY Short
<1> QED  BY <1>1 DEF Held, Live

\* A message leaves; the identifier of one of QoS 2 is not held any more.
LEMMA HeldWithout ==
  ASSUME Held, FlightOk, NEW e \in sent, sent' = sent \ {e}, conn = "up", conn' = conn,
         kind[e.job] = "qos2" => e.id \notin held,
         UNCHANGED <<held, taken, kind, clean>>,
         \A q \in Elems(down') : q \in Elems(down)
  PROVE  Held'
<1>1. \A h \in held : \E d \in sent' : d.id = h /\ kind[d.job] = "qos2"
  BY DEF Held, Live
<1> QED  BY <1>1 DEF Held, Live

LEMMA HeldForCalls ==
  ASSUME Inv, Held, NEW j \in Jobs, PublishCall(j) \/ SubscribeCall(j)
  PROVE  Held'
<1>1. Lines /\ CallsOk /\ FlightOk /\ JobLines  BY DEF Inv
<1>2. PICK k \in Calls :
           /\ kind[j] = "none" /\ kind' = [kind EXCEPT ![j] = k] /\ conn = "up" /\ taken[j] = 0
           /\ UNCHANGED <<conn, down, held, taken, clean>>
           /\ \/ k = "qos0" /\ sent' = sent
              \/ k # "qos0" /\ \E d \in Entry :
                   /\ sent' = sent \cup {d} /\ d.job = j /\ ~d.rel
                   /\ \A e \in sent : e.id # d.id
  BY CallEffect
<1>3. \A e \in sent : e.job # j  BY <1>1, <1>2, NothingOf
<1>4. kind'[j] = k /\ \A e \in sent : kind'[e.job] = kind[e.job]  BY <1>1, <1>2, <1>3 DEF CallsOk
<1>5. CASE sent' = sent  BY <1>2, <1>4, <1>5 DEF Held, Live
<1>6. CASE sent' # sent
  <2>1. PICK d \in Entry : /\ sent' = sent \cup {d} /\ d.job = j /\ ~d.rel
                           /\ \A e \in sent : e.id # d.id
    BY <1>2, <1>6
  <2>2. d.id \notin held  BY <1>2, <2>1 DEF Held, Live
  <2> QED  BY <1>2, <1>4, <2>1, <2>2 DEF Held, Live
<1> QED  BY <1>5, <1>6

LEMMA HeldForReplies ==
  ASSUME Inv, Held, Puback \/ Pubcomp \/ Suback
  PROVE  Held'
<1>1. Lines /\ CallsOk /\ FlightOk /\ JobLines  BY DEF Inv
<1>2. /\ conn = "up" /\ down # <<>>
      /\ Head(down).type \in {"PUBACK", "PUBCOMP", "SUBACK", "UNSUBACK"}
      /\ UNCHANGED <<held, taken, kind, clean>>
  BY DEF Puback, Pubcomp, Suback, Receives, serverVars, faultVars
<1>3. Head(down).type \in Replies  BY <1>2, ReplyTypes
<1>4. PICK e \in sent :
           /\ AnswerTo(kind[e.job], e, Head(down)) /\ Under(Head(down).id) = {e}
  BY <1>1, <1>2, <1>3, Finds
<1>5. /\ sent' = sent \ {e} /\ down' = Tail(down) /\ conn' = conn
  BY <1>4 DEF Puback, Pubcomp, Suback, Completes, Receives
<1>6. Head(down) \in Elems(down) /\ \A q \in Elems(down') : q \in Elems(down)
  BY <1>1, <1>2, <1>5, HeadOff DEF Lines, OneWay
<1>7. kind[e.job] = "qos2" => e.id \notin held
  <2> SUFFICES ASSUME kind[e.job] = "qos2" PROVE e.id \notin held  OBVIOUS
  <2>1. Head(down).type = "PUBCOMP" /\ Head(down).id = e.id
    BY <1>2, <1>4 DEF AnswerTo, Subscribes, Unsubscribes
  <2> QED  BY <1>6, <2>1 DEF Held
<1> QED  BY <1>1, <1>2, <1>5, <1>6, <1>7, HeldWithout

LEMMA HeldForPubrec == ASSUME Inv, Held, Pubrec PROVE Held'
<1>1. Lines /\ FlightOk  BY DEF Inv
<1>2. /\ conn = "up" /\ down # <<>> /\ Head(down).type = "PUBREC"
      /\ conn' = conn /\ down' = Tail(down)
      /\ UNCHANGED <<kind, taken, clean, held>>
  BY PubrecEffect
<1>3. PICK e \in sent : \E d \in Entry :
              /\ AnswerTo(kind[e.job], e, Head(down)) /\ d.id = e.id /\ d.job = e.job /\ d.rel
              /\ sent' = (sent \ {e}) \cup {d}
  BY PubrecEffect
<1>4. PICK d \in Entry : /\ AnswerTo(kind[e.job], e, Head(down))
                         /\ d.id = e.id /\ d.job = e.job /\ d.rel /\ sent' = (sent \ {e}) \cup {d}
  BY <1>3
<1>5. Head(down) \in Elems(down) /\ \A q \in Elems(down') : q \in Elems(down)
  BY <1>1, <1>2, HeadOff DEF Lines, OneWay
<1>6. taken[d.job] > 0  BY <1>2, <1>4, <1>5 DEF Held, AnswerTo
<1>7. \A h \in held : \E y \in sent' : y.id = h /\ kind[y.job] = "qos2"
  <2> SUFFICES ASSUME NEW h \in held PROVE \E y \in sent' : y.id = h /\ kind[y.job] = "qos2"
    OBVIOUS
  <2>1. PICK y \in sent : y.id = h /\ kind[y.job] = "qos2"  BY <1>2 DEF Held, Live
  <2>2. CASE y = e  BY <1>4, <2>1, <2>2
  <2>3. CASE y # e  BY <1>4, <2>1, <2>3
  <2> QED  BY <2>2, <2>3
<1> QED  BY <1>2, <1>4, <1>5, <1>6, <1>7 DEF Held, Live

LEMMA HeldForServePublish == ASSUME Inv, IdsFit, Held, ServePublish PROVE Held'
<1> DEFINE h == Head(up)
           j == h.job
           new == kind[j] # "qos2" \/ h.id \notin held
<1>1. Lines /\ CallsOk /\ FlightOk  BY DEF Inv
<1>2. /\ up # <<>> /\ h.type = "PUBLISH" /\ up' = Tail(up)
      /\ UNCHANGED <<conn, clientVars, kind, clean>>
      /\ j \in Jobs
      /\ taken' = IF new THEN [taken EXCEPT ![j] = @ + 1] ELSE taken
      /\ held' = IF kind[j] = "qos2" THEN held \cup {h.id} ELSE held
      /\ \/ kind[j] = "qos0" /\ down' = down \o <<>>
         \/ \E e \in sent : \E x \in Packets :
              /\ Asks(kind[e.job], e, Head(up)) /\ e.id = Head(up).id /\ e.job = j /\ ~e.rel
              /\ down' = down \o <<x>> /\ AnswerTo(kind[e.job], e, x)
              /\ x.job = j /\ x.id = e.id
              /\ \/ kind[j] = "qos1" /\ x.type = "PUBACK"
                 \/ kind[j] = "qos2" /\ x.type = "PUBREC"
  BY ServePublishEffect
<1>3. /\ conn = "up" /\ sent' = sent /\ down \in Seq(Packets) /\ h \in Elems(up)
  <2>1. h.type \in Requests  BY <1>2 DEF Requests
  <2> QED  BY <1>1, <1>2, <2>1, ServerHead DEF clientVars, Lines
<1>4. taken \in [Jobs -> Nat] /\ \A i \in Jobs : i # j => taken'[i] = taken[i]
  BY <1>1, <1>2 DEF CallsOk
<1>5. \A i \in Jobs : taken[i] > 0 => taken'[i] > 0
  BY <1>2, <1>4
<1>6. \A e \in sent : e.job \in Jobs  BY <1>1 DEF FlightOk, Entry
<1> HIDE DEF h
<1>7. \A q \in Elems(down) : q.type \in {"PUBACK", "PUBREC"} => taken'[q.job] > 0
  <2> SUFFICES ASSUME NEW q \in Elems(down), q.type \in {"PUBACK", "PUBREC"}
               PROVE  taken'[q.job] > 0
    OBVIOUS
  <2>1. q.type \in Replies  BY DEF Replies
  <2>2. \E e \in sent : q.job = e.job  BY <2>1 DEF Inv, JobLines, AnswerTo
  <2>3. q.job \in Jobs  BY <1>6, <2>2
  <2> QED  BY <1>5, <2>3 DEF Held
<1>8. CASE kind[j] = "qos0" /\ down' = down \o <<>>
  <2>1. down' = down /\ held' = held  BY <1>2, <1>3, <1>8, Short
  <2>2. \A e \in sent : kind[e.job] = "qos2" => taken'[e.job] = taken[e.job]
    BY <1>4, <1>6, <1>8
  <2> QED  BY <1>2, <1>3, <1>5, <1>6, <1>7, <2>1, <2>2 DEF Held, Live
<1>9. CASE ~(kind[j] = "qos0" /\ down' = down \o <<>>)
  <2>1. PICK e \in sent : \E x \in Packets :
              /\ e.id = h.id /\ e.job = j /\ ~e.rel
              /\ down' = down \o <<x>> /\ x.job = j /\ x.id = e.id
              /\ \/ kind[j] = "qos1" /\ x.type = "PUBACK"
                 \/ kind[j] = "qos2" /\ x.type = "PUBREC"
    BY <1>2, <1>9 DEF h
  <2>2. PICK x \in Packets :
              /\ e.id = h.id /\ e.job = j /\ ~e.rel
              /\ down' = down \o <<x>> /\ x.job = j /\ x.id = e.id
              /\ \/ kind[j] = "qos1" /\ x.type = "PUBACK"
                 \/ kind[j] = "qos2" /\ x.type = "PUBREC"
    BY <2>1
  <2>3. Elems(down') = Elems(down) \cup {x}
    <3>1. <<x>> \in Seq(Packets) /\ Elems(<<x>>) = {x}  BY Short
    <3>2. Elems(down \o <<x>>) = Elems(down) \cup Elems(<<x>>)  BY <1>3, <3>1, Joined
    <3>3. down' = down \o <<x>>  BY <2>2
    <3> QED  BY <3>1, <3>2, <3>3
  <2>4. CASE kind[j] = "qos1"
    <3>1. held' = held /\ taken'[j] > 0  BY <1>2, <1>4, <2>4
    <3>2. \A d \in sent : kind[d.job] = "qos2" => taken'[d.job] = taken[d.job]
      BY <1>4, <1>6, <2>4
    <3>3. x.type = "PUBACK" /\ x.job = j  BY <2>2, <2>4
    <3> QED  BY <1>2, <1>3, <1>5, <1>6, <1>7, <2>3, <3>1, <3>2, <3>3 DEF Held, Live
  <2>5. CASE kind[j] = "qos2"
    <3>1. held' = held \cup {e.id} /\ x.type = "PUBREC" /\ kind[e.job] = "qos2"
      BY <1>2, <2>2, <2>5
    <3>2. taken[e.job] = IF e.id \in held THEN 1 ELSE 0  BY <1>3, <2>2, <3>1 DEF Held, Live
    <3>3. taken'[j] = 1
      <4>1. CASE e.id \in held  BY <1>2, <2>2, <2>5, <3>2, <4>1
      <4>2. CASE e.id \notin held
        <5>1. taken' = [taken EXCEPT ![j] = @ + 1] /\ taken[j] = 0  BY <1>2, <2>2, <3>2, <4>2
        <5> QED  BY <1>2, <1>4, <5>1
      <4> QED  BY <4>1, <4>2
    <3>4. ASSUME NEW d \in sent, kind[d.job] = "qos2", ~d.rel
          PROVE  taken'[d.job] = IF d.id \in held' THEN 1 ELSE 0
      <4>1. CASE d = e  BY <2>2, <3>1, <3>3, <4>1
      <4>2. CASE d # e
        <5>1. d.job # j /\ d.id # e.id  BY <1>1, <2>2, <4>2 DEF FlightOk
        <5>2. taken[d.job] = IF d.id \in held THEN 1 ELSE 0  BY <1>3, <3>4 DEF Held, Live
        <5> QED  BY <1>4, <1>6, <3>1, <5>1, <5>2
      <4> QED  BY <4>1, <4>2
    <3>5. \A g \in held' : \E d \in sent : d.id = g /\ kind[d.job] = "qos2"
      BY <1>3, <3>1 DEF Held, Live
    <3>6. \A q \in Elems(down) : q.type = "PUBCOMP" => q.id \notin held'
      <4> SUFFICES ASSUME NEW q \in Elems(down), q.type = "PUBCOMP" PROVE q.id # e.id
        BY <3>1 DEF Held
      <4>1. q.type \in Replies  BY DEF Replies
      <4>2. PICK d \in sent : AnswerTo(kind[d.job], d, q)  BY <4>1 DEF Inv, JobLines
      <4>3. d.rel /\ d.id = q.id  BY <4>2 DEF AnswerTo
      <4> QED  BY <1>1, <2>2, <4>3 DEF FlightOk
    <3>7. \A d \in sent : d.rel => taken'[d.job] > 0  BY <1>5, <1>6 DEF Held
    <3>8. \A q \in Elems(down') : /\ q.type \in {"PUBACK", "PUBREC"} => taken'[q.job] > 0
                                  /\ q.type = "PUBCOMP" => q.id \notin held'
      BY <1>7, <2>2, <2>3, <3>1, <3>3, <3>6
    <3> QED  BY <1>2, <1>3, <3>4, <3>5, <3>7, <3>8 DEF Held, Live
  <2> QED  BY <2>2, <2>4, <2>5
<1> QED  BY <1>8, <1>9

LEMMA HeldForServePubrel == ASSUME Inv, IdsFit, Held, ServePubrel PROVE Held'
<1>1. Lines /\ FlightOk  BY DEF Inv
<1>2. /\ up # <<>> /\ Head(up).type = "PUBREL" /\ up' = Tail(up)
      /\ UNCHANGED <<conn, clientVars, kind, taken, clean>>
      /\ held' = held \ {Head(up).id}
  BY ServePubrelEffect
<1>3. PICK e \in sent : \E x \in Packets :
              /\ e.id = Head(up).id /\ e.rel /\ down' = down \o <<x>>
              /\ x.id = Head(up).id /\ x.type = "PUBCOMP"
  BY ServePubrelEffect
<1>4. PICK x \in Packets : /\ e.id = Head(up).id /\ e.rel /\ down' = down \o <<x>>
                           /\ x.id = Head(up).id /\ x.type = "PUBCOMP"
  BY <1>3
<1>5. conn = "up" /\ sent' = sent /\ down \in Seq(Packets)
  <2>1. Head(up).type \in Requests  BY <1>2 DEF Requests
  <2> QED  BY <1>1, <1>2, <2>1, ServerHead DEF clientVars, Lines
<1>6. Elems(down') = Elems(down) \cup {x}  BY <1>4, <1>5, Short, Joined
<1>7. held' = held \ {e.id}  BY <1>2, <1>4
<1>8. ASSUME NEW d \in sent, kind[d.job] = "qos2", ~d.rel
      PROVE  taken[d.job] = IF d.id \in held' THEN 1 ELSE 0
  <2>1. d.id # e.id  BY <1>1, <1>4, <1>8 DEF FlightOk
  <2>2. taken[d.job] = IF d.id \in held THEN 1 ELSE 0  BY <1>5, <1>8 DEF Held, Live
  <2> QED  BY <1>7, <2>1, <2>2
<1> QED  BY <1>2, <1>4, <1>5, <1>6, <1>7, <1>8 DEF Held, Live

LEMMA HeldKept ==
  ASSUME Durable, Inv, IdsFit, Held, [Next]_vars
  PROVE  Held'
<1>0. Lines /\ CallsOk /\ FlightOk  BY DEF Inv
<1>1. CASE UNCHANGED vars  BY <1>1 DEF vars, Held, Live
<1>2. ASSUME NEW j \in Jobs, PublishCall(j) \/ SubscribeCall(j) PROVE Held'
  BY <1>2, HeldForCalls
<1>3. ASSUME NEW j \in Jobs, TimesOut(j) PROVE Held'
  BY <1>3 DEF TimesOut, serverVars, faultVars, Held, Live
<1>4. CASE Connack
  <2>1. /\ conn = "opening" /\ conn' = "up" /\ down # <<>>
        /\ \A q \in Elems(down') : q.type \in Requests
        /\ sent' = (IF clean THEN {} ELSE sent)
        /\ UNCHANGED <<kind, held, taken, clean>>
    BY <1>4, ConnackKeeps
  <2>2. \A q \in Elems(down') : q.type \notin {"PUBACK", "PUBREC", "PUBCOMP"}
    BY <2>1 DEF Requests
  <2>3. CASE clean  BY <2>1, <2>2, <2>3 DEF Held, Live
  <2>4. CASE ~clean  BY <2>1, <2>2, <2>4 DEF Held, Live
  <2> QED  BY <2>3, <2>4
<1>5. CASE Puback \/ Pubcomp \/ Suback  BY <1>5, HeldForReplies
<1>6. CASE Pubrec  BY <1>6, HeldForPubrec
<1>7. CASE Publish \/ Pubrel
  <2>1. /\ conn = "up" /\ down # <<>> /\ down' = Tail(down)
        /\ UNCHANGED <<sent, held, taken, kind, clean, conn>>
    BY <1>7 DEF Publish, Pubrel, Receives, serverVars, faultVars
  <2>2. \A q \in Elems(down') : q \in Elems(down)
    BY <1>0, <2>1, HeadOff DEF Lines, OneWay
  <2> QED  BY <2>1, <2>2, HeldSame
<1>8. CASE Connect \/ Drop \/ Restart
  <2>1. CASE Connect
    <3>1. down' = <<>>  BY <1>0, <2>1, NothingWhenDown DEF Connect
    <3> QED  BY <2>1, <3>1, HeldWhenClosed
          DEF Connect, clientVars, serverVars, callVars, faultVars
  <2>2. CASE Drop  BY <2>2, HeldWhenClosed DEF Drop, clientVars, serverVars, callVars
  <2>3. CASE Restart
    <3>1. sent' = saved /\ down' = <<>> /\ conn' = "down" /\ UNCHANGED <<held, taken, kind, clean>>
      BY <2>3 DEF Restart, serverVars
    <3>2. sent' \subseteq sent /\ \A e \in sent : kind[e.job] = "qos2" => e \in sent'
      BY <1>0, <3>1 DEF FlightOk, Publishes
    <3> QED  BY <3>1, <3>2, HeldWhenClosed
  <2> QED  BY <1>8, <2>1, <2>2, <2>3
<1>9. CASE ServeConnect
  <2>1. /\ conn = "opening" /\ UNCHANGED <<conn, clientVars, kind, taken, clean>>
        /\ held' = (IF clean THEN {} ELSE held) /\ Inv'
    BY <1>9, ServeConnectKeeps
  <2>2. sent' = sent  BY <2>1 DEF clientVars
  <2>3. \A q \in Elems(down') : q.type \notin {"PUBACK", "PUBREC", "PUBCOMP"}
    <3>1. \A q \in Elems(down') : q.type = "CONNACK" \/ q.type \in Requests
      BY <2>1 DEF Inv, Lines
    <3> QED  BY <3>1 DEF Requests
  <2> QED  BY <2>1, <2>2, <2>3 DEF Held, Live
<1>10. CASE ServePublish  BY <1>10, HeldForServePublish
<1>11. CASE ServePubrel  BY <1>11, HeldForServePubrel
<1>12. CASE ServeSubscribe
  <2>1. /\ UNCHANGED <<conn, clean, clientVars, kind, held, taken>> /\ up # <<>>
        /\ \E x : down' = down \o <<x>> /\ x \in Packets /\ x.type \in {"SUBACK", "UNSUBACK"}
    BY <1>12, ServeSubscribeKeeps
  <2>2. PICK x \in Packets : down' = down \o <<x>> /\ x.type \in {"SUBACK", "UNSUBACK"}
    BY <2>1
  <2>3. Elems(down') = Elems(down) \cup {x}  BY <1>0, <2>2, Short, Joined DEF Lines
  <2>4. conn = "up"
    <3>1. Head(up).type \in Requests
      BY <1>12 DEF ServeSubscribe, Serves, Requests
    <3> QED  BY <1>0, <2>1, <3>1, ServerHead
  <2> QED  BY <2>1, <2>2, <2>3, <2>4, HeldSame DEF clientVars
<1>13. CASE ServePuback
  <2>1. /\ UNCHANGED <<conn, clean, clientVars, kind, held, taken>> /\ down' = down
    BY <1>13, ServePubackKeeps
  <2> QED  BY <2>1 DEF clientVars, Held, Live
<1>14. CASE ServePubrec
  <2>1. /\ UNCHANGED <<conn, clean, clientVars, kind, held, taken>>
        /\ \A q \in Elems(down') : q \in Elems(down) \/ q.type = "PUBREL"
        /\ up # <<>> /\ Head(up).type = "PUBREC"
    BY <1>14, ServePubrecKeeps
  <2>2. conn = "up"
    <3>1. Head(up).type \in Replies  BY <2>1 DEF Replies
    <3> QED  BY <1>0, <2>1, <3>1, ServerHead
  <2> QED  BY <2>1, <2>2, HeldSame DEF clientVars
<1>15. ASSUME NEW n \in Mails, ServerSends(n) PROVE Held'
  <2>1. /\ UNCHANGED <<conn, clean, clientVars, kind, held, taken>> /\ conn = "up"
        /\ \A q \in Elems(down') : q \in Elems(down) \/ q.type = "PUBLISH"
    BY <1>15, ServerSendsKeeps
  <2> QED  BY <2>1, HeldSame DEF clientVars
<1> QED  BY <1>1, <1>2, <1>3, <1>4, <1>5, <1>6, <1>7, <1>8, <1>9, <1>10, <1>11, <1>12, <1>13,
            <1>14, <1>15 DEF Next, Handles, Answers

-----------------------------------------------------------------------------
(* What the application publishes is taken as the contract says.             *)

Given     == {j \in Jobs : kind[j] \in {"qos1", "qos2"}}
Once      == {j \in Jobs : kind[j] = "qos2"}
TakenOf   == [j \in Jobs |-> IF kind[j] \in {"qos1", "qos2"} THEN taken[j] ELSE 0]
Confirmed == {j \in Jobs : kind[j] \in {"qos1", "qos2"} /\ told[j] = "done"}

OutStep == Outgoing!Next \/ UNCHANGED <<Given, Once, TakenOf, Confirmed>>

LEMMA OutSteps == OutStep => [Outgoing!Next]_<<Given, Once, TakenOf, Confirmed>>
BY DEF OutStep

\* Nobody hears of anything.
LEMMA OutStutters ==
  ASSUME UNCHANGED <<kind, taken>>,
         \A j \in Jobs : kind[j] \in {"qos1", "qos2"} => told'[j] = told[j]
  PROVE  OutStep
<1>1. UNCHANGED <<Given, Once, TakenOf>>  BY DEF Given, Once, TakenOf
<1>2. UNCHANGED Confirmed  BY DEF Confirmed
<1> QED  BY <1>1, <1>2 DEF OutStep

LEMMA OutForCalls ==
  ASSUME Inv, NEW j \in Jobs, PublishCall(j) \/ SubscribeCall(j)
  PROVE  OutStep
<1>1. PICK k \in Calls :
           /\ kind[j] = "none" /\ kind' = [kind EXCEPT ![j] = k] /\ taken[j] = 0
           /\ told' = [told EXCEPT ![j] = IF k = "qos0" THEN "done" ELSE "pending"]
           /\ taken' = taken
  BY CallEffect
<1>2. CallsOk  BY DEF Inv
<1>3. /\ kind'[j] = k /\ told'[j] = IF k = "qos0" THEN "done" ELSE "pending"
      /\ \A i \in Jobs : i # j => kind'[i] = kind[i] /\ told'[i] = told[i]
  BY <1>1, <1>2 DEF CallsOk
<1>4. CASE k \notin {"qos1", "qos2"}
  <2>1. \A i \in Jobs : (kind'[i] \in {"qos1", "qos2"}) <=> (kind[i] \in {"qos1", "qos2"})
    BY <1>1, <1>3, <1>4
  <2>2. \A i \in Jobs : kind[i] \in {"qos1", "qos2"} => kind'[i] = kind[i] /\ told'[i] = told[i]
    BY <1>1, <1>3
  <2>3. UNCHANGED Given  BY <2>1 DEF Given
  <2>4. UNCHANGED Once  BY <1>1, <1>3, <1>4 DEF Once
  <2>5. UNCHANGED TakenOf  BY <1>1, <2>1 DEF TakenOf
  <2>6. UNCHANGED Confirmed  BY <2>1, <2>2 DEF Confirmed
  <2> QED  BY <2>3, <2>4, <2>5, <2>6 DEF OutStep
<1>5. CASE k \in {"qos1", "qos2"}
  <2>1. Given' = Given \cup {j} /\ j \notin Given
    BY <1>1, <1>3, <1>5 DEF Given
  <2>2. Once' \in {Once, Once \cup {j}}
    <3>1. CASE k = "qos2"
      <4>1. Once' = Once \cup {j}  BY <1>3, <3>1 DEF Once
      <4> QED  BY <4>1
    <3>2. CASE k = "qos1"
      <4>1. Once' = Once  BY <1>1, <1>3, <3>2 DEF Once
      <4> QED  BY <4>1
    <3> QED  BY <1>5, <3>1, <3>2
  <2>3. TakenOf' = TakenOf  BY <1>1, <1>3 DEF TakenOf
  <2>4. Confirmed' = Confirmed  BY <1>1, <1>3, <1>5 DEF Confirmed
  <2>5. Outgoing!Give(j)
    BY <2>1, <2>2, <2>3, <2>4 DEF Outgoing!Give, Given, Once, TakenOf, Confirmed
  <2> QED  BY <2>5 DEF OutStep, Outgoing!Next
<1> QED  BY <1>4, <1>5

\* The sender hears of a message that was taken.
LEMMA OutForAcks ==
  ASSUME Inv, Held, Puback \/ Pubcomp
  PROVE  OutStep
<1>1. Lines /\ CallsOk /\ FlightOk /\ JobLines  BY DEF Inv
<1>2. /\ conn = "up" /\ down # <<>> /\ Head(down).type \in {"PUBACK", "PUBCOMP"}
      /\ UNCHANGED <<kind, taken>>
  BY DEF Puback, Pubcomp, Receives, faultVars
<1>3. Head(down).type \in Replies  BY <1>2, ReplyTypes
<1>4. PICK e \in sent :
           /\ AnswerTo(kind[e.job], e, Head(down)) /\ Under(Head(down).id) = {e}
  BY <1>1, <1>2, <1>3, Finds
<1>5. told' = [j \in Jobs |-> IF e.job = j THEN "done" ELSE told[j]]
  BY <1>4 DEF Puback, Pubcomp, Delivered
<1> DEFINE n == e.job
<1>6. n \in Jobs /\ kind[n] \in {"qos1", "qos2"} /\ e \in Entry
  BY <1>1, <1>2, <1>4 DEF FlightOk, Entry, AnswerTo, Subscribes, Unsubscribes
<1>7. taken[n] > 0
  <2>1. Head(down) \in Elems(down)  BY <1>1, <1>2, HeadOff DEF Lines, OneWay
  <2>2. CASE Head(down).type = "PUBACK"  BY <1>4, <2>1, <2>2 DEF Held, AnswerTo
  <2>3. CASE Head(down).type = "PUBCOMP"
    <3>1. e.rel  BY <1>4, <2>3 DEF AnswerTo
    <3> QED  BY <3>1 DEF Held
  <2> QED  BY <1>2, <2>2, <2>3
<1> HIDE DEF n
<1>8. told' = [j \in Jobs |-> IF n = j THEN "done" ELSE told[j]]  BY <1>5 DEF n
<1>9. UNCHANGED <<Given, Once, TakenOf>>  BY <1>2 DEF Given, Once, TakenOf
<1>10. Confirmed' = Confirmed \cup {n}  BY <1>2, <1>6, <1>8 DEF Confirmed
<1>11. n \in Given /\ TakenOf[n] > 0  BY <1>6, <1>7 DEF Given, TakenOf
<1>12. Outgoing!Confirm(n)
  BY <1>9, <1>10, <1>11 DEF Outgoing!Confirm, Given, Once, TakenOf, Confirmed
<1> QED  BY <1>6, <1>12 DEF OutStep, Outgoing!Next

\* The server takes a message that nobody has heard of.
LEMMA OutForServePublish ==
  ASSUME Inv, IdsFit, Held, ServePublish
  PROVE  OutStep
<1> DEFINE j == Head(up).job
           new == kind[j] # "qos2" \/ Head(up).id \notin held
<1>1. Lines /\ CallsOk /\ FlightOk  BY DEF Inv
<1>2. /\ up # <<>> /\ Head(up).type = "PUBLISH" /\ UNCHANGED <<kind, told>> /\ j \in Jobs
      /\ taken' = IF new THEN [taken EXCEPT ![j] = @ + 1] ELSE taken
      /\ \/ kind[j] = "qos0"
         \/ \E e \in sent : \E x \in Packets :
              /\ e.id = Head(up).id /\ e.job = j /\ ~e.rel
              /\ kind[j] \in {"qos1", "qos2"}
  BY ServePublishEffect
<1>3. conn = "up"
  <2>1. Head(up).type \in Requests  BY <1>2 DEF Requests
  <2> QED  BY <1>1, <1>2, <2>1, ServerHead
<1>4. UNCHANGED <<Given, Once, Confirmed>>  BY <1>2 DEF Given, Once, Confirmed
<1> DEFINE id == Head(up).id
<1>5. id = Head(up).id  OBVIOUS
<1>6. taken \in [Jobs -> Nat]  BY <1>1 DEF CallsOk
<1>7. CASE kind[j] = "qos0"
  <2>1. \A i \in Jobs : i # j => taken'[i] = taken[i]  BY <1>2, <1>6
  <2>2. \A i \in Jobs : kind[i] \in {"qos1", "qos2"} => taken'[i] = taken[i]  BY <1>7, <2>1
  <2>3. TakenOf' = TakenOf  BY <1>2, <2>2 DEF TakenOf
  <2> QED  BY <1>4, <2>3 DEF OutStep
<1>8. CASE kind[j] # "qos0"
  <2>1. PICK e \in sent : e.id = id /\ e.job = j /\ ~e.rel /\ kind[j] \in {"qos1", "qos2"}
    BY <1>2, <1>8
  <2>2. told[j] = "pending"  BY <1>1, <2>1 DEF FlightOk, Publishes
  <2>3. CASE ~new  BY <1>2, <2>3, OutStutters
  <2>4. CASE new
    <3>1. taken' = [taken EXCEPT ![j] = @ + 1]  BY <1>2, <2>4
    <3>2. kind[j] = "qos2" => taken[j] = 0
      <4> SUFFICES ASSUME kind[j] = "qos2" PROVE taken[j] = 0  OBVIOUS
      <4>1. e.id \notin held  BY <2>1, <2>4
      <4> QED  BY <1>3, <2>1, <4>1 DEF Held, Live
    <3>0. j \in Jobs  BY <1>2
    <3> HIDE DEF j
    <3>3. TakenOf' = [TakenOf EXCEPT ![j] = @ + 1]
      BY <1>2, <1>6, <2>1, <3>1 DEF TakenOf
    <3>4. j \in Given \ Confirmed /\ (j \in Once => TakenOf[j] = 0)
      BY <1>2, <2>1, <2>2, <3>2 DEF Given, Confirmed, Once, TakenOf
    <3>5. PICK i \in Jobs : i = j  BY <3>0
    <3>6. Outgoing!Take(i)
      BY <1>4, <3>3, <3>4, <3>5 DEF Outgoing!Take, Given, Once, TakenOf, Confirmed
    <3> QED  BY <3>6 DEF OutStep, Outgoing!Next
  <2> QED  BY <2>3, <2>4
<1> QED  BY <1>7, <1>8

LEMMA OutHolds ==
  ASSUME Inv, IdsFit, Held, [Next]_vars
  PROVE  OutStep
<1>0. Lines /\ CallsOk /\ FlightOk /\ JobLines  BY DEF Inv
<1>1. CASE UNCHANGED <<kind, taken, told>>  BY <1>1, OutStutters
<1>2. CASE UNCHANGED vars  BY <1>1, <1>2 DEF vars
<1>3. ASSUME NEW j \in Jobs, PublishCall(j) \/ SubscribeCall(j) PROVE OutStep
  BY <1>3, OutForCalls
<1>4. ASSUME NEW j \in Jobs, TimesOut(j) PROVE OutStep
  <2>1. /\ UNCHANGED <<kind, taken>> /\ kind[j] \in Timed
        /\ told' = [i \in Jobs |-> IF told[i] = "pending" /\ i \in {j} THEN "failed" ELSE told[i]]
    BY <1>0, <1>4 DEF TimesOut, Settled, CallsOk
  <2>2. \A i \in Jobs : kind[i] \in {"qos1", "qos2"} => told'[i] = told[i]
    BY <2>1 DEF Timed
  <2> QED  BY <2>1, <2>2, OutStutters
<1>5. CASE Connack \/ Pubrec \/ Publish \/ Pubrel
  BY <1>1, <1>5 DEF Connack, Pubrec, Publish, Pubrel, Receives, callVars
<1>6. CASE Puback \/ Pubcomp  BY <1>6, OutForAcks
<1>7. CASE Suback
  <2>1. /\ conn = "up" /\ down # <<>> /\ Head(down).type \in {"SUBACK", "UNSUBACK"}
        /\ UNCHANGED <<kind, taken>>
    BY <1>7 DEF Suback, Receives, faultVars
  <2>2. Head(down).type \in Replies  BY <2>1, ReplyTypes
  <2>3. PICK e \in sent :
           /\ AnswerTo(kind[e.job], e, Head(down)) /\ Under(Head(down).id) = {e}
    BY <1>0, <2>1, <2>2, Finds
  <2>4. PICK answer \in {"done", "failed"} :
        told' = [j \in Jobs |-> IF told[j] = "pending" /\ j \in {d.job : d \in {e}}
                                THEN answer ELSE told[j]]
    BY <1>7, <2>3 DEF Suback, Settled
  <2>5. kind[e.job] \notin {"qos1", "qos2"}
    BY <2>1, <2>3 DEF AnswerTo, Subscribes, Unsubscribes
  <2>6. \A j \in Jobs : kind[j] \in {"qos1", "qos2"} => told'[j] = told[j]  BY <2>4, <2>5
  <2> QED  BY <2>1, <2>6, OutStutters
<1>8. CASE Connect \/ Drop  BY <1>1, <1>8 DEF Connect, Drop, callVars
<1>9. CASE Restart
  <2>1. /\ UNCHANGED <<kind, taken>>
        /\ told' = [j \in Jobs |-> IF told[j] = "pending" /\ kind[j] \notin Publishes
                                   THEN "lost" ELSE told[j]]
    BY <1>9 DEF Restart
  <2>2. \A j \in Jobs : kind[j] \in {"qos1", "qos2"} => told'[j] = told[j]
    BY <2>1 DEF Publishes
  <2> QED  BY <2>1, <2>2, OutStutters
<1>10. CASE ServePublish  BY <1>10, OutForServePublish
<1>11. CASE ServeConnect \/ ServePubrel \/ ServeSubscribe \/ ServePuback \/ ServePubrec
  BY <1>1, <1>11
    DEF ServeConnect, ServePubrel, ServeSubscribe, ServePuback, ServePubrec, Serves, callVars
<1>12. ASSUME NEW n \in Mails, ServerSends(n) PROVE OutStep
  BY <1>1, <1>12 DEF ServerSends, callVars
<1> QED  BY <1>2, <1>3, <1>4, <1>5, <1>6, <1>7, <1>8, <1>9, <1>10, <1>11, <1>12
         DEF Next, Handles, Answers

LEMMA HeldHolds == ASSUME Durable PROVE Spec /\ []IdsFit => []Held
<1>1. Init => Held  BY InitHolds
<1>2. Inv /\ IdsFit /\ Held /\ [Next]_vars => Held'  BY HeldKept
<1>3. Spec /\ []IdsFit => []Inv  BY InvariantHolds
<1> QED  BY <1>1, <1>2, <1>3, PTL DEF Spec

\* With a storage that survives the program, what is published with QoS 1 and 2 is
\* taken at least once, with QoS 2 exactly once, before it is reported delivered,
\* and never after (_requires_ack, the sending again after CONNACK, the handlers of
\* PUBACK, PUBREC and PUBCOMP, paho-mqtt.js:1192, 1305-1336, 1359-1402), whatever is
\* lost.
THEOREM OutgoingImplementsContract ==
  ASSUME Durable
  PROVE  Spec /\ []IdsFit => OutgoingContract
<1>1. Init => Outgoing!Init
  BY DEF Init, Outgoing!Init
<1>2. Inv /\ IdsFit /\ Held /\ [Next]_vars => [Outgoing!Next]_<<Given, Once, TakenOf, Confirmed>>
  BY OutHolds, OutSteps
<1>3. Spec /\ []IdsFit => []Inv  BY InvariantHolds
<1>4. Spec /\ []IdsFit => []Held  BY HeldHolds
<1> QED  BY <1>1, <1>2, <1>3, <1>4, PTL
         DEF Spec, OutgoingContract, Outgoing!Spec, Given, Once, TakenOf, Confirmed

-----------------------------------------------------------------------------
(* What the client has received and keeps.                                   *)

LEMMA KeptSame ==
  ASSUME Kept, UNCHANGED <<mail, arrived, received, clean, conn>>, conn = "up",
         \A p \in Elems(up') : p \in Elems(up) \/ p.type \notin {"PUBACK", "PUBREC", "PUBCOMP"}
  PROVE  Kept'
BY DEF Kept, Live, InFlight

LEMMA KeptWhenClosed ==
  ASSUME Kept, conn' \in {"down", "opening"}, down' = <<>>,
         UNCHANGED <<mail, arrived, received, clean>>,
         \A p \in Elems(up') : p.type \notin {"PUBACK", "PUBREC", "PUBCOMP"}
  PROVE  Kept'
BY DEF Kept, Live, InFlight

\* The message under an identifier of the server.
LEMMA KeptUnder ==
  ASSUME Inv, Kept, Live, NEW r \in received, NEW n \in Mails, InFlight(n)
  PROVE  /\ r.job \in Mails /\ r.id \in Mails
         /\ r.id = mail[n].id <=> r.job = n
<1>1. MailsOk  BY DEF Inv
<1>2. r.job \in Mails /\ r.id \in Mails  BY <1>1 DEF MailsOk, Arrival
<1>3. InFlight(r.job) /\ r.id = mail[r.job].id  BY DEF Kept
<1>4. r.id = mail[n].id => r.job = n  BY <1>1, <1>2, <1>3 DEF MailsOk
<1> QED  BY <1>2, <1>3, <1>4

LEMMA PublishEffect ==
  ASSUME Inv, Publish, NEW h, h = Head(down)
  PROVE  /\ conn = "up" /\ UNCHANGED <<conn, mail, clean>>
         /\ h.job \in Mails /\ h.id = mail[h.job].id /\ mail[h.job].qos \in 0..2
         /\ mail[h.job].qos = 0 => mail[h.job].stage = "done"
         /\ mail[h.job].qos > 0 => mail[h.job].stage = "sent"
         /\ arrived' = IF mail[h.job].qos = 2 THEN arrived
                       ELSE [arrived EXCEPT ![h.job] = @ + 1]
         /\ received' = IF mail[h.job].qos = 2
                        THEN {r \in received : r.id # h.id} \cup {[id |-> h.id, job |-> h.job]}
                        ELSE received
         /\ \A p \in Elems(up') : \/ p \in Elems(up)
                                  \/ p.type = "PUBACK" /\ p.job = h.job /\ mail[h.job].qos = 1
                                  \/ p.type = "PUBREC" /\ p.job = h.job /\ mail[h.job].qos = 2
<1> DEFINE a == CASE mail[h.job].qos = 0 -> <<>>
                  [] mail[h.job].qos = 1 -> <<Packet("PUBACK", h.id, h.job)>>
                  [] mail[h.job].qos = 2 -> <<Packet("PUBREC", h.id, h.job)>>
<1>1. Lines /\ MailsOk  BY DEF Inv
<1>2. /\ conn = "up" /\ down # <<>> /\ h.type = "PUBLISH" /\ up' = up \o a
      /\ UNCHANGED <<conn, mail, clean>>
      /\ arrived' = IF mail[h.job].qos = 2 THEN arrived
                    ELSE [arrived EXCEPT ![h.job] = @ + 1]
      /\ received' = IF mail[h.job].qos = 2
                     THEN {r \in received : r.id # h.id} \cup {[id |-> h.id, job |-> h.job]}
                     ELSE received
  BY DEF Publish, Receives, serverVars, faultVars
<1>3. h.type \in Requests  BY <1>2 DEF Requests
<1>4. /\ h.job \in Mails /\ MailAsks(mail[h.job], h) /\ h.id = mail[h.job].id
      /\ h.job \in Nat /\ h.id \in Nat
  BY <1>2, <1>3, MailHead
<1>5. /\ mail[h.job].qos \in 0..2
      /\ mail[h.job].stage = "sent" => mail[h.job].qos \in {1, 2}
  BY <1>1, <1>4 DEF MailsOk
<1>6. /\ mail[h.job].qos = 0 => mail[h.job].stage = "done"
      /\ mail[h.job].qos > 0 => mail[h.job].stage = "sent"
  <2>1. h.type = "PUBLISH" /\ MailAsks(mail[h.job], h)  BY <1>2, <1>4
  <2>2. \/ mail[h.job].stage = "sent"
        \/ mail[h.job].stage = "done" /\ mail[h.job].qos = 0
    BY <2>1 DEF MailAsks
  <2> QED  BY <1>5, <2>2
<1>7. ASSUME NEW t \in {"PUBACK", "PUBREC"}, a = <<Packet(t, h.id, h.job)>>,
             NEW p \in Elems(up')
      PROVE  p \in Elems(up) \/ (p.type = t /\ p.job = h.job)
  <2> DEFINE x == Packet(t, h.id, h.job)
  <2>1. x \in Packets /\ x.type = t /\ x.job = h.job
    BY <1>4, PacketIn DEF PacketTypes
  <2> HIDE DEF x, a
  <2>2. <<x>> \in Seq(Packets) /\ Elems(<<x>>) = {x}  BY <2>1, Short
  <2>3. a = <<x>>  BY <1>7 DEF x
  <2>4. Elems(up \o <<x>>) = Elems(up) \cup Elems(<<x>>)  BY <1>1, <2>2, Joined DEF Lines
  <2>5. Elems(up') = Elems(up) \cup {x}  BY <1>2, <2>2, <2>3, <2>4
  <2> QED  BY <1>7, <2>1, <2>5
<1>8. ASSUME NEW p \in Elems(up')
      PROVE  \/ p \in Elems(up)
             \/ p.type = "PUBACK" /\ p.job = h.job /\ mail[h.job].qos = 1
             \/ p.type = "PUBREC" /\ p.job = h.job /\ mail[h.job].qos = 2
  <2>1. CASE mail[h.job].qos = 0
    <3>1. a = <<>>  BY <2>1
    <3> HIDE DEF a
    <3>2. up' = up  BY <1>1, <1>2, <3>1, Short DEF Lines
    <3> QED  BY <1>8, <3>2
  <2>2. CASE mail[h.job].qos = 1
    <3>1. a = <<Packet("PUBACK", h.id, h.job)>>  BY <2>2
    <3> QED  BY <1>7, <1>8, <2>2, <3>1
  <2>3. CASE mail[h.job].qos = 2
    <3>1. a = <<Packet("PUBREC", h.id, h.job)>>  BY <2>3
    <3> QED  BY <1>7, <1>8, <2>3, <3>1
  <2> QED  BY <1>5, <2>1, <2>2, <2>3
<1> QED  BY <1>2, <1>4, <1>5, <1>6, <1>8

LEMMA KeptForPublish == ASSUME Inv, Kept, Publish PROVE Kept'
<1>1. PICK h : h = Head(down)  OBVIOUS
<1> DEFINE n == h.job
<1>2. /\ conn = "up" /\ UNCHANGED <<conn, mail, clean>>
      /\ n \in Mails /\ h.id = mail[n].id /\ mail[n].qos \in 0..2
      /\ mail[n].qos = 0 => mail[n].stage = "done"
      /\ mail[n].qos > 0 => mail[n].stage = "sent"
      /\ arrived' = IF mail[n].qos = 2 THEN arrived ELSE [arrived EXCEPT ![n] = @ + 1]
      /\ received' = IF mail[n].qos = 2
                     THEN {r \in received : r.id # h.id} \cup {[id |-> h.id, job |-> n]}
                     ELSE received
      /\ \A p \in Elems(up') : \/ p \in Elems(up)
                               \/ p.type = "PUBACK" /\ p.job = n /\ mail[n].qos = 1
                               \/ p.type = "PUBREC" /\ p.job = n /\ mail[n].qos = 2
  BY <1>1, PublishEffect
<1> HIDE DEF n
<1>3. Lines /\ MailsOk /\ MailLines /\ Live /\ Live'  BY <1>2 DEF Inv, Live
<1>4. arrived \in [Mails -> Nat]  BY <1>3 DEF MailsOk
<1>5. \A p \in Elems(up) : p.type \in {"PUBACK", "PUBREC", "PUBCOMP"} => p.job \in Mails
  BY <1>3 DEF MailLines, Replies
<1>6. \A r \in received : r.job \in Mails /\ r.id \in Mails  BY <1>3 DEF MailsOk, Arrival
<1>7. CASE mail[n].qos # 2
  <2>1. /\ arrived'[n] > 0 /\ \A m \in Mails : m # n => arrived'[m] = arrived[m]
        /\ \A m \in Mails : arrived[m] > 0 => arrived'[m] > 0
        /\ received' = received
    BY <1>2, <1>4, <1>7
  <2>2. \A m \in Mails : /\ mail[m].stage = "unsent" => arrived'[m] = 0
                         /\ mail[m].stage = "sent" /\ mail[m].qos = 2 => arrived'[m] = 0
    BY <1>2, <1>7, <2>1 DEF Kept
  <2>3. \A p \in Elems(up') : /\ p.type \in {"PUBACK", "PUBCOMP"} => arrived'[p.job] > 0
                              /\ p.type = "PUBREC" => \E r \in received : r.job = p.job
    BY <1>2, <1>5, <1>7, <2>1 DEF Kept
  <2>4. \A r \in received : /\ InFlight(r.job) /\ mail[r.job].qos = 2
                            /\ r.id = mail[r.job].id /\ arrived'[r.job] = 0
    BY <1>3, <1>6, <1>7, <2>1 DEF Kept
  <2>5. \A m \in Mails : mail[m].stage = "released" =>
                           arrived'[m] > 0 \/ \E r \in received : r.job = m
    BY <1>3, <2>1 DEF Kept
  <2> QED  BY <1>2, <2>1, <2>2, <2>3, <2>4, <2>5 DEF Kept, InFlight
<1>8. CASE mail[n].qos = 2
  <2> DEFINE kept == [id |-> h.id, job |-> n]
  <2>1. /\ arrived' = arrived /\ mail[n].stage = "sent" /\ InFlight(n)
        /\ received' = {r \in received : r.id # h.id} \cup {kept}
        /\ kept.id = mail[n].id /\ kept.job = n /\ arrived[n] = 0
    BY <1>2, <1>8 DEF InFlight, Kept
  <2> HIDE DEF kept
  <2>2. \A r \in received : \E s \in received' : s.job = r.job
    <3> SUFFICES ASSUME NEW r \in received PROVE \E s \in received' : s.job = r.job  OBVIOUS
    <3>1. CASE r.id # h.id  BY <2>1, <3>1
    <3>2. CASE r.id = h.id
      <4>1. r.job = n  BY <1>2, <1>3, <2>1, <3>2, KeptUnder
      <4> QED  BY <2>1, <4>1
    <3> QED  BY <3>1, <3>2
  <2>3. \A p \in Elems(up') : /\ p.type \in {"PUBACK", "PUBCOMP"} => arrived[p.job] > 0
                              /\ p.type = "PUBREC" => \E r \in received' : r.job = p.job
    BY <1>2, <1>8, <2>1, <2>2 DEF Kept
  <2>4. \A r \in received' : /\ InFlight(r.job) /\ mail[r.job].qos = 2
                             /\ r.id = mail[r.job].id /\ arrived[r.job] = 0
    BY <1>3, <1>8, <2>1 DEF Kept
  <2>5. \A m \in Mails : mail[m].stage = "released" =>
                           arrived[m] > 0 \/ \E r \in received' : r.job = m
    BY <1>3, <2>2 DEF Kept
  <2> QED  BY <1>2, <2>1, <2>3, <2>4, <2>5 DEF Kept, InFlight
<1> QED  BY <1>7, <1>8

LEMMA PubrelEffect ==
  ASSUME Inv, Pubrel, NEW h, h = Head(down)
  PROVE  /\ conn = "up" /\ UNCHANGED <<conn, mail, clean>>
         /\ h.job \in Mails /\ h.id = mail[h.job].id
         /\ mail[h.job].stage = "released" /\ mail[h.job].qos = 2
         /\ arrived' = [n \in Mails |->
                          IF \E r \in received : r.id = h.id /\ r.job = n THEN arrived[n] + 1
                          ELSE arrived[n]]
         /\ received' = {r \in received : r.id # h.id}
         /\ \A p \in Elems(up') : p \in Elems(up) \/ (p.type = "PUBCOMP" /\ p.job = h.job)
<1> DEFINE x == Packet("PUBCOMP", h.id, h.job)
<1>1. Lines /\ MailsOk  BY DEF Inv
<1>2. /\ conn = "up" /\ down # <<>> /\ h.type = "PUBREL" /\ up' = up \o <<x>>
      /\ UNCHANGED <<conn, mail, clean>>
      /\ arrived' = [n \in Mails |->
                       IF \E r \in received : r.id = h.id /\ r.job = n THEN arrived[n] + 1
                       ELSE arrived[n]]
      /\ received' = {r \in received : r.id # h.id}
  BY DEF Pubrel, Receives, serverVars, faultVars, Consumed
<1>3. h.type \in Requests  BY <1>2 DEF Requests
<1>4. /\ h.job \in Mails /\ MailAsks(mail[h.job], h) /\ h.id = mail[h.job].id
      /\ h.job \in Nat /\ h.id \in Nat
  BY <1>2, <1>3, MailHead
<1>5. x \in Packets /\ x.type = "PUBCOMP" /\ x.job = h.job
  BY <1>4, PacketIn DEF PacketTypes
<1> HIDE DEF x
<1>6. Elems(up') = Elems(up) \cup {x}
  <2>1. <<x>> \in Seq(Packets) /\ Elems(<<x>>) = {x}  BY <1>5, Short
  <2>2. Elems(up \o <<x>>) = Elems(up) \cup Elems(<<x>>)  BY <1>1, <2>1, Joined DEF Lines
  <2>3. up' = up \o <<x>>  BY <1>2
  <2> QED  BY <2>1, <2>2, <2>3
<1>7. mail[h.job].stage = "released"
  <2>1. h.type = "PUBREL"  BY <1>2
  <2> QED  BY <1>4, <2>1 DEF MailAsks
<1>8. mail[h.job].qos = 2  BY <1>1, <1>4, <1>7 DEF MailsOk
<1> QED  BY <1>2, <1>4, <1>5, <1>6, <1>7, <1>8

\* The messages that arrive with a PUBREL: the one it is about, if it is kept.
LEMMA ArrivesWith ==
  ASSUME Inv, Kept, Pubrel, NEW h, h = Head(down)
  PROVE  /\ \A r \in received : r.id = h.id <=> r.job = h.job
         /\ \A m \in Mails : m # h.job => arrived'[m] = arrived[m]
         /\ arrived'[h.job] = IF \E r \in received : r.job = h.job THEN arrived[h.job] + 1
                              ELSE arrived[h.job]
<1>1. /\ conn = "up" /\ h.job \in Mails /\ h.id = mail[h.job].id
      /\ mail[h.job].stage = "released"
      /\ arrived' = [n \in Mails |->
                       IF \E r \in received : r.id = h.id /\ r.job = n THEN arrived[n] + 1
                       ELSE arrived[n]]
  BY PubrelEffect
<1>2. Live /\ InFlight(h.job)  BY <1>1 DEF Live, InFlight
<1>3. \A r \in received : r.id = h.id <=> r.job = h.job  BY <1>1, <1>2, KeptUnder
<1> QED  BY <1>1, <1>3

LEMMA KeptForPubrel == ASSUME Inv, Kept, Pubrel PROVE Kept'
<1>1. PICK h : h = Head(down)  OBVIOUS
<1> DEFINE n == h.job
<1>2. /\ conn = "up" /\ UNCHANGED <<conn, mail, clean>>
      /\ n \in Mails /\ h.id = mail[n].id /\ mail[n].stage = "released" /\ mail[n].qos = 2
      /\ received' = {r \in received : r.id # h.id}
      /\ \A p \in Elems(up') : p \in Elems(up) \/ (p.type = "PUBCOMP" /\ p.job = n)
  BY <1>1, PubrelEffect
<1>3. /\ \A r \in received : r.id = h.id <=> r.job = n
      /\ \A m \in Mails : m # n => arrived'[m] = arrived[m]
      /\ arrived'[n] = IF \E r \in received : r.job = n THEN arrived[n] + 1 ELSE arrived[n]
  BY <1>1, ArrivesWith
<1> HIDE DEF n
<1>4. Lines /\ MailsOk /\ MailLines /\ Live /\ Live'  BY <1>2 DEF Inv, Live
<1>5. arrived \in [Mails -> Nat]  BY <1>4 DEF MailsOk
<1>6. arrived'[n] > 0
  <2>1. arrived[n] > 0 \/ \E r \in received : r.job = n  BY <1>2, <1>4 DEF Kept
  <2>2. arrived[n] \in Nat  BY <1>2, <1>5
  <2> QED  BY <1>3, <2>1, <2>2
<1>7. \A m \in Mails : arrived[m] > 0 => arrived'[m] > 0  BY <1>3, <1>6
<1>8. \A r \in received : r.job # n => r \in received'  BY <1>2, <1>3
<1>9. \A p \in Elems(up) : p.type \in {"PUBACK", "PUBREC", "PUBCOMP"} =>
        p.job \in Mails /\ MailAnswer(mail[p.job], p)
  BY <1>4 DEF MailLines, Replies
<1>10. \A m \in Mails : /\ mail[m].stage = "unsent" => arrived'[m] = 0
                        /\ mail[m].stage = "sent" /\ mail[m].qos = 2 => arrived'[m] = 0
  BY <1>2, <1>3 DEF Kept
<1>11. ASSUME NEW p \in Elems(up')
       PROVE  /\ p.type \in {"PUBACK", "PUBCOMP"} => arrived'[p.job] > 0
              /\ p.type = "PUBREC" => \E r \in received' : r.job = p.job
  <2>1. CASE p.type \in {"PUBACK", "PUBCOMP"}
    <3>1. CASE p \in Elems(up)  BY <1>7, <1>9, <2>1, <3>1 DEF Kept
    <3>2. CASE p \notin Elems(up)  BY <1>2, <1>6, <1>11, <3>2
    <3> QED  BY <2>1, <3>1, <3>2
  <2>2. CASE p.type = "PUBREC"
    <3>1. p \in Elems(up)  BY <1>2, <1>11, <2>2
    <3>2. MailAnswer(mail[p.job], p)  BY <1>9, <2>2, <3>1
    <3>3. mail[p.job].stage = "sent"  BY <2>2, <3>2 DEF MailAnswer
    <3>4. p.job # n  BY <1>2, <3>3
    <3>5. PICK r \in received : r.job = p.job  BY <2>2, <3>1 DEF Kept
    <3> QED  BY <1>8, <2>2, <3>4, <3>5
  <2> QED  BY <2>1, <2>2
<1>12. ASSUME NEW r \in received'
       PROVE  /\ InFlight(r.job) /\ mail[r.job].qos = 2
              /\ r.id = mail[r.job].id /\ arrived'[r.job] = 0
  <2>1. r \in received /\ r.job # n  BY <1>2, <1>3, <1>12
  <2>2. r.job \in Mails  BY <1>4, <2>1 DEF MailsOk, Arrival
  <2> QED  BY <1>3, <1>4, <2>1, <2>2 DEF Kept
<1>13. ASSUME NEW m \in Mails, mail[m].stage = "released"
       PROVE  arrived'[m] > 0 \/ \E r \in received' : r.job = m
  <2>1. CASE m = n  BY <1>6, <2>1
  <2>2. CASE m # n  BY <1>3, <1>4, <1>8, <1>13, <2>2 DEF Kept
  <2> QED  BY <2>1, <2>2
<1> QED  BY <1>2, <1>10, <1>11, <1>12, <1>13 DEF Kept, InFlight

LEMMA KeptForServePuback == ASSUME Inv, Kept, ServePuback PROVE Kept'
<1>1. PICK n : n = Head(up).job  OBVIOUS
<1>2. /\ up # <<>> /\ Head(up) \in Elems(up) /\ Head(up).type \in {"PUBACK", "PUBCOMP"}
      /\ \A p \in Elems(up') : p \in Elems(up)
      /\ n \in Mails /\ mail' = [mail EXCEPT ![n].stage = "done"]
      /\ UNCHANGED <<conn, clientVars, arrived, clean>>
  BY <1>1, ServePubackKeeps
<1>3. Lines /\ MailsOk  BY DEF Inv
<1>4. conn = "up" /\ received' = received
  <2>1. Head(up).type \in Replies  BY <1>2 DEF Replies
  <2> QED  BY <1>2, <1>3, <2>1, ServerHead DEF clientVars
<1>5. arrived[n] > 0  BY <1>1, <1>2 DEF Kept
<1>6. Live /\ Live'  BY <1>2, <1>4 DEF Live
<1>7. /\ mail'[n].stage = "done"
      /\ \A m \in Mails : m # n => mail'[m] = mail[m]
  BY <1>2, <1>3 DEF MailsOk
<1>8. \A r \in received : r.job \in Mails /\ r.job # n
  BY <1>3, <1>5, <1>6 DEF Kept, MailsOk, Arrival
<1>9. \A r \in received : mail'[r.job] = mail[r.job]  BY <1>7, <1>8
<1>10. \A r \in received : /\ InFlight(r.job)' /\ mail'[r.job].qos = 2
                           /\ r.id = mail'[r.job].id /\ arrived[r.job] = 0
  BY <1>6, <1>9 DEF Kept, InFlight
<1>11. \A m \in Mails : mail'[m].stage = "released" =>
                          arrived[m] > 0 \/ \E r \in received : r.job = m
  BY <1>6, <1>7 DEF Kept
<1>12. \A m \in Mails : /\ mail'[m].stage = "unsent" => arrived[m] = 0
                        /\ mail'[m].stage = "sent" /\ mail'[m].qos = 2 => arrived[m] = 0
  BY <1>7 DEF Kept
<1> QED  BY <1>2, <1>4, <1>10, <1>11, <1>12 DEF Kept, InFlight

LEMMA KeptForServePubrec == ASSUME Inv, Kept, ServePubrec PROVE Kept'
<1>1. PICK n : n = Head(up).job  OBVIOUS
<1>2. /\ up # <<>> /\ Head(up) \in Elems(up) /\ Head(up).type = "PUBREC"
      /\ \A p \in Elems(up') : p \in Elems(up)
      /\ n \in Mails /\ mail' = [mail EXCEPT ![n].stage = "released"]
      /\ UNCHANGED <<conn, clientVars, arrived, clean>>
  BY <1>1, ServePubrecKeeps
<1>3. Lines /\ MailsOk  BY DEF Inv
<1>4. conn = "up" /\ received' = received
  <2>1. Head(up).type \in Replies  BY <1>2 DEF Replies
  <2> QED  BY <1>2, <1>3, <2>1, ServerHead DEF clientVars
<1>5. PICK s \in received : s.job = n  BY <1>1, <1>2 DEF Kept
<1>6. Live /\ Live'  BY <1>2, <1>4 DEF Live
<1>7. /\ mail'[n].stage = "released" /\ mail'[n].id = mail[n].id /\ mail'[n].qos = mail[n].qos
      /\ \A m \in Mails : m # n => mail'[m] = mail[m]
  BY <1>2, <1>3 DEF MailsOk
<1>8. \A r \in received : r.job \in Mails  BY <1>3 DEF MailsOk, Arrival
<1>9. ASSUME NEW r \in received
      PROVE  /\ InFlight(r.job)' /\ mail'[r.job].qos = 2
             /\ r.id = mail'[r.job].id /\ arrived[r.job] = 0
  <2>1. /\ InFlight(r.job) /\ mail[r.job].qos = 2
        /\ r.id = mail[r.job].id /\ arrived[r.job] = 0
    BY <1>6 DEF Kept
  <2>2. CASE r.job = n  BY <1>7, <2>1, <2>2 DEF InFlight
  <2>3. CASE r.job # n  BY <1>7, <1>8, <2>1, <2>3 DEF InFlight
  <2> QED  BY <2>2, <2>3
<1>10. \A m \in Mails : mail'[m].stage = "released" =>
                          arrived[m] > 0 \/ \E r \in received : r.job = m
  BY <1>5, <1>6, <1>7 DEF Kept
<1>11. \A m \in Mails : /\ mail'[m].stage = "unsent" => arrived[m] = 0
                        /\ mail'[m].stage = "sent" /\ mail'[m].qos = 2 => arrived[m] = 0
  BY <1>7 DEF Kept
<1> QED  BY <1>2, <1>4, <1>9, <1>10, <1>11 DEF Kept, InFlight

LEMMA KeptForServerSends ==
  ASSUME Inv, Kept, NEW n \in Mails, ServerSends(n)
  PROVE  Kept'
<1>1. /\ conn = "up" /\ mail[n].stage = "unsent"
      /\ mail'[n].stage = (IF mail'[n].qos = 0 THEN "done" ELSE "sent")
      /\ \A m \in Mails : m # n => mail'[m] = mail[m]
      /\ UNCHANGED <<conn, clientVars, up, arrived, clean>>
  BY ServerSendsKeeps
<1>2. MailsOk /\ received' = received  BY <1>1 DEF Inv, clientVars
<1>3. Live /\ Live'  BY <1>1 DEF Live
<1>4. arrived[n] = 0  BY <1>1 DEF Kept
<1>5. \A r \in received : r.job \in Mails /\ r.job # n
  BY <1>1, <1>2, <1>3 DEF Kept, MailsOk, Arrival, InFlight
<1>6. \A r \in received : mail'[r.job] = mail[r.job]  BY <1>1, <1>5
<1>7. \A r \in received : /\ InFlight(r.job)' /\ mail'[r.job].qos = 2
                          /\ r.id = mail'[r.job].id /\ arrived[r.job] = 0
  BY <1>3, <1>6 DEF Kept, InFlight
<1>8. \A m \in Mails : mail'[m].stage = "released" =>
                         arrived[m] > 0 \/ \E r \in received : r.job = m
  BY <1>1, <1>3 DEF Kept
<1>9. \A m \in Mails : /\ mail'[m].stage = "unsent" => arrived[m] = 0
                       /\ mail'[m].stage = "sent" /\ mail'[m].qos = 2 => arrived[m] = 0
  BY <1>1, <1>4 DEF Kept
<1> QED  BY <1>1, <1>2, <1>7, <1>8, <1>9 DEF Kept, InFlight

LEMMA KeptKept ==
  ASSUME Durable, Inv, IdsFit, Kept, [Next]_vars
  PROVE  Kept'
<1>0. Lines /\ CallsOk /\ FlightOk /\ MailsOk  BY DEF Inv
<1>1. CASE UNCHANGED vars  BY <1>1 DEF vars, Kept, Live, InFlight
<1>2. ASSUME NEW j \in Jobs, PublishCall(j) \/ SubscribeCall(j) PROVE Kept'
  <2>1. /\ conn = "up" /\ UNCHANGED <<conn, clean, mail, arrived, received>>
        /\ \A p \in Elems(up') : p \in Elems(up) \/ p.type \in Requests
    BY <1>2, CallEffect
  <2>2. \A p \in Elems(up') : p \in Elems(up) \/ p.type \notin {"PUBACK", "PUBREC", "PUBCOMP"}
    BY <2>1 DEF Requests
  <2> QED  BY <2>1, <2>2, KeptSame
<1>3. ASSUME NEW j \in Jobs, TimesOut(j) PROVE Kept'
  BY <1>3 DEF TimesOut, serverVars, faultVars, Kept, Live, InFlight
<1>4. CASE Connack
  <2>1. /\ conn = "opening" /\ conn' = "up" /\ down # <<>>
        /\ \A p \in Elems(up') : p.type \in Requests
        /\ received' = (IF clean THEN {} ELSE received)
        /\ UNCHANGED <<mail, arrived, clean>>
    BY <1>4, ConnackKeeps
  <2>2. \A p \in Elems(up') : p.type \notin {"PUBACK", "PUBREC", "PUBCOMP"}
    BY <2>1 DEF Requests
  <2>3. CASE clean
    <3>1. \A n \in Mails : mail[n].stage # "released"  BY <2>1, <2>3 DEF Kept, InFlight
    <3>2. received' = {}  BY <2>1, <2>3
    <3> QED  BY <2>1, <2>2, <3>1, <3>2 DEF Kept, Live, InFlight
  <2>4. CASE ~clean
    <3>1. received' = received  BY <2>1, <2>4
    <3> QED  BY <2>1, <2>2, <2>4, <3>1 DEF Kept, Live, InFlight
  <2> QED  BY <2>3, <2>4
<1>5. CASE Puback \/ Pubcomp \/ Suback
  <2>1. /\ conn = "up" /\ down # <<>>
        /\ Head(down).type \in {"PUBACK", "PUBCOMP", "SUBACK", "UNSUBACK"}
        /\ UNCHANGED <<mail, arrived, received, clean>>
    BY <1>5 DEF Puback, Pubcomp, Suback, Receives, Completes, serverVars, faultVars
  <2>2. Head(down).type \in Replies  BY <2>1, ReplyTypes
  <2>3. Under(Head(down).id) # {}  BY <1>0, <2>1, <2>2, Finds DEF Inv
  <2>4. conn' = conn /\ (up' = up \/ up' = up \o <<>>)
    BY <1>5, <2>3 DEF Puback, Pubcomp, Suback, Receives
  <2>5. up' = up  BY <1>0, <2>4, Short DEF Lines
  <2> QED  BY <2>1, <2>4, <2>5, KeptSame
<1>6. CASE Pubrec
  <2>1. /\ conn = "up" /\ UNCHANGED <<conn, mail, clean, received, arrived>>
        /\ \E e \in sent : up' = up \o <<Packet("PUBREL", e.id, e.job)>>
    BY <1>6, PubrecEffect
  <2>2. PICK e \in sent : up' = up \o <<Packet("PUBREL", e.id, e.job)>>  BY <2>1
  <2> DEFINE x == Packet("PUBREL", e.id, e.job)
  <2>3. e.id \in Nat /\ e.job \in Nat  BY <1>0, DeliveryAssumption DEF FlightOk, Entry, Ids, Jobs
  <2>4. x \in Packets /\ x.type = "PUBREL"  BY <2>3, PacketIn DEF PacketTypes
  <2>5. up' = up \o <<x>>  BY <2>2
  <2> HIDE DEF x
  <2>6. <<x>> \in Seq(Packets) /\ Elems(<<x>>) = {x}  BY <2>4, Short
  <2>7. Elems(up \o <<x>>) = Elems(up) \cup Elems(<<x>>)  BY <1>0, <2>6, Joined DEF Lines
  <2>8. \A p \in Elems(up') : p \in Elems(up) \/ p.type \notin {"PUBACK", "PUBREC", "PUBCOMP"}
    BY <2>4, <2>5, <2>6, <2>7
  <2> QED  BY <2>1, <2>8, KeptSame
<1>7. CASE Publish  BY <1>7, KeptForPublish
<1>8. CASE Pubrel  BY <1>8, KeptForPubrel
<1>9. CASE Connect
  <2> DEFINE x == Packet("CONNECT", 0, 0)
  <2>1. /\ conn' = "opening" /\ up' = <<x>> /\ down' = <<>>
        /\ UNCHANGED <<mail, arrived, received, clean>>
    BY <1>0, <1>9, NothingWhenDown DEF Connect, clientVars, serverVars, faultVars
  <2>2. x \in Packets /\ x.type = "CONNECT"  BY PacketIn DEF PacketTypes
  <2> HIDE DEF x
  <2>3. Elems(up') = {x}  BY <2>1, <2>2, Short
  <2> QED  BY <2>1, <2>2, <2>3, KeptWhenClosed
<1>10. CASE Drop \/ Restart
  <2>1. /\ conn' = "down" /\ up' = <<>> /\ down' = <<>>
        /\ UNCHANGED <<mail, arrived, received, clean>>
    <3>1. CASE Drop  BY <3>1 DEF Drop, clientVars, serverVars
    <3>2. CASE Restart
      <4>1. received' = savedIn  BY <3>2 DEF Restart
      <4>2. received' = received  BY <1>0, <4>1 DEF MailsOk
      <4> QED  BY <3>2, <4>2 DEF Restart, serverVars
    <3> QED  BY <1>10, <3>1, <3>2
  <2>2. Elems(up') = {}  BY <2>1, Short
  <2> QED  BY <2>1, <2>2, KeptWhenClosed
<1>11. CASE ServeConnect
  <2>1. /\ conn = "opening" /\ conn' = conn /\ clean' = clean
        /\ UNCHANGED <<clientVars, arrived>> /\ Elems(up') = {}
        /\ mail' = [n \in Mails |-> IF clean /\ InFlight(n)
                                    THEN [mail[n] EXCEPT !.stage = "lost"] ELSE mail[n]]
    BY <1>11, ServeConnectKeeps
  <2>2. received' = received  BY <2>1 DEF clientVars
  <2>3. CASE clean
    <3>1. \A n \in Mails : /\ InFlight(n) => mail'[n].stage = "lost"
                           /\ ~InFlight(n) => mail'[n] = mail[n]
      BY <1>0, <2>1, <2>3 DEF MailsOk
    <3>2. \A n \in Mails : ~InFlight(n)'  BY <3>1 DEF InFlight
    <3>3. \A n \in Mails : mail'[n].stage = "unsent" => arrived[n] = 0
      BY <3>1 DEF Kept
    <3> QED  BY <2>1, <2>2, <2>3, <3>2, <3>3 DEF Kept, Live, InFlight
  <2>4. CASE ~clean
    <3>1. mail' = mail  BY <1>0, <2>1, <2>4 DEF MailsOk
    <3> QED  BY <2>1, <2>2, <2>4, <3>1 DEF Kept, Live, InFlight
  <2> QED  BY <2>3, <2>4
<1>12. CASE ServePublish \/ ServePubrel \/ ServeSubscribe
  <2>1. /\ UNCHANGED <<conn, clean, clientVars, mail, arrived>> /\ up # <<>> /\ up' = Tail(up)
        /\ Head(up).type \in Requests
    BY <1>12 DEF ServePublish, ServePubrel, ServeSubscribe, Serves, serverVars, faultVars, Requests
  <2>2. conn = "up"  BY <1>0, <2>1, ServerHead
  <2>3. \A p \in Elems(up') : p \in Elems(up)  BY <1>0, <2>1, HeadOff DEF Lines, OneWay
  <2> QED  BY <2>1, <2>2, <2>3, KeptSame DEF clientVars
<1>13. CASE ServePuback  BY <1>13, KeptForServePuback
<1>14. CASE ServePubrec  BY <1>14, KeptForServePubrec
<1>15. ASSUME NEW n \in Mails, ServerSends(n) PROVE Kept'  BY <1>15, KeptForServerSends
<1> QED  BY <1>1, <1>2, <1>3, <1>4, <1>5, <1>6, <1>7, <1>8, <1>9, <1>10, <1>11, <1>12, <1>13,
            <1>14, <1>15 DEF Next, Handles, Answers

LEMMA KeptHolds == ASSUME Durable PROVE Spec /\ []IdsFit => []Kept
<1>1. Init => Kept  BY InitHolds
<1>2. Inv /\ IdsFit /\ Kept /\ [Next]_vars => Kept'  BY KeptKept
<1>3. Spec /\ []IdsFit => []Inv  BY InvariantHolds
<1> QED  BY <1>1, <1>2, <1>3, PTL DEF Spec

-----------------------------------------------------------------------------
(* What the server sends is received as the contract says.                   *)

MailsGiven     == {n \in Mails : mail[n].qos > 0}
MailsOnce      == {n \in Mails : mail[n].qos = 2}
MailsTaken     == [n \in Mails |-> IF mail[n].qos > 0 THEN arrived[n] ELSE 0]
MailsConfirmed == {n \in Mails : mail[n].qos > 0 /\ mail[n].stage = "done"}

InStep == Incoming!Next \/ UNCHANGED <<MailsGiven, MailsOnce, MailsTaken, MailsConfirmed>>

LEMMA InSteps ==
  InStep => [Incoming!Next]_<<MailsGiven, MailsOnce, MailsTaken, MailsConfirmed>>
BY DEF InStep

LEMMA InStutters == UNCHANGED <<mail, arrived>> => InStep
<1> SUFFICES ASSUME UNCHANGED <<mail, arrived>> PROVE InStep  OBVIOUS
<1>1. UNCHANGED <<MailsGiven, MailsOnce>>  BY DEF MailsGiven, MailsOnce
<1>2. UNCHANGED <<MailsTaken, MailsConfirmed>>  BY DEF MailsTaken, MailsConfirmed
<1> QED  BY <1>1, <1>2 DEF InStep

\* The stage of a message changes.
LEMMA StageMoves ==
  ASSUME NEW n \in Mails, arrived' = arrived,
         \A m \in Mails : mail'[m].qos = mail[m].qos,
         \A m \in Mails : m # n => mail'[m].stage = mail[m].stage
  PROVE  /\ UNCHANGED <<MailsGiven, MailsOnce, MailsTaken>>
         /\ MailsConfirmed' \ {n} = MailsConfirmed \ {n}
BY DEF MailsGiven, MailsOnce, MailsTaken, MailsConfirmed

LEMMA InForServerSends ==
  ASSUME Inv, Kept, NEW n \in Mails, ServerSends(n)
  PROVE  InStep
<1>1. /\ Inv' /\ mail[n].stage = "unsent" /\ arrived' = arrived
      /\ mail'[n].stage = (IF mail'[n].qos = 0 THEN "done" ELSE "sent")
      /\ \A m \in Mails : m # n => mail'[m] = mail[m]
  BY ServerSendsKeeps
<1>2. mail[n].qos = 0 /\ mail'[n].qos \in 0..2  BY <1>1 DEF Inv, MailsOk
<1>3. arrived[n] = 0  BY <1>1 DEF Kept
<1>4. MailsTaken' = MailsTaken
  <2>1. \A m \in Mails : (IF mail'[m].qos > 0 THEN arrived[m] ELSE 0)
                           = (IF mail[m].qos > 0 THEN arrived[m] ELSE 0)
    BY <1>1, <1>3, <1>2
  <2> QED  BY <1>1, <2>1 DEF MailsTaken
<1>5. MailsConfirmed' = MailsConfirmed  BY <1>1, <1>2 DEF MailsConfirmed
<1>6. CASE mail'[n].qos = 0
  <2>1. \A m \in Mails : mail'[m].qos = mail[m].qos  BY <1>1, <1>2, <1>6
  <2>2. UNCHANGED <<MailsGiven, MailsOnce>>  BY <2>1 DEF MailsGiven, MailsOnce
  <2> QED  BY <1>4, <1>5, <2>2 DEF InStep
<1>7. CASE mail'[n].qos # 0
  <2>1. MailsGiven' = MailsGiven \cup {n} /\ n \notin MailsGiven
    BY <1>1, <1>2, <1>7 DEF MailsGiven
  <2>2. MailsOnce' \in {MailsOnce, MailsOnce \cup {n}}
    <3>1. CASE mail'[n].qos = 2
      <4>1. MailsOnce' = MailsOnce \cup {n}  BY <1>1, <3>1 DEF MailsOnce
      <4> QED  BY <4>1
    <3>2. CASE mail'[n].qos # 2
      <4>1. MailsOnce' = MailsOnce  BY <1>1, <1>2, <3>2 DEF MailsOnce
      <4> QED  BY <4>1
    <3> QED  BY <3>1, <3>2
  <2>3. Incoming!Give(n)
    BY <1>4, <1>5, <2>1, <2>2
      DEF Incoming!Give, MailsGiven, MailsOnce, MailsTaken, MailsConfirmed
  <2> QED  BY <2>3 DEF InStep, Incoming!Next
<1> QED  BY <1>6, <1>7

\* onMessageArrived is called for a message with an acknowledgement.
LEMMA InTakes ==
  ASSUME MailsOk, NEW n \in Mails, mail' = mail, mail[n].stage \in {"sent", "released"},
         mail[n].qos = 2 => arrived[n] = 0,
         arrived'[n] = arrived[n] + 1, \A m \in Mails : m # n => arrived'[m] = arrived[m]
  PROVE  InStep
<1>1. mail[n].qos > 0 /\ InFlight(n)  BY DEF MailsOk, InFlight
<1>2. UNCHANGED <<MailsGiven, MailsOnce>>  BY DEF MailsGiven, MailsOnce
<1>3. UNCHANGED MailsConfirmed  BY DEF MailsConfirmed
<1>4. MailsTaken' = [MailsTaken EXCEPT ![n] = @ + 1]  BY <1>1 DEF MailsTaken
<1>5. n \in MailsGiven \ MailsConfirmed  BY <1>1 DEF MailsGiven, MailsConfirmed
<1>6. n \in MailsOnce => MailsTaken[n] = 0  BY <1>1 DEF MailsOnce, MailsTaken
<1>7. Incoming!Take(n)
  BY <1>2, <1>3, <1>4, <1>5, <1>6
    DEF Incoming!Take, MailsGiven, MailsOnce, MailsTaken, MailsConfirmed
<1> QED  BY <1>7 DEF InStep, Incoming!Next

LEMMA InForPublish == ASSUME Inv, Kept, Publish PROVE InStep
<1>1. MailsOk  BY DEF Inv
<1>2. PICK h : h = Head(down)  OBVIOUS
<1>3. PICK n \in Mails :
        /\ mail' = mail /\ mail[n].qos \in 0..2
        /\ mail[n].qos > 0 => mail[n].stage = "sent"
        /\ arrived' = IF mail[n].qos = 2 THEN arrived ELSE [arrived EXCEPT ![n] = @ + 1]
  BY <1>2, PublishEffect
<1>4. CASE mail[n].qos = 0
  <2>1. \A m \in Mails : mail[m].qos > 0 => arrived'[m] = arrived[m]
    BY <1>1, <1>3, <1>4 DEF MailsOk
  <2>2. UNCHANGED <<MailsGiven, MailsOnce>>  BY <1>3 DEF MailsGiven, MailsOnce
  <2>3. UNCHANGED MailsConfirmed  BY <1>3 DEF MailsConfirmed
  <2>4. UNCHANGED MailsTaken  BY <1>3, <2>1 DEF MailsTaken
  <2> QED  BY <2>2, <2>3, <2>4 DEF InStep
<1>5. CASE mail[n].qos = 1
  <2>1. /\ arrived'[n] = arrived[n] + 1
        /\ \A m \in Mails : m # n => arrived'[m] = arrived[m]
    BY <1>1, <1>3, <1>5 DEF MailsOk
  <2> QED  BY <1>1, <1>3, <1>5, <2>1, InTakes
<1>6. CASE mail[n].qos = 2  BY <1>3, <1>6, InStutters
<1> QED  BY <1>3, <1>4, <1>5, <1>6

LEMMA InForPubrel == ASSUME Inv, Kept, Pubrel PROVE InStep
<1>1. MailsOk  BY DEF Inv
<1>2. PICK h : h = Head(down)  OBVIOUS
<1>3. /\ conn = "up" /\ mail' = mail /\ h.job \in Mails /\ mail[h.job].stage = "released"
      /\ arrived' = [n \in Mails |->
                       IF \E r \in received : r.id = h.id /\ r.job = n THEN arrived[n] + 1
                       ELSE arrived[n]]
  BY <1>2, PubrelEffect
<1>4. PICK n \in Mails : n = h.job  BY <1>3
<1>5. /\ \A m \in Mails : m # n => arrived'[m] = arrived[m]
      /\ arrived'[n] = IF \E r \in received : r.job = n THEN arrived[n] + 1 ELSE arrived[n]
  BY <1>2, <1>4, ArrivesWith
<1>6. CASE \E r \in received : r.job = n
  <2>1. arrived[n] = 0  BY <1>3, <1>6 DEF Kept, Live
  <2> QED  BY <1>1, <1>3, <1>4, <1>5, <1>6, <2>1, InTakes
<1>7. CASE ~\E r \in received : r.job = n
  <2>1. arrived \in [Mails -> Nat]  BY <1>1 DEF MailsOk
  <2>2. \A m \in Mails : arrived'[m] = arrived[m]  BY <1>5, <1>7
  <2>3. arrived' = arrived  BY <1>3, <2>1, <2>2
  <2> QED  BY <1>3, <2>3, InStutters
<1> QED  BY <1>6, <1>7

LEMMA InHolds ==
  ASSUME Inv, Kept, [Next]_vars
  PROVE  InStep
<1>0. Lines /\ FlightOk /\ MailsOk  BY DEF Inv
<1>1. CASE UNCHANGED <<mail, arrived>>  BY <1>1, InStutters
<1>2. CASE UNCHANGED vars  BY <1>1, <1>2 DEF vars
<1>3. ASSUME NEW j \in Jobs, PublishCall(j) \/ SubscribeCall(j) \/ TimesOut(j) PROVE InStep
  BY <1>1, <1>3 DEF PublishCall, SubscribeCall, TimesOut, serverVars
<1>4. CASE Connack \/ Puback \/ Pubrec \/ Pubcomp \/ Suback
  BY <1>1, <1>4 DEF Connack, Puback, Pubrec, Pubcomp, Suback, Receives, Completes, serverVars
<1>5. CASE Publish  BY <1>5, InForPublish
<1>6. CASE Pubrel  BY <1>6, InForPubrel
<1>7. CASE Connect \/ Drop \/ Restart
  BY <1>1, <1>7 DEF Connect, Drop, Restart, serverVars
<1>8. CASE ServePublish \/ ServePubrel \/ ServeSubscribe
  BY <1>1, <1>8 DEF ServePublish, ServePubrel, ServeSubscribe, Serves, serverVars
<1>9. CASE ServeConnect
  <2>1. /\ arrived' = arrived
        /\ mail' = [n \in Mails |-> IF clean /\ InFlight(n)
                                    THEN [mail[n] EXCEPT !.stage = "lost"] ELSE mail[n]]
    BY <1>9, ServeConnectKeeps
  <2>2. \A n \in Mails : /\ mail'[n].qos = mail[n].qos
                         /\ mail'[n].stage = "done" <=> mail[n].stage = "done"
    BY <1>0, <2>1 DEF MailsOk, InFlight
  <2>3. UNCHANGED <<MailsGiven, MailsOnce>>  BY <2>2 DEF MailsGiven, MailsOnce
  <2>4. UNCHANGED MailsConfirmed  BY <2>2 DEF MailsConfirmed
  <2>5. UNCHANGED MailsTaken  BY <2>1, <2>2 DEF MailsTaken
  <2> QED  BY <2>3, <2>4, <2>5 DEF InStep
<1>10. CASE ServePuback
  <2>1. PICK n \in Mails :
          /\ n = Head(up).job /\ mail' = [mail EXCEPT ![n].stage = "done"] /\ arrived' = arrived
          /\ up # <<>> /\ Head(up) \in Elems(up) /\ Head(up).type \in {"PUBACK", "PUBCOMP"}
          /\ MailAnswer(mail[n], Head(up))
    BY <1>10, ServePubackKeeps
  <2>2. arrived[n] > 0  BY <2>1 DEF Kept
  <2>3. mail[n].qos > 0  BY <1>0, <2>1 DEF MailAnswer, MailsOk
  <2>4. /\ \A m \in Mails : mail'[m].qos = mail[m].qos
        /\ \A m \in Mails : m # n => mail'[m].stage = mail[m].stage
        /\ mail'[n].stage = "done"
    BY <1>0, <2>1 DEF MailsOk
  <2>5. /\ UNCHANGED <<MailsGiven, MailsOnce, MailsTaken>>
        /\ MailsConfirmed' \ {n} = MailsConfirmed \ {n}
    BY <2>1, <2>4, StageMoves
  <2>6. n \in MailsConfirmed' /\ n \in MailsGiven /\ MailsTaken[n] > 0
    BY <2>2, <2>3, <2>4 DEF MailsConfirmed, MailsGiven, MailsTaken
  <2>7. MailsConfirmed' = MailsConfirmed \cup {n}  BY <2>5, <2>6
  <2>8. Incoming!Confirm(n)
    BY <2>5, <2>6, <2>7 DEF Incoming!Confirm, MailsGiven, MailsOnce, MailsTaken, MailsConfirmed
  <2> QED  BY <2>8 DEF InStep, Incoming!Next
<1>11. CASE ServePubrec
  <2>1. PICK n \in Mails :
          /\ n = Head(up).job /\ mail' = [mail EXCEPT ![n].stage = "released"]
          /\ arrived' = arrived /\ Head(up).type = "PUBREC" /\ MailAnswer(mail[n], Head(up))
    BY <1>11, ServePubrecKeeps
  <2>2. mail[n].stage = "sent"  BY <2>1 DEF MailAnswer
  <2>3. /\ \A m \in Mails : mail'[m].qos = mail[m].qos
        /\ \A m \in Mails : m # n => mail'[m].stage = mail[m].stage
        /\ mail'[n].stage = "released"
    BY <1>0, <2>1 DEF MailsOk
  <2>4. /\ UNCHANGED <<MailsGiven, MailsOnce, MailsTaken>>
        /\ MailsConfirmed' \ {n} = MailsConfirmed \ {n}
    BY <2>1, <2>3, StageMoves
  <2>5. n \notin MailsConfirmed /\ n \notin MailsConfirmed'  BY <2>2, <2>3 DEF MailsConfirmed
  <2> QED  BY <2>4, <2>5 DEF InStep
<1>12. ASSUME NEW n \in Mails, ServerSends(n) PROVE InStep  BY <1>12, InForServerSends
<1> QED  BY <1>2, <1>3, <1>4, <1>5, <1>6, <1>7, <1>8, <1>9, <1>10, <1>11, <1>12
         DEF Next, Handles, Answers

\* With a storage that survives the program, what the server sends with QoS 1 and 2
\* reaches onMessageArrived at least once, with QoS 2 exactly once, before it is
\* acknowledged and never after (_receivePublish and the handler of PUBREL,
\* paho-mqtt.js:1381-1394, 1483-1508), whatever is lost.
THEOREM IncomingImplementsContract ==
  ASSUME Durable
  PROVE  Spec /\ []IdsFit => IncomingContract
<1>1. Init => Incoming!Init
  <2> SUFFICES ASSUME Init PROVE Incoming!Init  OBVIOUS
  <2>1. mail = [n \in Mails |-> [qos |-> 0, id |-> n, stage |-> "unsent"]]  BY DEF Init
  <2>2. \A n \in Mails : mail[n].qos = 0  BY <2>1
  <2> QED  BY <2>2 DEF Incoming!Init
<1>2. Inv /\ Kept /\ [Next]_vars
        => [Incoming!Next]_<<MailsGiven, MailsOnce, MailsTaken, MailsConfirmed>>
  BY InHolds, InSteps
<1>3. Spec /\ []IdsFit => []Inv  BY InvariantHolds
<1>4. Spec /\ []IdsFit => []Kept  BY KeptHolds
<1> QED  BY <1>1, <1>2, <1>3, <1>4, PTL
         DEF Spec, IncomingContract, Incoming!Spec, MailsGiven, MailsOnce, MailsTaken,
             MailsConfirmed

\* Both contracts without a hypothesis on the identifiers, when there are no more
\* calls than identifiers.
THEOREM ContractsForFewCalls ==
  ASSUME Durable, MaxJobs <= MaxId
  PROVE  Spec => OutgoingContract /\ IncomingContract
<1>1. Init => Inv  BY InitHolds
<1>2. Inv /\ [Next]_vars => Inv'  BY InvKept, FewCallsFit
<1>3. Inv => IdsFit  BY FewCallsFit
<1>4. Spec => []IdsFit  BY <1>1, <1>2, <1>3, PTL DEF Spec
<1> QED  BY <1>4, OutgoingImplementsContract, IncomingImplementsContract, PTL

-----------------------------------------------------------------------------
(* The connection, MqttConnection.                                          *)

\* Its steps.
Conn == INSTANCE MqttConnection

\* What MqttConnection assumes of its constants.
Instance == Conn!ConnectionAssumption

\* What the client says of itself is so; w is whether the application wants a connection.
Sound(c, w) ==
  /\ c.connected => c.state = "connected" /\ c.promise # "pending" /\ ~c.reconnecting
  /\ c.state = "connected" /\ ~c.connected => ~w
  /\ c.notify => ~w /\ c.state # "disconnected"

\* A timer ends what goes on.
Ticking(c) ==
  c.promise = "pending" \/ c.reconnecting =>
    c.connectTimer = "armed" \/ c.retry = "armed" \/ c.orphans > 0

\* A connection is the end of the search for a host.
Placed(c) == c.connected => c.hostIndex = Hosts

\* What a handler never takes from the client.
SameStory(c, d) ==
  d.state = c.state /\ d.promise = c.promise /\ d.queued = c.queued /\ d.notify = c.notify

\* The types of the fields, for the provers: what they hold is rarely looked at.
States   == {"disconnected", "connecting", "connected"}
Promises == {"none", "pending", "resolved", "rejected"}
Booleans == BOOLEAN
Wss      == [Sockets -> {"none", "connecting", "open", "erred", "closed"}]
Seen    == [Sockets -> {"no", "connect", "acked", "broken"}]
Places   == 0..Hosts
Named    == Sockets \cup {0}
Pingers  == {"off", "fresh", "asked"}
Numbers  == Nat

Records == [state : States, promise : Promises, connected : Booleans, reconnecting : Booleans,
            socket : Named, ws : Wss, asked : Seen, hostIndex : Places, v4 : Booleans,
            connectTimer : Conn!Timer, retry : Conn!Timer, orphans : Numbers, pinger : Pingers, queued : Numbers,
            notify : Booleans]

\* Client with the types named.
LEMMA ClientIs ==
  ASSUME Instance
  PROVE
  /\ Conn!Client = Records
  /\ {"disconnected", "connecting", "connected"} \subseteq States
  /\ {"none", "pending", "resolved", "rejected"} \subseteq Promises
  /\ {TRUE, FALSE} \subseteq Booleans /\ {"none", "armed", "spent"} \subseteq Conn!Timer
  /\ Sockets \cup {0} \subseteq Named /\ {0, Hosts} \subseteq Places
  /\ {"off", "fresh", "asked"} \subseteq Pingers
<1>1. Conn!Client = Records
  BY Zenon DEF Conn!Client, Records, States, Promises, Booleans, Wss, Seen, Places, Named, Pingers, Numbers
<1> QED
  BY <1>1 DEF Instance, Conn!ConnectionAssumption, States, Promises, Booleans, Places, Named, Pingers, Conn!Timer

LEMMA FieldsOf ==
  ASSUME Instance, NEW c \in Conn!Client
  PROVE  c \in Records /\ c.ws \in Wss /\ c.asked \in Seen /\ c.orphans \in Nat
<1>1. c \in Records  BY ClientIs
<1> QED  BY <1>1 DEF Records, Numbers

\* Where there is room there is a socket, and for two that follow each other two.
LEMMA FreeSockets ==
  ASSUME Instance, NEW c \in Conn!Client
  PROVE  /\ Conn!Free(c) \subseteq Sockets
         /\ \A again : Conn!Room(c, again) => Conn!Free(c) # {}
         /\ reviver = "both" /\ Conn!Room(c, TRUE) => \A s : Conn!Free(c) \ {s} # {}
BY DEF Conn!Free, Conn!Room

LEMMA LeastFree ==
  ASSUME Instance, NEW c \in Conn!Client, Conn!Free(c) # {}
  PROVE  (CHOOSE x \in Conn!Free(c) : \A y \in Conn!Free(c) : x <= y) \in Conn!Free(c)
<1>1. Conn!Free(c) \subseteq Nat  BY FreeSockets DEF Instance, Conn!ConnectionAssumption
<1>2. PICK x \in Conn!Free(c) : \A y \in Conn!Free(c) : <<y, x>> \notin OpToRel(<, Nat)
  BY <1>1, WFMin, NatLessThanWellFounded
<1>3. \A y \in Conn!Free(c) : ~(y < x)  BY <1>1, <1>2 DEF OpToRel
<1>4. \A y \in Conn!Free(c) : x <= y  BY <1>1, <1>3
<1> QED  BY <1>4

\* Opening a connection.
LEMMA OpensOne ==
  ASSUME Instance, NEW c \in Conn!Client, Conn!Free(c) # {}
  PROVE  /\ Conn!Opens(c) \in Conn!Client /\ SameStory(c, Conn!Opens(c))
         /\ ~Conn!Opens(c).connected /\ Conn!Opens(c).connectTimer = "armed"
         /\ Conn!Opens(c).reconnecting = c.reconnecting
         /\ \E s : Conn!Free(c) \ {s} \subseteq Conn!Free(Conn!Opens(c))
<1> DEFINE s == CHOOSE x \in Conn!Free(c) : \A y \in Conn!Free(c) : x <= y
           w == [t \in Sockets |-> CASE t = s -> "connecting"
                                     [] t # s /\ c.ws[t] = "closed" -> "none"
                                     [] OTHER -> c.ws[t]]
           a == [t \in Sockets |-> IF t = s \/ c.ws[t] = "closed" THEN "no" ELSE c.asked[t]]
<1>1. s \in Sockets  BY LeastFree DEF Conn!Free
<1> HIDE DEF s
<1>2. /\ c.ws \in [Sockets -> {"none", "connecting", "open", "erred", "closed"}]
      /\ c.asked \in [Sockets -> {"no", "connect", "acked", "broken"}]
  BY DEF Conn!Client
<1>3. w \in [Sockets -> {"none", "connecting", "open", "erred", "closed"}]  BY <1>2
<1>4. a \in [Sockets -> {"no", "connect", "acked", "broken"}]  BY <1>2
<1>5. \A t \in Conn!Free(c) \ {s} : w[t] = "none"  BY DEF Conn!Free
<1> HIDE DEF w, a
<1>6. Conn!Opens(c) =
       [c EXCEPT !.connected = FALSE, !.socket = s, !.connectTimer = "armed", !.ws = w, !.asked = a]
  BY DEF Conn!Opens, s, w, a
<1>7. /\ c \in Records /\ s \in Named /\ w \in Wss /\ a \in Seen /\ FALSE \in Booleans
      /\ "armed" \in Conn!Timer
  BY <1>1, <1>3, <1>4, ClientIs DEF Wss, Seen
<1>8. /\ Conn!Opens(c) \in Records /\ Conn!Opens(c).ws = w
      /\ Conn!Opens(c).reconnecting = c.reconnecting
      /\ SameStory(c, Conn!Opens(c)) /\ ~Conn!Opens(c).connected
      /\ Conn!Opens(c).connectTimer = "armed"
  BY <1>6, <1>7 DEF Records, SameStory
<1>9. Conn!Free(c) \ {s} \subseteq Conn!Free(Conn!Opens(c))  BY <1>5, <1>8 DEF Conn!Free
<1> QED  BY <1>8, <1>9, ClientIs

\* An attempt of a reconnection.
LEMMA ReconnectsOne ==
  ASSUME Instance, NEW c \in Conn!Client, Conn!Free(c) # {}
  PROVE  /\ Conn!Reconnects(c) \in Conn!Client /\ SameStory(c, Conn!Reconnects(c))
         /\ c.connected => Conn!Reconnects(c) = c
         /\ ~c.connected => ~Conn!Reconnects(c).connected /\ Conn!Reconnects(c).connectTimer = "armed"
<1> DEFINE d == [c EXCEPT !.reconnecting = TRUE, !.pinger = "off", !.hostIndex = 0]
<1>1. c \in Records /\ TRUE \in Booleans /\ "off" \in Pingers /\ 0 \in Places  BY ClientIs
<1>2. d \in Records /\ SameStory(c, d) /\ d.connected = c.connected /\ d.ws = c.ws
  BY <1>1 DEF Records, SameStory
<1>3. Conn!Free(d) = Conn!Free(c)  BY <1>2 DEF Conn!Free
<1>4. Conn!Reconnects(c) = IF c.connected THEN c ELSE Conn!Opens(d)  BY DEF Conn!Reconnects
<1> HIDE DEF d
<1>5. /\ Conn!Opens(d) \in Conn!Client /\ SameStory(d, Conn!Opens(d)) /\ ~Conn!Opens(d).connected
      /\ Conn!Opens(d).connectTimer = "armed"
  BY <1>2, <1>3, OpensOne, ClientIs
<1> QED  BY <1>2, <1>4, <1>5 DEF SameStory

\* The wrapper's connect().
LEMMA ConnectOne ==
  ASSUME Instance, NEW c \in Conn!Client, Conn!Free(c) # {}, Placed(c), NEW w \in BOOLEAN
  PROVE  /\ Conn!Connect(c) \in Conn!Client /\ Placed(Conn!Connect(c))
         /\ Sound(c, w) => Sound(Conn!Connect(c), w \/ c.state = "disconnected")
         /\ Ticking(c) => Ticking(Conn!Connect(c))
         /\ c.socket = 0 /\ ~c.reconnecting /\ ~c.connected /\ c.state = "disconnected" =>
              Conn!Connect(c).connectTimer = "armed"
         /\ \E s : Conn!Free(c) \ {s} \subseteq Conn!Free(Conn!Connect(c))
<1> DEFINE says == [c EXCEPT !.state = "connecting"]
           asks == [says EXCEPT !.promise = "pending"]
           d == [asks EXCEPT !.reconnecting = FALSE, !.retry = IF asks.reconnecting THEN "none" ELSE @,
                             !.hostIndex = 0, !.v4 = Fallback]
<1>1. /\ c \in Records /\ FALSE \in Booleans /\ Fallback \in Booleans /\ "none" \in Conn!Timer
      /\ "connecting" \in States
      /\ "pending" \in Promises /\ 0 \in Places
  BY ClientIs DEF Instance, Conn!ConnectionAssumption, Booleans
<1>2. /\ says \in Records /\ says.connected = c.connected /\ says.state = "connecting"
      /\ says.promise = c.promise
      /\ says.reconnecting = c.reconnecting /\ says.notify = c.notify
      /\ says.hostIndex = c.hostIndex /\ says.ws = c.ws
      /\ says.connectTimer = c.connectTimer /\ says.retry = c.retry /\ says.orphans = c.orphans
  BY <1>1 DEF Records
<1>3. /\ d \in Records /\ d.state = "connecting" /\ d.promise = "pending" /\ d.notify = c.notify
      /\ d.ws = c.ws
      /\ d.reconnecting = FALSE
  BY <1>1 DEF Records
<1>4. Conn!Connect(c) =
       IF c.state # "disconnected" THEN c ELSE IF Conn!ConnectThrows(c) THEN says ELSE Conn!Opens(d)
  BY DEF Conn!Connect, Conn!ClientConnect
<1> HIDE DEF says, d
<1>5. Conn!Free(d) = Conn!Free(c) /\ Conn!Free(says) = Conn!Free(c)  BY <1>2, <1>3 DEF Conn!Free
<1>6. /\ Conn!Opens(d) \in Conn!Client /\ SameStory(d, Conn!Opens(d)) /\ ~Conn!Opens(d).connected
      /\ Conn!Opens(d).connectTimer = "armed"
      /\ \E s : Conn!Free(c) \ {s} \subseteq Conn!Free(Conn!Opens(d))
  BY <1>3, <1>5, OpensOne, ClientIs
<1>7. CASE c.state # "disconnected"
  <2>1. Conn!Connect(c) = c  BY <1>4, <1>7
  <2> QED  BY <2>1, <1>7 DEF Sound
<1>8. CASE c.state = "disconnected" /\ Conn!ConnectThrows(c)
  <2>1. Conn!Connect(c) = says  BY <1>4, <1>8
  <2>2. says \in Conn!Client /\ Placed(says) /\ (Ticking(c) => Ticking(says))
    BY <1>2, ClientIs DEF Placed, Ticking
  <2>3. Sound(c, w) => Sound(says, w \/ c.state = "disconnected")  BY <1>2, <1>8 DEF Sound
  <2>4. c.socket = 0 /\ ~c.reconnecting => c.connected  BY <1>8 DEF Conn!ConnectThrows
  <2> QED  BY <2>1, <2>2, <2>3, <2>4, <1>5
<1>9. CASE c.state = "disconnected" /\ ~Conn!ConnectThrows(c)
  <2>1. Conn!Connect(c) = Conn!Opens(d)  BY <1>4, <1>9
  <2>2. Placed(Conn!Opens(d)) /\ Ticking(Conn!Opens(d))  BY <1>6 DEF Placed, Ticking
  <2>3. Conn!Opens(d).state = "connecting" /\ Conn!Opens(d).notify = c.notify
    BY <1>3, <1>6 DEF SameStory
  <2>4. Sound(c, w) => Sound(Conn!Opens(d), w \/ c.state = "disconnected")
    BY <1>6, <2>3, <1>9 DEF Sound
  <2> QED  BY <2>1, <2>2, <2>4, <1>6
<1> QED  BY <1>7, <1>8, <1>9

\* And when the client refuses the options.
LEMMA RefusedOne ==
  ASSUME Instance, NEW c \in Conn!Client, Placed(c), NEW w \in BOOLEAN
  PROVE  LET d == Conn!ConnectRefused(c) IN
         /\ d \in Conn!Client /\ Placed(d)
         /\ Sound(c, w) => Sound(d, w \/ c.state = "disconnected")
         /\ Ticking(c) => Ticking(d)
<1> DEFINE says == [c EXCEPT !.state = "connecting"]
<1>1. c \in Records /\ "connecting" \in States  BY ClientIs
<1>2. /\ says \in Records /\ says.connected = c.connected /\ says.state = "connecting"
      /\ says.promise = c.promise
      /\ says.reconnecting = c.reconnecting /\ says.notify = c.notify
      /\ says.hostIndex = c.hostIndex
      /\ says.connectTimer = c.connectTimer /\ says.retry = c.retry /\ says.orphans = c.orphans
  BY <1>1 DEF Records
<1>3. Conn!ConnectRefused(c) = IF c.state = "disconnected" THEN says ELSE c  BY DEF Conn!ConnectRefused
<1> HIDE DEF says
<1>4. CASE c.state = "disconnected"
  <2>1. says \in Conn!Client /\ Placed(says) /\ (Ticking(c) => Ticking(says))
    BY <1>2, ClientIs DEF Placed, Ticking
  <2>2. Sound(c, w) => Sound(says, w \/ c.state = "disconnected")  BY <1>2, <1>4 DEF Sound
  <2> QED  BY <1>3, <1>4, <2>1, <2>2
<1>5. CASE c.state # "disconnected"  BY <1>3, <1>5 DEF Sound
<1> QED  BY <1>4, <1>5

\* The sockets without the current one.
Left(c) == [s \in Sockets |-> IF s = c.socket THEN "none" ELSE c.ws[s]]

\* What _disconnected leaves.
LEMMA ClearedOne ==
  ASSUME Instance, NEW c \in Conn!Client
  PROVE  LET d == Conn!Cleared(c) IN
         /\ d \in Conn!Client /\ d.notify = FALSE /\ d.queued = 0 /\ d.socket = 0
         /\ d.state = c.state /\ d.promise = c.promise /\ d.connected = c.connected
         /\ d.reconnecting = c.reconnecting /\ d.hostIndex = c.hostIndex /\ d.v4 = c.v4
         /\ d.retry = c.retry /\ d.orphans = c.orphans
         /\ c.socket = 0 => d.ws = c.ws
         /\ d.ws = Left(c)
<1> DEFINE w == Left(c)
           a == [s \in Sockets |-> IF s = c.socket THEN "no" ELSE c.asked[s]]
<1>1. c.ws \in Wss /\ c.asked \in Seen  BY FieldsOf
<1>2. w \in Wss /\ a \in Seen  BY <1>1 DEF Wss, Seen, Left
<1>3. c.socket = 0 => w = c.ws  BY <1>1 DEF Instance, Conn!ConnectionAssumption, Wss, Left
<1> HIDE DEF w, a
<1>5. Conn!Cleared(c) = [c EXCEPT !.pinger = "off", !.connectTimer = "none", !.queued = 0, !.notify = FALSE,
                             !.socket = 0, !.ws = w, !.asked = a]
  BY DEF Conn!Cleared, Left, w, a
<1>6. /\ c \in Records /\ "off" \in Pingers /\ "none" \in Conn!Timer /\ 0 \in Numbers
      /\ FALSE \in Booleans /\ 0 \in Named
  BY ClientIs DEF Numbers
<1> DEFINE d == Conn!Cleared(c)
<1>7. /\ d \in Records /\ d.notify = FALSE /\ d.queued = 0 /\ d.socket = 0 /\ d.ws = w
      /\ d.state = c.state /\ d.promise = c.promise /\ d.connected = c.connected
      /\ d.reconnecting = c.reconnecting /\ d.hostIndex = c.hostIndex /\ d.v4 = c.v4
      /\ d.retry = c.retry /\ d.orphans = c.orphans
  BY <1>2, <1>5, <1>6 DEF Records
<1>8. d.ws = Left(c)  BY <1>7 DEF w
<1> HIDE DEF d
<1> QED  BY <1>3, <1>7, <1>8, ClientIs DEF d

\* The next attempt of a reconnection.
LEMMA TriesAgainOne ==
  ASSUME Instance, NEW c \in Conn!Client, NEW w \in BOOLEAN
  PROVE  /\ Conn!TriesAgain(c) \in Conn!Client /\ Ticking(Conn!TriesAgain(c))
         /\ Placed(c) => Placed(Conn!TriesAgain(c))
         /\ Sound(c, w) => Sound(Conn!TriesAgain(c), w)
<1> DEFINE d == Conn!TriesAgain(c)
<1>1. c \in Records /\ "armed" \in Conn!Timer  BY ClientIs
<1>2. c.orphans + 1 \in Numbers  BY <1>1 DEF Records, Numbers
<1>3. /\ d \in Records /\ d.retry = "armed" /\ d.state = c.state /\ d.promise = c.promise
      /\ d.notify = c.notify
      /\ d.connected = c.connected /\ d.reconnecting = c.reconnecting /\ d.hostIndex = c.hostIndex
  BY <1>1, <1>2 DEF Records, Conn!TriesAgain
<1> QED  BY <1>3, ClientIs DEF Sound, Ticking, Placed

\* The loss of a connection of which nothing is left.
LEMMA LosesOne ==
  ASSUME Instance, NEW c \in Conn!Client, NEW again \in BOOLEAN, again => Conn!Free(c) # {},
         c.socket = 0, NEW w \in BOOLEAN, again => w
  PROVE  LET d == Conn!Loses(c, again) IN
         /\ d \in Conn!Client /\ Placed(d)
         /\ ~again => /\ ~d.connected /\ d.state = "disconnected" /\ d.promise = c.promise
                      /\ d.socket = 0 /\ d.ws = c.ws
                      /\ d.reconnecting = c.reconnecting /\ d.notify = c.notify
                      /\ d.queued = c.queued
         /\ ~c.notify => Sound(d, w)
         /\ ~c.reconnecting /\ c.promise # "pending" => Ticking(d)
         /\ \E s : Conn!Free(c) \ {s} \subseteq Conn!Free(d)
<1> DEFINE lost == [c EXCEPT !.connected = FALSE, !.state = "disconnected"]
           d == Conn!Loses(c, again)
<1>1. c \in Records /\ FALSE \in Booleans /\ "disconnected" \in States  BY ClientIs
<1>2. /\ lost \in Records /\ ~lost.connected /\ lost.state = "disconnected"
      /\ lost.promise = c.promise /\ lost.socket = 0
      /\ lost.ws = c.ws /\ lost.reconnecting = c.reconnecting /\ lost.notify = c.notify
      /\ lost.queued = c.queued
  BY <1>1 DEF Records
<1>3. d = IF again THEN Conn!Connect(lost) ELSE lost  BY DEF Conn!Loses
<1> HIDE DEF lost, d
<1>4. lost \in Conn!Client /\ Conn!Free(lost) = Conn!Free(c) /\ Placed(lost)
  BY <1>2, ClientIs DEF Conn!Free, Placed
<1>5. ~c.notify => Sound(lost, w)  BY <1>2 DEF Sound
<1>6. CASE ~again
  <2>1. d = lost  BY <1>3, <1>6
  <2>2. ~c.reconnecting /\ c.promise # "pending" => Ticking(lost)  BY <1>2 DEF Ticking
  <2> QED  BY <2>1, <2>2, <1>2, <1>4, <1>5 DEF d
<1>7. CASE again
  <2>1. d = Conn!Connect(lost) /\ Conn!Free(lost) # {} /\ w  BY <1>3, <1>4, <1>7
  <2>2. /\ d \in Conn!Client /\ Placed(d) /\ (Sound(lost, w) => Sound(d, w \/ lost.state = "disconnected"))
        /\ lost.socket = 0 /\ ~lost.reconnecting /\ ~lost.connected /\ lost.state = "disconnected" =>
             d.connectTimer = "armed"
        /\ \E s : Conn!Free(lost) \ {s} \subseteq Conn!Free(d)
    BY <2>1, <1>4, ConnectOne
  <2>3. (w \/ lost.state = "disconnected") = w  BY <2>1
  <2>4. ~c.notify => Sound(d, w)  BY <2>2, <2>3, <1>5
  <2>5. ~c.reconnecting => Ticking(d)  BY <2>2, <1>2 DEF Ticking
  <2>6. \E s : Conn!Free(c) \ {s} \subseteq Conn!Free(d)  BY <2>2, <1>4
  <2> QED  BY <2>2, <2>4, <2>5, <2>6, <1>7 DEF d
<1> QED  BY <1>6, <1>7

\* There is room for what a failure opens.
Roomy(c, error, again) ==
  (error /\ c.reconnecting) \/ (c.connected /\ ~again /\ ~error) \/ Conn!Room(Conn!Cleared(c), again)

\* _disconnected, whatever it goes on to.
LEMMA DisconnectedOne ==
  ASSUME Instance, NEW c \in Conn!Client, NEW error \in BOOLEAN, NEW again \in BOOLEAN, NEW w \in BOOLEAN,
         Placed(c), Roomy(c, error, again), again => w /\ reviver \in {"app", "both"}
  PROVE  LET e == Conn!Disconnected(c, error, again) IN
         /\ e \in Conn!Client /\ Placed(e)
         /\ Sound(c, w) => Sound(e, w)
         /\ Sound(c, w) /\ (c.reconnecting => error) => Ticking(e)
<1> DEFINE d == Conn!Cleared(c)
           e == Conn!Disconnected(c, error, again)
<1>1. /\ d \in Conn!Client /\ d.notify = FALSE /\ d.queued = 0 /\ d.socket = 0
      /\ d.state = c.state /\ d.promise = c.promise /\ d.connected = c.connected
      /\ d.reconnecting = c.reconnecting /\ d.hostIndex = c.hostIndex /\ d.v4 = c.v4
  BY ClearedOne
<1> HIDE DEF d, e
<1>2. Conn!Room(d, again) => Conn!Free(d) # {}  BY <1>1, FreeSockets
<1>3. c.hostIndex \in 0..Hosts /\ Hosts \in Nat \ {0}
  BY DEF Instance, Conn!ConnectionAssumption, Conn!Client
<1>4. d \in Records  BY <1>1, ClientIs
<1>5. CASE error /\ c.reconnecting
  <2>1. e = Conn!TriesAgain(c)  BY <1>5 DEF Conn!Disconnected, e
  <2> QED  BY <2>1, TriesAgainOne DEF e
<1>6. CASE ~(error /\ c.reconnecting) /\ c.hostIndex + 1 < Hosts
  <2> DEFINE f == [d EXCEPT !.hostIndex = @ + 1]
  <2>1. e = Conn!Opens(f)
    <3>1. d.hostIndex + 1 < Hosts /\ ~(d.hostIndex + 1 >= Hosts)  BY <1>1, <1>3, <1>6
    <3> QED  BY <3>1, <1>6 DEF Conn!Disconnected, d, e
  <2>2. ~c.connected  BY <1>3, <1>6 DEF Placed
  <2>3. d.hostIndex + 1 \in Places  BY <1>1, <1>3, <1>6 DEF Places
  <2>4. f \in Records /\ SameStory(d, f) /\ f.reconnecting = d.reconnecting /\ f.ws = d.ws
    BY <2>3, <1>4 DEF Records, SameStory
  <2> HIDE DEF f
  <2>5. Conn!Free(f) = Conn!Free(d) /\ Conn!Free(d) # {}
    BY <2>2, <2>4, <1>2, <1>6 DEF Conn!Free, Roomy, d
  <2>6. /\ e \in Conn!Client /\ SameStory(f, e) /\ ~e.connected /\ e.connectTimer = "armed"
    BY <2>1, <2>4, <2>5, OpensOne, ClientIs
  <2>7. Placed(e) /\ Ticking(e)  BY <2>6 DEF Placed, Ticking
  <2>8. Sound(c, w) => Sound(e, w)  BY <2>2, <2>4, <2>6, <1>1 DEF SameStory, Sound
  <2> QED  BY <2>6, <2>7, <2>8 DEF e
<1>7. CASE ~(error /\ c.reconnecting) /\ c.hostIndex + 1 >= Hosts /\ c.connected
  <2> DEFINE l == Conn!Loses(d, again)
             back == error /\ reviver \in {"client", "both"}
  <2>1. e = IF back THEN Conn!Reconnects(l) ELSE l
    BY <1>1, <1>6, <1>7, <1>3 DEF Conn!Disconnected, d, e
  <2>2. again => Conn!Free(d) # {}  BY <1>2, <1>7 DEF Roomy, d
  <2>3. /\ l \in Conn!Client /\ Placed(l) /\ Sound(l, w)
        /\ (~d.reconnecting /\ d.promise # "pending" => Ticking(l))
        /\ (~again => ~l.connected /\ l.ws = d.ws) /\ \E s : Conn!Free(d) \ {s} \subseteq Conn!Free(l)
    BY <2>2, <1>1, LosesOne
  <2>4. Sound(c, w) => Ticking(l)  BY <2>3, <1>1, <1>7 DEF Sound
  <2> HIDE DEF l
  <2>5. CASE ~back
    <3>1. e = l  BY <2>1, <2>5
    <3> QED  BY <3>1, <2>3, <2>4 DEF e
  <2>6. CASE back
    <3>1. e = Conn!Reconnects(l) /\ Conn!Room(d, again)  BY <2>1, <2>6, <1>7 DEF Roomy, d
    <3>2. Conn!Free(l) # {}
      <4>1. CASE again
        <5>1. reviver = "both"  BY <2>6, <4>1
        <5>2. \A s : Conn!Free(d) \ {s} # {}  BY <5>1, <3>1, <4>1, <1>1, FreeSockets
        <5> QED  BY <5>2, <2>3
      <4>2. CASE ~again  BY <4>2, <2>3, <3>1, <1>2 DEF Conn!Free
      <4> QED  BY <4>1, <4>2
    <3>3. /\ e \in Conn!Client /\ SameStory(l, e) /\ (l.connected => e = l)
          /\ ~l.connected => ~e.connected /\ e.connectTimer = "armed"
      BY <3>1, <3>2, <2>3, ReconnectsOne
    <3>4. CASE l.connected  BY <3>3, <3>4, <2>3, <2>4 DEF e
    <3>5. CASE ~l.connected
      <4>1. Placed(e) /\ Ticking(e)  BY <3>3, <3>5 DEF Placed, Ticking
      <4>2. Sound(e, w)  BY <3>3, <3>5, <2>3 DEF Sound, SameStory
      <4> QED  BY <4>1, <4>2, <3>3 DEF e
    <3> QED  BY <3>4, <3>5
  <2> QED  BY <2>5, <2>6
<1>8. CASE ~(error /\ c.reconnecting) /\ c.hostIndex + 1 >= Hosts /\ ~c.connected /\ c.v4
  <2> DEFINE f == [d EXCEPT !.v4 = FALSE, !.hostIndex = 0]
  <2>1. e = Conn!Opens(f)  BY <1>1, <1>8, <1>3 DEF Conn!Disconnected, d, e
  <2>3. 0 \in Places /\ FALSE \in Booleans  BY ClientIs
  <2>4. f \in Records /\ SameStory(d, f) /\ f.reconnecting = d.reconnecting /\ f.ws = d.ws
    BY <2>3, <1>4 DEF Records, SameStory
  <2> HIDE DEF f
  <2>5. Conn!Free(f) = Conn!Free(d) /\ Conn!Free(d) # {}
    BY <2>4, <1>2, <1>8 DEF Conn!Free, Roomy, d
  <2>6. /\ e \in Conn!Client /\ SameStory(f, e) /\ ~e.connected /\ e.connectTimer = "armed"
    BY <2>1, <2>4, <2>5, OpensOne, ClientIs
  <2>7. Placed(e) /\ Ticking(e)  BY <2>6 DEF Placed, Ticking
  <2>8. Sound(c, w) => Sound(e, w)  BY <2>4, <2>6, <1>1, <1>8 DEF SameStory, Sound
  <2> QED  BY <2>6, <2>7, <2>8 DEF e
<1>9. CASE ~(error /\ c.reconnecting) /\ c.hostIndex + 1 >= Hosts /\ ~c.connected /\ ~c.v4
  <2>1. e = Conn!Fails(d)  BY <1>1, <1>9, <1>3 DEF Conn!Disconnected, d, e
  <2>2. "disconnected" \in States /\ "rejected" \in Promises  BY ClientIs
  <2>3. /\ e \in Records /\ e.state = "disconnected" /\ e.promise # "pending"
        /\ e.connected = d.connected
        /\ e.reconnecting = d.reconnecting /\ e.notify = d.notify
    BY <2>1, <2>2, <1>4 DEF Records, Conn!Fails
  <2>4. Placed(e) /\ Sound(e, w)  BY <2>3, <1>1, <1>9 DEF Placed, Sound
  <2>5. (c.reconnecting => error) => Ticking(e)  BY <2>3, <1>1, <1>9 DEF Ticking
  <2> QED  BY <2>3, <2>4, <2>5, ClientIs DEF e
<1> QED  BY <1>3, <1>5, <1>6, <1>7, <1>8, <1>9

\* A DISCONNECT that goes out ends the connection.
LEMMA EndsIt ==
  ASSUME Instance, NEW c \in Conn!Client, c.connected, c.hostIndex = Hosts
  PROVE  Conn!Disconnected(c, FALSE, FALSE) = Conn!Loses(Conn!Cleared(c), FALSE)
<1> DEFINE d == Conn!Cleared(c)
<1>1. d.connected /\ d.hostIndex = Hosts  BY ClearedOne
<1>2. Hosts + 1 >= Hosts /\ ~(Hosts + 1 < Hosts)  BY DEF Instance, Conn!ConnectionAssumption
<1> QED  BY <1>1, <1>2 DEF Conn!Disconnected

\* What is left of a client that sent its queue.
LEMMA FlushOne ==
  ASSUME Instance, NEW c \in Conn!Client, c.notify /\ c.queued > 0 => c.connected /\ c.hostIndex = Hosts
  PROVE  LET f == Conn!Flush(c) IN
         /\ f \in Conn!Client
         /\ c.queued = 0 => f = c
         /\ c.queued > 0 /\ ~c.notify =>
              /\ f.queued = 0 /\ f.state = c.state /\ f.promise = c.promise
              /\ f.connected = c.connected
              /\ f.reconnecting = c.reconnecting /\ f.hostIndex = c.hostIndex /\ f.notify = c.notify
              /\ f.ws = c.ws /\ f.socket = c.socket /\ f.connectTimer = c.connectTimer
              /\ f.retry = c.retry
              /\ f.orphans = c.orphans
         /\ c.queued > 0 /\ c.notify =>
              /\ f.queued = 0 /\ f.state = "disconnected" /\ f.promise = c.promise /\ ~f.connected
              /\ f.reconnecting = c.reconnecting /\ ~f.notify
              /\ f.ws = Conn!Cleared(c).ws /\ f.socket = 0
<1> DEFINE out == [c EXCEPT !.queued = 0, !.pinger = "fresh"]
           f == Conn!Flush(c)
<1>1. c \in Records /\ 0 \in Numbers /\ "fresh" \in Pingers  BY ClientIs DEF Numbers
<1>2. /\ out \in Records /\ out.queued = 0 /\ out.state = c.state /\ out.promise = c.promise
      /\ out.connected = c.connected /\ out.reconnecting = c.reconnecting
      /\ out.hostIndex = c.hostIndex
      /\ out.notify = c.notify /\ out.ws = c.ws /\ out.socket = c.socket
      /\ out.connectTimer = c.connectTimer /\ out.retry = c.retry /\ out.orphans = c.orphans
  BY <1>1 DEF Records
<1>3. c.queued \in Nat  BY <1>1 DEF Records, Numbers
<1>4. CASE c.queued = 0
  <2>1. f = c  BY <1>4 DEF Conn!Flush
  <2> QED  BY <2>1, <1>4
<1>5. CASE c.queued > 0 /\ ~c.notify
  <2>1. f = out
    <3>1. c.queued # 0 /\ (c.queued > 0 /\ ~c.notify) = TRUE /\ (c.queued > 0 /\ c.notify) = FALSE
      BY <1>3, <1>5
    <3> QED  BY <3>1 DEF Conn!Flush
  <2> HIDE DEF out, f
  <2>2. c.queued # 0  BY <1>3, <1>5
  <2> QED  BY <2>1, <2>2, <1>2, <1>5, ClientIs DEF f
<1>6. CASE c.queued > 0 /\ c.notify
  <2>1. f = Conn!Disconnected(out, FALSE, FALSE)
    <3>1. c.queued # 0 /\ (c.queued > 0 /\ ~c.notify) = FALSE /\ (c.queued > 0 /\ c.notify) = TRUE
      BY <1>3, <1>6
    <3> QED  BY <3>1 DEF Conn!Flush
  <2> DEFINE k == Conn!Cleared(out)
  <2> HIDE DEF out, f
  <2>2. out \in Conn!Client /\ out.connected /\ out.hostIndex = Hosts  BY <1>2, <1>6, ClientIs
  <2>3. f = Conn!Loses(k, FALSE)  BY <2>1, <2>2, EndsIt
  <2>4. /\ k \in Conn!Client /\ k.notify = FALSE /\ k.queued = 0 /\ k.socket = 0
        /\ k.promise = out.promise
        /\ k.reconnecting = out.reconnecting
    BY <2>2, ClearedOne
  <2>5. k.ws = Conn!Cleared(c).ws
    <3>1. k.ws = Left(out) /\ Conn!Cleared(c).ws = Left(c)  BY <2>2, ClearedOne
    <3>2. Left(out) = Left(c)  BY <1>2 DEF Left
    <3> QED  BY <3>1, <3>2
  <2> HIDE DEF k
  <2>6. /\ f \in Conn!Client /\ ~f.connected /\ f.state = "disconnected" /\ f.promise = k.promise
        /\ f.socket = 0 /\ f.ws = k.ws
        /\ f.reconnecting = k.reconnecting /\ f.notify = k.notify /\ f.queued = k.queued
    BY <2>3, <2>4, LosesOne
  <2>7. c.queued # 0  BY <1>3, <1>6
  <2> QED  BY <2>4, <2>5, <2>6, <2>7, <1>2, <1>6 DEF f
<1> QED  BY <1>3, <1>4, <1>5, <1>6

\* What Cleared leaves of the sockets depends on the sockets alone.
LEMMA SameRoom ==
  ASSUME Instance, NEW c \in Conn!Client, NEW d \in Conn!Client, NEW again,
         \/ d.ws = c.ws /\ d.socket = c.socket
         \/ d.ws = Conn!Cleared(c).ws /\ d.socket = 0
  PROVE  Conn!Room(Conn!Cleared(c), again) => Conn!Room(Conn!Cleared(d), again)
<1>1. /\ Conn!Cleared(c).ws = Left(c) /\ Conn!Cleared(d).ws = Left(d)
      /\ d.socket = 0 => Conn!Cleared(d).ws = d.ws
  BY ClearedOne
<1>2. d.ws = c.ws /\ d.socket = c.socket => Left(c) = Left(d)  BY DEF Left
<1>4. Conn!Cleared(c).ws = Conn!Cleared(d).ws  BY <1>1, <1>2
<1>5. Conn!Free(Conn!Cleared(c)) = Conn!Free(Conn!Cleared(d))  BY <1>4 DEF Conn!Free
<1> QED  BY <1>5 DEF Conn!Room

\* A CONNACK that accepts, on the current socket.
LEMMA ConnackOne ==
  ASSUME Instance, NEW c \in Conn!Client, NEW n \in Nat, NEW again \in BOOLEAN, NEW w \in BOOLEAN,
         Conn!Room(Conn!Cleared(c), again), again => w /\ reviver \in {"app", "both"}
  PROVE  LET e == Conn!Connack(c, n, again) IN
         /\ e \in Conn!Client /\ Placed(e)
         /\ Sound(c, w) /\ Conn!Sendable(c) => Sound(e, w) /\ Ticking(e)
<1> DEFINE acc == [c EXCEPT !.connectTimer = Conn!Cancelled(@), !.retry = Conn!Cancelled(@),
                            !.connected = TRUE, !.hostIndex = Hosts]
           wai == [acc EXCEPT !.queued = @ + 1]
           sch == IF n = 0 THEN acc ELSE Conn!Flush(wai)
           wel == Conn!Welcomed(sch, n)
           less == [wel EXCEPT !.queued = @ - 1]
           e == Conn!Connack(c, n, again)
<1>1. /\ c \in Records /\ TRUE \in Booleans /\ FALSE \in Booleans /\ Hosts \in Places
      /\ "connected" \in States
      /\ "resolved" \in Promises /\ Hosts \in Nat
  BY ClientIs DEF Instance, Conn!ConnectionAssumption
<1>2. Conn!Cancelled(c.connectTimer) \in Conn!Timer /\ Conn!Cancelled(c.retry) \in Conn!Timer
  BY <1>1 DEF Records, Conn!Cancelled, Conn!Timer
<1>3. /\ acc \in Records /\ acc.connected /\ acc.hostIndex = Hosts /\ acc.state = c.state
      /\ acc.promise = c.promise
      /\ acc.notify = c.notify /\ acc.queued = c.queued /\ acc.reconnecting = c.reconnecting
      /\ acc.ws = c.ws /\ acc.socket = c.socket
  BY <1>1, <1>2 DEF Records
<1>4. acc.queued + 1 \in Numbers /\ c.queued \in Nat  BY <1>1, <1>3 DEF Records, Numbers
<1> HIDE DEF acc
<1>5. /\ wai \in Records /\ wai.connected /\ wai.hostIndex = Hosts /\ wai.state = c.state
      /\ wai.promise = c.promise
      /\ wai.notify = c.notify /\ wai.queued = c.queued + 1 /\ wai.reconnecting = c.reconnecting
      /\ wai.ws = c.ws /\ wai.socket = c.socket
  BY <1>3, <1>4 DEF Records
<1> HIDE DEF wai
<1>6. acc \in Conn!Client /\ wai \in Conn!Client  BY <1>3, <1>5, ClientIs
<1>7. Conn!Cleared(wai).ws = Conn!Cleared(c).ws
  <2>1. Conn!Cleared(wai).ws = Left(wai) /\ Conn!Cleared(c).ws = Left(c)  BY <1>6, ClearedOne
  <2>2. Left(wai) = Left(c)  BY <1>5 DEF Left
  <2> QED  BY <2>1, <2>2
<1>8. /\ sch \in Conn!Client
      /\ n = 0 => sch = acc
      /\ n # 0 => sch.queued = 0 /\ ~sch.notify
      /\ n # 0 /\ ~c.notify => sch.connected /\ sch.hostIndex = Hosts /\ sch.ws = c.ws /\ sch.socket = c.socket
      /\ n # 0 /\ c.notify => ~sch.connected /\ sch.ws = Conn!Cleared(c).ws /\ sch.socket = 0
  <2>1. CASE n = 0  BY <2>1, <1>6
  <2>2. CASE n # 0
    <3> DEFINE f == Conn!Flush(wai)
    <3>1. wai.queued > 0  BY <1>4, <1>5
    <3>2. /\ f \in Conn!Client
          /\ wai.queued > 0 /\ ~wai.notify =>
               f.queued = 0 /\ f.connected = wai.connected /\ f.hostIndex = wai.hostIndex
               /\ f.notify = wai.notify /\ f.ws = wai.ws /\ f.socket = wai.socket
          /\ wai.queued > 0 /\ wai.notify =>
               f.queued = 0 /\ ~f.connected /\ ~f.notify /\ f.ws = Conn!Cleared(wai).ws /\ f.socket = 0
      BY <1>5, <1>6, FlushOne
    <3>3. sch = f  BY <2>2
    <3> HIDE DEF f, sch
    <3> QED  BY <3>1, <3>2, <3>3, <2>2, <1>5, <1>7
  <2> QED  BY <2>1, <2>2
<1> HIDE DEF sch
<1>9. /\ wel \in Records /\ wel.state = "connected" /\ wel.promise # "pending" /\ ~wel.reconnecting
      /\ wel.connected = sch.connected /\ wel.hostIndex = sch.hostIndex /\ wel.notify = sch.notify
      /\ wel.ws = sch.ws /\ wel.socket = sch.socket /\ wel.queued \in Nat
  <2> DEFINE q == IF sch.connected \/ n = 0 THEN sch.queued ELSE n - 1
             r == IF sch.promise = "pending" THEN "resolved" ELSE sch.promise
  <2>1. sch \in Records  BY <1>8, ClientIs
  <2>2. q \in Numbers  BY <2>1 DEF Records, Numbers
  <2>3. r \in Promises /\ r # "pending"  BY <2>1, <1>1 DEF Records
  <2>4. wel = [sch EXCEPT !.state = "connected", !.promise = r, !.reconnecting = FALSE, !.queued = q]
    BY DEF Conn!Welcomed
  <2> HIDE DEF q, r, wel
  <2>5. q \in Nat  BY <2>2 DEF Numbers
  <2> QED  BY <2>1, <2>2, <2>3, <2>4, <2>5, <1>1 DEF Records
<1>10. e = CASE n > 0 /\ Conn!Throws(wai) -> Conn!Disconnected(acc, TRUE, again)
             [] ~(n > 0 /\ Conn!Throws(wai)) /\ Conn!Throws(wel) -> Conn!Disconnected(less, TRUE, again)
             [] OTHER -> Conn!Flush(wel)
  BY DEF Conn!Connack, acc, wai, sch
<1>11. ~wel.connected => n # 0 /\ c.notify  BY <1>3, <1>8, <1>9
<1>12. wel.notify => n = 0 /\ c.notify  BY <1>3, <1>8, <1>9
<1>13. \/ wel.ws = c.ws /\ wel.socket = c.socket
       \/ wel.ws = Conn!Cleared(c).ws /\ wel.socket = 0
  BY <1>3, <1>8, <1>9
<1>14. wel.connected => wel.hostIndex = Hosts /\ wel.ws = c.ws /\ wel.socket = c.socket
  BY <1>3, <1>8, <1>9
<1> HIDE DEF wel, e
<1>15. wel \in Conn!Client /\ Placed(wel)  BY <1>9, <1>14, ClientIs DEF Placed
<1>16. Sound(c, w) => Sound(wel, w)  BY <1>9, <1>11, <1>12 DEF Sound
<1>17. CASE n > 0 /\ Conn!Throws(wai)
  <2>1. e = Conn!Disconnected(acc, TRUE, again)  BY <1>10, <1>17
  <2>2. Placed(acc) /\ Roomy(acc, TRUE, again)  BY <1>3, <1>6, SameRoom DEF Placed, Roomy
  <2>3. e \in Conn!Client /\ Placed(e)  BY <2>1, <2>2, <1>6, DisconnectedOne
  <2>4. ~Conn!Sendable(c)  BY <1>5, <1>17 DEF Conn!Throws, Conn!Sendable
  <2> QED  BY <2>3, <2>4 DEF e
<1>18. CASE ~(n > 0 /\ Conn!Throws(wai)) /\ Conn!Throws(wel)
  <2>1. e = Conn!Disconnected(less, TRUE, again)  BY <1>10, <1>18
  <2>2. wel.queued - 1 \in Numbers  BY <1>9, <1>18 DEF Conn!Throws, Numbers
  <2>3. /\ less \in Records /\ less.state = wel.state /\ less.promise = wel.promise
        /\ less.reconnecting = wel.reconnecting
        /\ less.connected = wel.connected /\ less.hostIndex = wel.hostIndex
        /\ less.notify = wel.notify
        /\ less.ws = wel.ws /\ less.socket = wel.socket
    BY <2>2, <1>9 DEF Records
  <2> HIDE DEF less
  <2>4. less \in Conn!Client /\ Placed(less)  BY <2>3, <1>14, ClientIs DEF Placed
  <2>5. Roomy(less, TRUE, again)
    <3>1. \/ less.ws = c.ws /\ less.socket = c.socket
          \/ less.ws = Conn!Cleared(c).ws /\ less.socket = 0
      BY <2>3, <1>13
    <3>2. Conn!Room(Conn!Cleared(less), again)  BY <3>1, <2>4, SameRoom
    <3> QED  BY <3>2 DEF Roomy
  <2>6. /\ e \in Conn!Client /\ Placed(e) /\ (Sound(less, w) => Sound(e, w))
        /\ Sound(less, w) /\ (less.reconnecting => TRUE) => Ticking(e)
    BY <2>1, <2>4, <2>5, DisconnectedOne
  <2>7. Sound(c, w) => Sound(less, w)  BY <1>16, <2>3 DEF Sound
  <2> QED  BY <2>6, <2>7 DEF e
<1>19. CASE ~(n > 0 /\ Conn!Throws(wai)) /\ ~Conn!Throws(wel)
  <2> DEFINE f == Conn!Flush(wel)
  <2>1. e = f  BY <1>10, <1>19
  <2>2. wel.notify /\ wel.queued > 0 => wel.connected /\ wel.hostIndex = Hosts
    BY <1>11, <1>12, <1>14
  <2>3. /\ f \in Conn!Client
        /\ wel.queued = 0 => f = wel
        /\ wel.queued > 0 /\ ~wel.notify =>
             /\ f.state = wel.state /\ f.promise = wel.promise /\ f.connected = wel.connected
             /\ f.reconnecting = wel.reconnecting /\ f.hostIndex = wel.hostIndex
             /\ f.notify = wel.notify
        /\ wel.queued > 0 /\ wel.notify =>
             /\ f.state = "disconnected" /\ f.promise = wel.promise /\ ~f.connected
             /\ f.reconnecting = wel.reconnecting /\ ~f.notify
    BY <2>2, <1>15, FlushOne
  <2> HIDE DEF f
  <2>4. wel.queued = 0 \/ wel.queued > 0  BY <1>9
  <2>5. Placed(f)  BY <2>3, <2>4, <1>14 DEF Placed
  <2>6. Ticking(f)  BY <2>3, <2>4, <1>9 DEF Ticking
  <2>7. Sound(c, w) => Sound(f, w)  BY <2>3, <2>4, <1>16 DEF Sound
  <2> QED  BY <2>1, <2>3, <2>5, <2>6, <2>7 DEF e
<1> QED  BY <1>17, <1>18, <1>19

\* disconnect() keeps a timer unless it ends a reconnection under a connect().
LEMMA ClientDisconnectOne ==
  ASSUME Instance, NEW c \in Conn!Client, Placed(c), NEW w \in BOOLEAN, c.state # "disconnected"
  PROVE  LET e == Conn!ClientDisconnect(c) IN
         /\ e \in Conn!Client /\ Placed(e)
         /\ Sound(c, w) => Sound(e, FALSE)
         /\ Sound(c, w) /\ Ticking(c) => Ticking(e) \/ (c.promise = "pending" /\ c.reconnecting /\ ~e.reconnecting)
<1> DEFINE end == IF c.reconnecting THEN [c EXCEPT !.retry = "none", !.reconnecting = FALSE] ELSE c
           que == [end EXCEPT !.queued = @ + 1, !.notify = TRUE]
           less == [que EXCEPT !.queued = @ - 1]
           e == Conn!ClientDisconnect(c)
<1>1. c \in Records /\ "none" \in Conn!Timer /\ TRUE \in Booleans /\ FALSE \in Booleans  BY ClientIs
<1>2. /\ end \in Records /\ end.connected = c.connected /\ end.state = c.state
      /\ end.promise = c.promise
      /\ ~end.reconnecting /\ end.hostIndex = c.hostIndex /\ end.notify = c.notify
      /\ end.queued = c.queued
      /\ end.connectTimer = c.connectTimer /\ end.orphans = c.orphans /\ (~c.reconnecting => end = c)
  BY <1>1 DEF Records
<1> HIDE DEF end
<1>3. end.queued \in Nat /\ end.queued + 1 \in Numbers  BY <1>2 DEF Records, Numbers
<1>4. /\ que \in Records /\ que.connected = c.connected /\ que.state = c.state
      /\ que.promise = c.promise
      /\ ~que.reconnecting /\ que.hostIndex = c.hostIndex /\ que.notify
      /\ que.queued = end.queued + 1
      /\ que.connectTimer = end.connectTimer /\ que.orphans = end.orphans /\ que.retry = end.retry
  BY <1>1, <1>2, <1>3 DEF Records
<1> HIDE DEF que
<1>5. que.queued \in Nat /\ que.queued > 0 /\ que.queued - 1 \in Numbers  BY <1>3, <1>4 DEF Numbers
<1>6. /\ less \in Records /\ less.connected = c.connected /\ less.state = c.state
      /\ less.promise = c.promise
      /\ ~less.reconnecting /\ less.hostIndex = c.hostIndex /\ less.notify
  BY <1>4, <1>5 DEF Records
<1>7. e = CASE c.reconnecting /\ c.retry = "none" -> c
            [] ~(c.reconnecting /\ c.retry = "none") /\ end.socket = 0 -> end
            [] OTHER -> CASE ~end.connected -> que
                          [] end.connected /\ ~Conn!Throws(que) -> Conn!Flush(que)
                          [] end.connected /\ Conn!Throws(que) -> less
  BY DEF Conn!ClientDisconnect, end, que
<1> HIDE DEF less, e
<1>8. /\ end \in Conn!Client /\ que \in Conn!Client /\ less \in Conn!Client /\ Placed(end)
      /\ Placed(que) /\ Placed(less)
  BY <1>2, <1>4, <1>6, ClientIs DEF Placed
<1>9. Sound(c, w) => Sound(c, FALSE) /\ Sound(end, FALSE) /\ Sound(que, FALSE) /\ Sound(less, FALSE)
  BY <1>2, <1>4, <1>6 DEF Sound
<1>10. Sound(c, w) /\ Ticking(c) /\ ~(c.promise = "pending" /\ c.reconnecting) => Ticking(end) /\ Ticking(que)
  BY <1>2, <1>4 DEF Ticking
<1>11. Sound(c, w) /\ c.connected => Ticking(less)  BY <1>6 DEF Ticking, Sound
<1>12. CASE c.reconnecting /\ c.retry = "none"
  <2>1. e = c  BY <1>7, <1>12
  <2> QED  BY <2>1, <1>9 DEF e
<1>13. CASE ~(c.reconnecting /\ c.retry = "none") /\ end.socket = 0
  <2>1. e = end  BY <1>7, <1>13
  <2> QED  BY <2>1, <1>2, <1>8, <1>9, <1>10 DEF e
<1>14. CASE ~(c.reconnecting /\ c.retry = "none") /\ end.socket # 0 /\ ~end.connected
  <2>1. e = que  BY <1>7, <1>14
  <2> QED  BY <2>1, <1>4, <1>8, <1>9, <1>10 DEF e
<1>15. CASE ~(c.reconnecting /\ c.retry = "none") /\ end.socket # 0 /\ end.connected /\ Conn!Throws(que)
  <2>1. e = less  BY <1>7, <1>15
  <2> QED  BY <2>1, <1>2, <1>8, <1>9, <1>11, <1>15 DEF e
<1>16. CASE ~(c.reconnecting /\ c.retry = "none") /\ end.socket # 0 /\ end.connected /\ ~Conn!Throws(que)
  <2> DEFINE f == Conn!Flush(que)
  <2>1. e = f  BY <1>7, <1>16
  <2>2. que.connected /\ que.hostIndex = Hosts  BY <1>2, <1>4, <1>16 DEF Placed
  <2>3. /\ f \in Conn!Client /\ f.state = "disconnected" /\ f.promise = que.promise
        /\ ~f.connected /\ f.reconnecting = que.reconnecting /\ ~f.notify
    BY <2>2, <1>4, <1>5, <1>8, FlushOne
  <2> HIDE DEF f
  <2>4. Placed(f) /\ Sound(f, FALSE)  BY <2>3 DEF Placed, Sound
  <2>5. Sound(c, w) => Ticking(f)  BY <2>3, <1>2, <1>4, <1>16 DEF Sound, Ticking
  <2> QED  BY <2>1, <2>3, <2>4, <2>5 DEF e
<1> QED  BY <1>12, <1>13, <1>14, <1>15, <1>16

-----------------------------------------------------------------------------
(* The steps.                                                               *)

\* Nobody who was left behind called, so the client is sound; nor did disconnect() take
\* the timer of two, so one ticks.
ConnectionInv ==
  /\ Conn!TypeOK /\ Placed(client)
  /\ ~stray => Sound(client, wanted)
  /\ ~stray /\ ~cut => Ticking(client)

\* Nothing that Sound and Placed look at is different.
Alike(c, d) ==
  /\ d.state = c.state /\ d.promise = c.promise /\ d.connected = c.connected
  /\ d.reconnecting = c.reconnecting /\ d.hostIndex = c.hostIndex /\ d.notify = c.notify

LEMMA AlikeOnes ==
  ASSUME NEW c, NEW d, Alike(c, d), NEW w
  PROVE  Sound(d, w) = Sound(c, w) /\ Placed(d) = Placed(c)
BY DEF Alike, Sound, Placed

LEMMA FreeCleared ==
  ASSUME Instance, NEW c \in Conn!Client
  PROVE  Conn!Free(Conn!Cleared(c)) = {s \in Sockets : s = c.socket \/ c.ws[s] = "none"}
<1>1. Conn!Cleared(c).ws = Left(c)  BY ClearedOne
<1> QED  BY <1>1 DEF Conn!Free, Left

LEMMA RoomGrows ==
  ASSUME Instance, NEW c \in Conn!Client, NEW d \in Conn!Client, NEW again,
         \A s \in Sockets : s = c.socket \/ c.ws[s] = "none" => s = d.socket \/ d.ws[s] = "none"
  PROVE  Conn!Room(Conn!Cleared(c), again) => Conn!Room(Conn!Cleared(d), again)
<1> DEFINE C == Conn!Free(Conn!Cleared(c))
           D == Conn!Free(Conn!Cleared(d))
<1>1. C \subseteq D  BY FreeCleared
<1> HIDE DEF C, D
<1> QED  BY <1>1 DEF Conn!Room, C, D

\* A step that leaves the application's part alone.
LEMMA Preserved ==
  ASSUME Instance, ConnectionInv, reviver' = reviver, wanted' = wanted, calls' = calls, cut' = cut,
         stray' \in BOOLEAN, ~stray' => ~stray,
         client' \in Conn!Client, Placed(client'),
         ~stray' /\ Sound(client, wanted) => Sound(client', wanted),
         ~stray' /\ Sound(client, wanted) /\ Ticking(client) => Ticking(client')
  PROVE  ConnectionInv'
<1>1. Conn!TypeOK'  BY DEF ConnectionInv, Conn!TypeOK
<1>3. Placed(client)'  BY DEF Placed
<1>4. ~stray' => Sound(client, wanted)'  BY DEF ConnectionInv, Sound
<1>5. ~stray' /\ ~cut' => Ticking(client)'  BY DEF ConnectionInv, Ticking
<1> QED  BY <1>1, <1>3, <1>4, <1>5 DEF ConnectionInv

\* An event of the socket s.
Heard(s) ==
  /\ stray' \in BOOLEAN /\ (~stray' => ~stray /\ s = client.socket)
  /\ UNCHANGED <<reviver, wanted, cut, calls>>

LEMMA EventIs ==
  ASSUME NEW s, Conn!Event(s)
  PROVE  Heard(s)
BY DEF Conn!Event, Heard

LEMMA QuietIs ==
  ASSUME ConnectionInv, UNCHANGED <<reviver, wanted, stray, cut, calls>>
  PROVE  stray' \in BOOLEAN /\ (~stray' => ~stray) /\ UNCHANGED <<reviver, wanted, cut, calls>>
BY DEF ConnectionInv, Conn!TypeOK

LEMMA ConnectStep ==
  ASSUME Instance
  PROVE  ConnectionInv /\ Conn!ConnectCall => ConnectionInv'
<1> SUFFICES ASSUME ConnectionInv, Conn!ConnectCall PROVE ConnectionInv'  OBVIOUS
<1>1. client \in Conn!Client /\ wanted \in BOOLEAN /\ Placed(client) /\ calls \in 0..MaxCalls
  BY DEF ConnectionInv, Conn!TypeOK
<1>2. Conn!Room(client, FALSE) /\ client' \in {Conn!Connect(client), Conn!ConnectRefused(client)}
      /\ wanted' = (wanted \/ client.state = "disconnected")
      /\ calls < MaxCalls /\ calls' = calls + 1 /\ reviver' = reviver /\ stray' = stray
      /\ cut' = cut
  BY DEF Conn!ConnectCall
<1>3. Conn!Free(client) # {}  BY <1>1, <1>2, FreeSockets
<1>4. /\ client' \in Conn!Client /\ Placed(client')
      /\ Sound(client, wanted) => Sound(client', wanted \/ client.state = "disconnected")
      /\ Ticking(client) => Ticking(client')
  BY <1>1, <1>2, <1>3, ConnectOne, RefusedOne
<1>5. calls' \in 0..MaxCalls  BY <1>1, <1>2 DEF Instance, Conn!ConnectionAssumption
<1>6. Conn!TypeOK'  BY <1>2, <1>4, <1>5 DEF ConnectionInv, Conn!TypeOK
<1>7. Placed(client)'  BY <1>4 DEF Placed
<1>8. ~stray' => Sound(client', wanted')  BY <1>2, <1>4 DEF ConnectionInv
<1>9. ~stray' /\ ~cut' => Ticking(client')  BY <1>2, <1>4 DEF ConnectionInv
<1> QED  BY <1>6, <1>7, <1>8, <1>9 DEF ConnectionInv, Sound, Ticking

LEMMA DisconnectStep ==
  ASSUME Instance
  PROVE  ConnectionInv /\ Conn!DisconnectCall => ConnectionInv'
<1> SUFFICES ASSUME ConnectionInv, Conn!DisconnectCall PROVE ConnectionInv'  OBVIOUS
<1>1. client \in Conn!Client /\ wanted \in BOOLEAN /\ Placed(client) /\ calls \in 0..MaxCalls
  BY DEF ConnectionInv, Conn!TypeOK
<1>2. client' = Conn!Disconnect(client) /\ wanted' = FALSE
      /\ calls < MaxCalls /\ calls' = calls + 1 /\ reviver' = reviver /\ stray' = stray
      /\ cut' = (cut \/ (client.promise = "pending" /\ client.reconnecting /\ ~client'.reconnecting))
  BY DEF Conn!DisconnectCall
<1>3. /\ client' \in Conn!Client /\ Placed(client')
      /\ Sound(client, wanted) => Sound(client', FALSE)
      /\ Sound(client, wanted) /\ Ticking(client) =>
           Ticking(client') \/ (client.promise = "pending" /\ client.reconnecting /\ ~client'.reconnecting)
  <2>1. CASE client.state = "disconnected"
    <3>1. client' = client  BY <1>2, <2>1 DEF Conn!Disconnect
    <3>2. Sound(client, wanted) => Sound(client, FALSE)  BY DEF Sound
    <3> QED  BY <3>1, <3>2, <1>1
  <2>2. CASE client.state # "disconnected"
    <3>1. client' = Conn!ClientDisconnect(client)  BY <1>2, <2>2 DEF Conn!Disconnect
    <3> QED  BY <3>1, <2>2, <1>1, ClientDisconnectOne
  <2> QED  BY <2>1, <2>2
<1>5. calls' \in 0..MaxCalls  BY <1>1, <1>2 DEF Instance, Conn!ConnectionAssumption
<1>6. Conn!TypeOK'  BY <1>2, <1>3, <1>5 DEF ConnectionInv, Conn!TypeOK
<1>7. Placed(client)'  BY <1>3 DEF Placed
<1>8. ~stray' => Sound(client', wanted')  BY <1>2, <1>3 DEF ConnectionInv
<1>9. ~stray' /\ ~cut' => Ticking(client')  BY <1>2, <1>3 DEF ConnectionInv
<1> QED  BY <1>6, <1>7, <1>8, <1>9 DEF ConnectionInv, Sound, Ticking

\* A publication, a PINGREQ and a PINGRESP: the pinger.
LEMMA PingerStep ==
  ASSUME Instance, ConnectionInv, NEW p \in {"off", "fresh", "asked"}, client' = [client EXCEPT !.pinger = p],
         UNCHANGED <<reviver, wanted, stray, cut, calls>>
  PROVE  ConnectionInv'
<1>1. client \in Records /\ p \in Pingers  BY ClientIs DEF ConnectionInv, Conn!TypeOK
<1>2. /\ client' \in Records /\ Alike(client, client') /\ client'.connectTimer = client.connectTimer
      /\ client'.retry = client.retry /\ client'.orphans = client.orphans
  BY <1>1 DEF Records, Alike
<1>3. Placed(client') /\ (Sound(client, wanted) => Sound(client', wanted))
  BY <1>2, AlikeOnes DEF ConnectionInv
<1>4. Ticking(client) => Ticking(client')  BY <1>2 DEF Ticking, Alike
<1> QED  BY <1>2, <1>3, <1>4, ClientIs, QuietIs, Preserved

LEMMA OpenStep ==
  ASSUME Instance
  PROVE  \A s \in Sockets : ConnectionInv /\ Conn!SocketOpens(s) => ConnectionInv'
<1> SUFFICES ASSUME NEW s \in Sockets, ConnectionInv, Conn!SocketOpens(s) PROVE ConnectionInv'  OBVIOUS
<1> DEFINE w == [client.ws EXCEPT ![s] = "open"]
           c == [client EXCEPT !.ws = w]
<1>1. client \in Records /\ client.ws \in Wss /\ "fresh" \in Pingers
  <2>1. client \in Conn!Client  BY DEF ConnectionInv, Conn!TypeOK
  <2> QED  BY <2>1, ClientIs, FieldsOf
<1>2. w \in Wss  BY <1>1 DEF Wss
<1> HIDE DEF w
<1>3. /\ c \in Records /\ Alike(client, c) /\ c.connectTimer = client.connectTimer
      /\ c.retry = client.retry /\ c.orphans = client.orphans /\ c.socket = client.socket
  BY <1>1, <1>2 DEF Records, Alike
<1>4. client' = Conn!Hello(c) /\ Heard(s)
  BY EventIs DEF Conn!SocketOpens, w
<1> HIDE DEF c
<1> DEFINE v == IF c.asked[c.socket] = "no" THEN "connect" ELSE "broken"
           a == [c.asked EXCEPT ![c.socket] = v]
<1>5. c.asked \in Seen  BY <1>3 DEF Records
<1>6. a \in Seen  BY <1>5 DEF Seen
<1>7. \/ client' = c \/ client' = [c EXCEPT !.pinger = "fresh"]
      \/ client' = [c EXCEPT !.pinger = "fresh", !.asked = a]
  BY <1>4 DEF Conn!Hello
<1> HIDE DEF a
<1>8. /\ client' \in Records /\ Alike(c, client') /\ client'.connectTimer = c.connectTimer
      /\ client'.retry = c.retry /\ client'.orphans = c.orphans
  BY <1>1, <1>3, <1>6, <1>7 DEF Records, Alike
<1>9. Alike(client, client')  BY <1>3, <1>8 DEF Alike
<1>10. Placed(client') /\ (Sound(client, wanted) => Sound(client', wanted))
  BY <1>9, AlikeOnes DEF ConnectionInv
<1>11. Ticking(client) => Ticking(client')  BY <1>3, <1>8, <1>9 DEF Ticking, Alike
<1> QED  BY <1>4, <1>8, <1>10, <1>11, ClientIs, Preserved DEF Heard

\* What the application does when it hears of a loss.
LEMMA AgainIs ==
  ASSUME NEW again \in Conn!Again, wanted \in BOOLEAN
  PROVE  again \in BOOLEAN /\ (again => wanted /\ reviver \in {"app", "both"})
BY DEF Conn!Again

\* A failure, of a client that is as it was but for its timers and sockets.
LEMMA FailureStep ==
  ASSUME Instance, ConnectionInv, NEW c \in Conn!Client, Alike(client, c), NEW again \in Conn!Again,
         Conn!RoomToFail(again), Conn!Room(Conn!Cleared(client), again) => Conn!Room(Conn!Cleared(c), again),
         client' = Conn!Disconnected(c, TRUE, again),
         stray' \in BOOLEAN, ~stray' => ~stray, UNCHANGED <<reviver, wanted, cut, calls>>
  PROVE  ConnectionInv'
<1>1. wanted \in BOOLEAN /\ Placed(client)  BY DEF ConnectionInv, Conn!TypeOK
<1>2. Placed(c) /\ Sound(c, wanted) = Sound(client, wanted)  BY <1>1, AlikeOnes
<1>3. Roomy(c, TRUE, again)  BY DEF Conn!RoomToFail, Roomy, Alike
<1>4. again \in BOOLEAN /\ (again => wanted /\ reviver \in {"app", "both"})  BY <1>1, AgainIs
<1>5. /\ client' \in Conn!Client /\ Placed(client')
      /\ Sound(c, wanted) => Sound(client', wanted)
      /\ Sound(c, wanted) /\ (c.reconnecting => TRUE) => Ticking(client')
  BY <1>1, <1>2, <1>3, <1>4, DisconnectedOne
<1> QED  BY <1>2, <1>5, Preserved

\* A CONNACK that accepts, of any socket.
LEMMA AcceptStep ==
  ASSUME Instance
  PROVE  \A s \in Sockets : ConnectionInv /\ Conn!Accepts(s) => ConnectionInv'
<1> SUFFICES ASSUME NEW s \in Sockets, ConnectionInv, Conn!Accepts(s) PROVE ConnectionInv'  OBVIOUS
<1> DEFINE a == [client.asked EXCEPT ![s] = "acked"]
           c == [client EXCEPT !.asked = a]
<1>1. client \in Conn!Client /\ wanted \in BOOLEAN /\ Placed(client)
  BY DEF ConnectionInv, Conn!TypeOK
<1>2. client \in Records /\ client.asked \in Seen  BY <1>1, FieldsOf
<1>3. a \in Seen  BY <1>2 DEF Seen
<1>4. PICK n \in Backlogs, again \in Conn!Again :
        /\ Conn!Room(Conn!Cleared(client), again)
        /\ LET d == [client EXCEPT !.asked[s] = "acked"] IN
           client' = Conn!Answered(d, Conn!Connack(d, n, again), again)
  BY DEF Conn!Accepts
<1>5. client' = Conn!Answered(c, Conn!Connack(c, n, again), again)  BY <1>4
<1> HIDE DEF a
<1>6. /\ c \in Records /\ Alike(client, c) /\ c.ws = client.ws /\ c.socket = client.socket
  BY <1>2, <1>3 DEF Records, Alike
<1> HIDE DEF c
<1>7. c \in Conn!Client /\ Conn!Room(Conn!Cleared(c), again)
  BY <1>1, <1>4, <1>6, ClientIs, RoomGrows
<1>8. n \in Nat /\ again \in BOOLEAN /\ (again => wanted /\ reviver \in {"app", "both"})
  BY <1>1, <1>4, AgainIs DEF Instance, Conn!ConnectionAssumption
<1>9. Heard(s)  BY EventIs DEF Conn!Accepts
<1>10. CASE c.connectTimer = "none"
  <2>1. client' = Conn!Disconnected(c, TRUE, again)  BY <1>5, <1>10 DEF Conn!Answered
  <2>2. Conn!RoomToFail(again)  BY <1>4 DEF Conn!RoomToFail
  <2> QED  BY <1>4, <1>6, <1>7, <1>9, <2>1, <2>2, FailureStep DEF Heard
<1>11. CASE c.connectTimer # "none"
  <2>1. client' = Conn!Connack(c, n, again)  BY <1>5, <1>11 DEF Conn!Answered
  <2>2. /\ client' \in Conn!Client /\ Placed(client')
        /\ Sound(c, wanted) /\ Conn!Sendable(c) => Sound(client', wanted) /\ Ticking(client')
    BY <1>1, <1>7, <1>8, <2>1, ConnackOne
  <2>3. ~stray' => Conn!Sendable(c)
    <3>1. client.ws[s] = "open" /\ 0 \notin Sockets
      BY DEF Instance, Conn!ConnectionAssumption, Conn!Accepts
    <3> QED  BY <1>6, <1>9, <3>1 DEF Conn!Sendable, Heard
  <2>4. Sound(client, wanted) => Sound(c, wanted)  BY <1>6, AlikeOnes
  <2> QED  BY <1>9, <2>2, <2>3, <2>4, Preserved DEF Heard
<1> QED  BY <1>10, <1>11

\* And one that refuses.
LEMMA RefuseStep ==
  ASSUME Instance
  PROVE  \A s \in Sockets : ConnectionInv /\ Conn!Refuses(s) => ConnectionInv'
<1> SUFFICES ASSUME NEW s \in Sockets, ConnectionInv, Conn!Refuses(s) PROVE ConnectionInv'  OBVIOUS
<1> DEFINE a == [client.asked EXCEPT ![s] = "broken"]
           b == [client EXCEPT !.asked = a]
           c == IF client.connectTimer = "none" THEN b
                ELSE [b EXCEPT !.connectTimer = Conn!Cancelled(@), !.retry = Conn!Cancelled(@)]
<1>1. client \in Conn!Client /\ client \in Records /\ client.asked \in Seen
  <2>1. client \in Conn!Client  BY DEF ConnectionInv, Conn!TypeOK
  <2> QED  BY <2>1, FieldsOf
<1>2. /\ a \in Seen /\ Conn!Cancelled(client.connectTimer) \in Conn!Timer
      /\ Conn!Cancelled(client.retry) \in Conn!Timer
  BY <1>1 DEF Seen, Records, Conn!Cancelled, Conn!Timer
<1>3. PICK again \in Conn!Again :
        /\ Conn!RoomToFail(again)
        /\ LET d == [client EXCEPT !.asked[s] = "broken"] IN
           client' = Conn!Answered(d, Conn!Refused(d, again), again)
  BY DEF Conn!Refuses
<1>4. client' = Conn!Disconnected(c, TRUE, again)
  <2>1. b.connectTimer = client.connectTimer  BY <1>1 DEF Records
  <2>2. client' = Conn!Answered(b, Conn!Refused(b, again), again)  BY <1>3
  <2> HIDE DEF b
  <2> QED  BY <2>1, <2>2 DEF Conn!Answered, Conn!Refused
<1> HIDE DEF a
<1>5. /\ c \in Records /\ Alike(client, c) /\ c.ws = client.ws /\ c.socket = client.socket
  BY <1>1, <1>2 DEF Records, Alike
<1> HIDE DEF c
<1>6. c \in Conn!Client /\ (Conn!Room(Conn!Cleared(client), again) => Conn!Room(Conn!Cleared(c), again))
  BY <1>1, <1>5, ClientIs, RoomGrows
<1>7. Heard(s)  BY EventIs DEF Conn!Refuses
<1> QED  BY <1>3, <1>4, <1>5, <1>6, <1>7, FailureStep DEF Heard

\* An error and the end of a socket, which a reconnection ignores.
LEMMA DroppedStep ==
  ASSUME Instance, ConnectionInv, NEW c \in Conn!Client, Alike(client, c), NEW again \in Conn!Again,
         Conn!RoomToFail(again),
         c.connectTimer = client.connectTimer, c.retry = client.retry, c.orphans = client.orphans,
         \A t \in Sockets : t = client.socket \/ client.ws[t] = "none" => t = c.socket \/ c.ws[t] = "none",
         client' = Conn!Dropped(c, again),
         stray' \in BOOLEAN, ~stray' => ~stray, UNCHANGED <<reviver, wanted, cut, calls>>
  PROVE  ConnectionInv'
<1>1. client \in Conn!Client  BY DEF ConnectionInv, Conn!TypeOK
<1>2. CASE c.reconnecting
  <2>1. client' = c  BY <1>2 DEF Conn!Dropped
  <2>2. Placed(c) /\ (Sound(client, wanted) => Sound(c, wanted))  BY AlikeOnes DEF ConnectionInv
  <2>3. Ticking(client) => Ticking(c)  BY DEF Ticking, Alike
  <2> QED  BY <2>1, <2>2, <2>3, Preserved
<1>3. CASE ~c.reconnecting
  <2>1. client' = Conn!Disconnected(c, TRUE, again)  BY <1>3 DEF Conn!Dropped
  <2>2. Conn!Room(Conn!Cleared(client), again) => Conn!Room(Conn!Cleared(c), again)
    BY <1>1, RoomGrows
  <2> QED  BY <2>1, <2>2, FailureStep
<1> QED  BY <1>2, <1>3

LEMMA ErrStep ==
  ASSUME Instance
  PROVE  \A s \in Sockets : ConnectionInv /\ Conn!SocketErrs(s) => ConnectionInv'
<1> SUFFICES ASSUME NEW s \in Sockets, ConnectionInv, Conn!SocketErrs(s) PROVE ConnectionInv'  OBVIOUS
<1> DEFINE w == [client.ws EXCEPT ![s] = "erred"]
           c == [client EXCEPT !.ws = w]
<1>1. client \in Conn!Client /\ client \in Records /\ client.ws \in Wss
  <2>1. client \in Conn!Client  BY DEF ConnectionInv, Conn!TypeOK
  <2> QED  BY <2>1, FieldsOf
<1>2. w \in Wss /\ \A t \in Sockets : client.ws[t] = "none" /\ t # s => w[t] = "none"
  BY <1>1 DEF Wss
<1>3. client.ws[s] # "none"  BY DEF Conn!SocketErrs
<1>4. PICK again \in Conn!Again :
        Conn!RoomToFail(again) /\ client' = Conn!Dropped([client EXCEPT !.ws[s] = "erred"], again)
  BY DEF Conn!SocketErrs
<1>5. client' = Conn!Dropped(c, again)  BY <1>4
<1> HIDE DEF w
<1>6. /\ c \in Records /\ Alike(client, c) /\ c.ws = w /\ c.socket = client.socket
      /\ c.connectTimer = client.connectTimer /\ c.retry = client.retry
      /\ c.orphans = client.orphans
  BY <1>1, <1>2 DEF Records, Alike
<1> HIDE DEF c
<1>7. Heard(s)  BY EventIs DEF Conn!SocketErrs
<1>8. \A t \in Sockets : t = client.socket \/ client.ws[t] = "none" => t = c.socket \/ c.ws[t] = "none"
  BY <1>2, <1>3, <1>6
<1> QED  BY <1>4, <1>5, <1>6, <1>7, <1>8, ClientIs, DroppedStep DEF Heard

LEMMA CloseStep ==
  ASSUME Instance
  PROVE  \A s \in Sockets : ConnectionInv /\ Conn!SocketCloses(s) => ConnectionInv'
<1> SUFFICES ASSUME NEW s \in Sockets, ConnectionInv, Conn!SocketCloses(s) PROVE ConnectionInv'  OBVIOUS
<1> DEFINE w == [client.ws EXCEPT ![s] = IF s = client.socket THEN "closed" ELSE "none"]
           a == IF s = client.socket THEN client.asked ELSE [client.asked EXCEPT ![s] = "no"]
           c == [client EXCEPT !.ws = w, !.asked = a]
<1>1. client \in Conn!Client /\ client \in Records /\ client.ws \in Wss /\ client.asked \in Seen
  <2>1. client \in Conn!Client  BY DEF ConnectionInv, Conn!TypeOK
  <2> QED  BY <2>1, FieldsOf
<1>2. w \in Wss /\ \A t \in Sockets : client.ws[t] = "none" /\ t # client.socket => w[t] = "none"
  BY <1>1 DEF Wss
<1>3. a \in Seen  BY <1>1 DEF Seen
<1>4. PICK again \in Conn!Again :
        /\ Conn!RoomToFail(again)
        /\ client' = Conn!Dropped(IF s = client.socket THEN [client EXCEPT !.ws[s] = "closed"]
                                  ELSE [client EXCEPT !.ws[s] = "none", !.asked[s] = "no"], again)
  BY DEF Conn!SocketCloses
<1>5. client' = Conn!Dropped(c, again)
  <2>1. CASE s = client.socket
    <3>1. c = [client EXCEPT !.ws = [client.ws EXCEPT ![s] = "closed"], !.asked = client.asked]
      BY <2>1
    <3>2. c = [client EXCEPT !.ws[s] = "closed"]  BY <3>1, <1>1 DEF Records
    <3> QED  BY <3>2, <2>1, <1>4
  <2>2. CASE s # client.socket
    <3>1. c = [client EXCEPT !.ws[s] = "none", !.asked[s] = "no"]  BY <2>2
    <3> QED  BY <3>1, <2>2, <1>4
  <2> QED  BY <2>1, <2>2
<1> HIDE DEF w, a
<1>6. /\ c \in Records /\ Alike(client, c) /\ c.ws = w /\ c.socket = client.socket
      /\ c.connectTimer = client.connectTimer /\ c.retry = client.retry
      /\ c.orphans = client.orphans
  BY <1>1, <1>2, <1>3 DEF Records, Alike
<1> HIDE DEF c
<1>7. Heard(s)  BY EventIs DEF Conn!SocketCloses
<1>8. \A t \in Sockets : t = client.socket \/ client.ws[t] = "none" => t = c.socket \/ c.ws[t] = "none"
  BY <1>2, <1>6
<1> QED  BY <1>4, <1>5, <1>6, <1>7, <1>8, ClientIs, DroppedStep DEF Heard

LEMMA TimeoutStep ==
  ASSUME Instance
  PROVE  ConnectionInv /\ (Conn!ConnectTimeout \/ Conn!PingTimeout) => ConnectionInv'
<1> SUFFICES ASSUME ConnectionInv, Conn!ConnectTimeout \/ Conn!PingTimeout PROVE ConnectionInv'  OBVIOUS
<1>1. client \in Conn!Client /\ client \in Records /\ "spent" \in Conn!Timer /\ "off" \in Pingers
  BY ClientIs DEF ConnectionInv, Conn!TypeOK
<1>2. stray' \in BOOLEAN /\ (~stray' => ~stray) /\ UNCHANGED <<reviver, wanted, cut, calls>>
  BY QuietIs DEF Conn!ConnectTimeout, Conn!PingTimeout, Conn!Fires
<1>3. PICK again \in Conn!Again,
              c \in {[client EXCEPT !.connectTimer = "spent"], [client EXCEPT !.pinger = "off"]} :
        Conn!RoomToFail(again) /\ client' = Conn!Disconnected(c, TRUE, again)
  BY DEF Conn!ConnectTimeout, Conn!PingTimeout
<1>4. c \in Records /\ Alike(client, c) /\ c.ws = client.ws /\ c.socket = client.socket
  BY <1>1, <1>3 DEF Records, Alike
<1>5. c \in Conn!Client /\ (Conn!Room(Conn!Cleared(client), again) => Conn!Room(Conn!Cleared(c), again))
  BY <1>1, <1>4, ClientIs, RoomGrows
<1> QED  BY <1>2, <1>3, <1>4, <1>5, FailureStep

LEMMA RetryStep ==
  ASSUME Instance
  PROVE  ConnectionInv /\ (Conn!RetryFires \/ Conn!OrphanFires) => ConnectionInv'
<1> SUFFICES ASSUME ConnectionInv, Conn!RetryFires \/ Conn!OrphanFires PROVE ConnectionInv'  OBVIOUS
<1>1. /\ client \in Conn!Client /\ client \in Records /\ "spent" \in Conn!Timer
      /\ client.orphans \in Nat
  <2>1. client \in Conn!Client  BY DEF ConnectionInv, Conn!TypeOK
  <2> QED  BY <2>1, ClientIs, FieldsOf
<1>2. stray' \in BOOLEAN /\ (~stray' => ~stray) /\ UNCHANGED <<reviver, wanted, cut, calls>>
      /\ Conn!Room(client, FALSE)
  BY QuietIs DEF Conn!RetryFires, Conn!OrphanFires, Conn!Fires
<1>3. PICK c : /\ \/ c = [client EXCEPT !.retry = "spent"]
                  \/ client.orphans > 0 /\ c = [client EXCEPT !.orphans = @ - 1]
               /\ client' = Conn!Reconnects(c)
  <2>1. CASE Conn!RetryFires  BY <2>1 DEF Conn!RetryFires
  <2>2. CASE Conn!OrphanFires
    <3>1. client.orphans > 0 /\ client' = Conn!Reconnects([client EXCEPT !.orphans = @ - 1])
      BY <2>2 DEF Conn!OrphanFires
    <3> QED  BY <3>1
  <2> QED  BY <2>1, <2>2
<1>4. client.orphans > 0 => client.orphans - 1 \in Numbers  BY <1>1 DEF Numbers
<1>5. c \in Records /\ Alike(client, c) /\ c.ws = client.ws  BY <1>1, <1>3, <1>4 DEF Records, Alike
<1>6. c \in Conn!Client /\ Conn!Free(c) # {}
  BY <1>1, <1>2, <1>5, FreeSockets, ClientIs DEF Conn!Free
<1>7. Placed(c) /\ (Sound(client, wanted) => Sound(c, wanted))  BY <1>5, AlikeOnes DEF ConnectionInv
<1>8. /\ client' \in Conn!Client /\ SameStory(c, client') /\ (c.connected => client' = c)
      /\ ~c.connected => ~client'.connected /\ client'.connectTimer = "armed"
  BY <1>3, <1>6, ReconnectsOne
<1>9. CASE c.connected
  <2>1. Sound(c, wanted) => Ticking(c)  BY <1>9 DEF Sound, Ticking
  <2> QED  BY <2>1, <1>2, <1>7, <1>8, <1>9, Preserved
<1>10. CASE ~c.connected
  <2>1. Placed(client') /\ Ticking(client')  BY <1>8, <1>10 DEF Placed, Ticking
  <2>2. Sound(c, wanted) => Sound(client', wanted)  BY <1>8, <1>10 DEF Sound, SameStory
  <2> QED  BY <2>1, <2>2, <1>2, <1>7, <1>8, Preserved
<1> QED  BY <1>9, <1>10

LEMMA ConnectionInit ==
  ASSUME Instance
  PROVE  Conn!Init => ConnectionInv
<1> SUFFICES ASSUME Conn!Init PROVE ConnectionInv  OBVIOUS
<1>1. client \in Conn!Client
  BY DEF Instance, Conn!ConnectionAssumption, Conn!Init, Conn!Client, Conn!Timer
<1>2. /\ client.connected = FALSE /\ client.state = "disconnected" /\ client.promise = "none"
      /\ client.reconnecting = FALSE /\ client.notify = FALSE
  BY DEF Conn!Init
<1>3. Conn!TypeOK
  <2>1. reviver \in Revivers /\ {wanted, stray, cut} \subseteq BOOLEAN  BY DEF Conn!Init
  <2>2. calls \in 0..MaxCalls  BY DEF Instance, Conn!ConnectionAssumption, Conn!Init
  <2> QED  BY <1>1, <2>1, <2>2 DEF Conn!TypeOK
<1> QED  BY <1>2, <1>3 DEF ConnectionInv, Placed, Sound, Ticking

LEMMA ConnectionStep ==
  ASSUME Instance
  PROVE  ConnectionInv /\ [Conn!Next]_Conn!vars => ConnectionInv'
<1> SUFFICES ASSUME ConnectionInv, [Conn!Next]_Conn!vars PROVE ConnectionInv'  OBVIOUS
<1>1. CASE Conn!ConnectCall  BY <1>1, ConnectStep
<1>2. CASE Conn!DisconnectCall  BY <1>2, DisconnectStep
<1>3. CASE Conn!Publish  BY <1>3, PingerStep DEF Conn!Publish
<1>4. ASSUME NEW s \in Sockets,
             \/ Conn!SocketOpens(s) \/ Conn!Accepts(s) \/ Conn!Refuses(s)
             \/ Conn!SocketErrs(s) \/ Conn!SocketCloses(s)
      PROVE  ConnectionInv'
  BY <1>4, OpenStep, AcceptStep, RefuseStep, ErrStep, CloseStep
<1>5. CASE Conn!ConnectTimeout \/ Conn!PingTimeout  BY <1>5, TimeoutStep
<1>6. CASE Conn!RetryFires \/ Conn!OrphanFires  BY <1>6, RetryStep
<1>7. CASE Conn!Ping \/ Conn!Pong
  <2>1. UNCHANGED <<reviver, wanted, stray, cut, calls>>
    BY <1>7 DEF Conn!Ping, Conn!Pong, Conn!Fires
  <2> QED  BY <2>1, <1>7, PingerStep DEF Conn!Ping, Conn!Pong
<1>8. CASE UNCHANGED Conn!vars
  BY <1>8 DEF Conn!vars, ConnectionInv, Conn!TypeOK, Placed, Sound, Ticking
<1> QED  BY <1>1, <1>2, <1>3, <1>4, <1>5, <1>6, <1>7, <1>8 DEF Conn!Next


LEMMA InstanceHolds == Instance
BY ConnectionAssumption DEF Instance, Conn!ConnectionAssumption

\* Every variable of the connection keeps its type.
THEOREM ConnectionTypesHold ==
  Conn!Spec => []Conn!TypeOK
<1>1. Conn!Init => ConnectionInv  BY ConnectionInit, InstanceHolds
<1>2. ConnectionInv /\ [Conn!Next]_Conn!vars => ConnectionInv'  BY ConnectionStep, InstanceHolds
<1>3. ConnectionInv => Conn!TypeOK  BY DEF ConnectionInv
<1> QED  BY <1>1, <1>2, <1>3, PTL DEF Conn!Spec

\* A connect() that waits and a reconnection always have a timer that ends the attempt
\* or begins the next (_doConnect and _disconnected, paho-mqtt.js:1067 and 1559), unless
\* a socket that was left behind called or disconnect() took the timer of both.
THEOREM NeverStalls ==
  Conn!Spec => []NeverStalled
<1>1. Conn!Init => ConnectionInv  BY ConnectionInit, InstanceHolds
<1>2. ConnectionInv /\ [Conn!Next]_Conn!vars => ConnectionInv'  BY ConnectionStep, InstanceHolds
<1>3. ConnectionInv => NeverStalled  BY DEF ConnectionInv, Ticking, NeverStalled
<1> QED  BY <1>1, <1>2, <1>3, PTL DEF Conn!Spec

\* connectionState says connected while the client is, and otherwise only after a
\* disconnect() (onSuccess, onFailure and onConnectionLost, index.ts:203-218), unless a
\* socket that was left behind called.
THEOREM StateIsTrue ==
  Conn!Spec => []StateAgrees
<1>1. Conn!Init => ConnectionInv  BY ConnectionInit, InstanceHolds
<1>2. ConnectionInv /\ [Conn!Next]_Conn!vars => ConnectionInv'  BY ConnectionStep, InstanceHolds
<1>3. ConnectionInv => StateAgrees  BY DEF ConnectionInv, Sound, StateAgrees
<1> QED  BY <1>1, <1>2, <1>3, PTL DEF Conn!Spec
=============================================================================
