----------------------------- MODULE MqttDelivery -----------------------------
(***************************************************************************)
(* The messages of the MQTT client: identifiers, the messages in flight,   *)
(* the handshakes of QoS 1 and 2 in both directions and the promises of    *)
(* subscribe() and unsubscribe(), across lost connections and restarts of  *)
(* the program (paho-mqtt.js, with the wrapper in index.ts).               *)
(*                                                                         *)
(* A connection is two FIFO channels whose content is lost with it; how it *)
(* comes and goes is in MqttConnection.  A packet carries the message it   *)
(* is about, in `job`, also where the wire has an identifier only: this is *)
(* what the properties look at, and no handler does.  The server is        *)
(* external and does what the protocol asks of it.                         *)
(*                                                                         *)
(* An operator commented "Fault:" is a wrong variant of the definition     *)
(* after it; the specification does not use it.                            *)
(***************************************************************************)
EXTENDS Naturals, Sequences, FiniteSets, SequencesExt

CONSTANTS
  MaxId,        \* maxMessageIdentifier, 2^16 in the code
  Kinds,        \* what the application does, a subset of Calls
  MailQos,      \* qualities of service the server uses, a subset of 0..2
  Durable,      \* whether there is a localStorage that survives the program; without
                \* one the library has an object of its own
  Sessions,     \* the values of cleanSession to consider
  MaxJobs,      \* bound: calls of the application
  MaxMails,     \* bound: messages from the server
  MaxDrops,     \* bound: lost connections
  MaxRestarts   \* bound: restarts of the program

\* The calls of the application, with a timeout where it says so.
Publishes == {"qos0", "qos1", "qos2"}
Timed     == {"subscribe timed", "unsubscribe timed"}
Subscribes == {"subscribe", "subscribe timed"}
Unsubscribes == {"unsubscribe", "unsubscribe timed"}
Calls     == Publishes \cup Subscribes \cup Unsubscribes

ASSUME DeliveryAssumption ==
  /\ MaxId \in Nat \ {0}
  /\ Kinds \subseteq Calls /\ MailQos \subseteq 0..2 /\ Sessions \subseteq BOOLEAN /\ Durable \in BOOLEAN
  /\ {MaxJobs, MaxMails, MaxDrops, MaxRestarts} \subseteq Nat

Jobs  == 1..MaxJobs
Mails == 1..MaxMails

VARIABLES
  clean,     \* connectOptions.cleanSession, fixed in Init
  conn,      \* "down", "opening" until the CONNACK, "up"
  sent,      \* _sentMessages
  received,  \* _receivedMessages
  saved,     \* localStorage, "Sent:"
  savedIn,   \* localStorage, "Received:"
  nextId,    \* _message_identifier
  nextSeq,   \* _sequence
  timers,    \* the calls whose Timeout runs
  up, down,  \* packets on their way to the server and back
  kind,      \* per job, the call it was
  told,      \* per job, what the application was told: "none", "pending",
             \* "done", "failed", or "lost" with the program that waited
  held,      \* at the server: identifiers of QoS 2 messages not released yet
  mail,      \* at the server: its messages
  taken,     \* how often the server took each job's message (history)
  arrived,   \* how often onMessageArrived was called for each mail (history)
  drops, restarts

clientVars == <<sent, received, saved, savedIn, nextId, nextSeq, timers>>
serverVars == <<held, mail>>
callVars   == <<kind, told>>
faultVars  == <<clean, drops, restarts>>
vars == <<clean, conn, sent, received, saved, savedIn, nextId, nextSeq, timers, up, down,
          kind, told, held, mail, taken, arrived, drops, restarts>>

\* A message in flight: its identifier, whether a PUBREC has come, and its
\* place in the order of sending, 0 when it has none.
Ids     == 1..(MaxId + MaxJobs)
Entry   == [id : Ids, job : Jobs, rel : BOOLEAN, seq : 0..MaxJobs]
Arrival == [id : Mails, job : Mails]
Stage   == {"unsent", "sent", "released", "done", "lost"}

Packet(type, id, job) == [type |-> type, id |-> id, job |-> job]

Init ==
  /\ clean \in Sessions
  /\ conn = "down"
  /\ sent = {} /\ received = {} /\ saved = {} /\ savedIn = {}
  /\ nextId = 1 /\ nextSeq = 0 /\ timers = {}
  /\ up = <<>> /\ down = <<>>
  /\ kind = [j \in Jobs |-> "none"] /\ told = [j \in Jobs |-> "none"]
  /\ held = {}
  /\ mail = [n \in Mails |-> [qos |-> 0, id |-> n, stage |-> "unsent"]]
  /\ taken = [j \in Jobs |-> 0] /\ arrived = [n \in Mails |-> 0]
  /\ drops = 0 /\ restarts = 0

-----------------------------------------------------------------------------
(* Calls of the application.                                               *)

\* Fault: the search for an identifier does not look at what is in flight.
FreeId_Blind == nextId

\* The identifier of the next message that needs an answer: from where the last
\* one stopped, past those in flight.
FreeId == CHOOSE i \in Ids :
  /\ i >= nextId /\ \A e \in sent : e.id # i
  /\ \A k \in nextId..(i - 1) : \E e \in sent : e.id = k

TypeOf(k) == CASE k \in Publishes -> "PUBLISH" [] k \in Subscribes -> "SUBSCRIBE"
               [] k \in Unsubscribes -> "UNSUBSCRIBE"

\* 16 bits on the wire.
WireId(id) == id % MaxId

\* A call is numbered when it is made (bound: MaxJobs).
Called(j, k) ==
  /\ kind[j] = "none" /\ \A i \in 1..(j - 1) : kind[i] # "none"
  /\ kind' = [kind EXCEPT ![j] = k]

\* _requires_ack, for a message of its place `seq`.  It throws when too many
\* are in flight.
RequiresAck(j, seq) ==
  /\ Cardinality(sent) <= MaxId
  /\ sent' = sent \cup {[id |-> FreeId, job |-> j, rel |-> FALSE, seq |-> seq]}
  /\ nextId' = IF FreeId = MaxId THEN 1 ELSE FreeId

\* send() throws without a connection: the wrapper has no disconnectedPublishing.
\* A QoS 0 message is reported delivered before it is sent.
PublishCall(j) ==
  /\ conn = "up"
  /\ \E k \in Kinds \cap Publishes :
       /\ Called(j, k)
       /\ IF k = "qos0"
          THEN /\ told' = [told EXCEPT ![j] = "done"]
               /\ up' = Append(up, Packet("PUBLISH", 0, j))
               /\ UNCHANGED clientVars
          ELSE /\ told' = [told EXCEPT ![j] = "pending"]
               /\ RequiresAck(j, nextSeq + 1)
               /\ nextSeq' = nextSeq + 1
               /\ saved' = saved \cup (sent' \ sent)
               /\ up' = Append(up, Packet("PUBLISH", WireId(FreeId), j))
               /\ UNCHANGED <<received, savedIn, timers>>
  /\ UNCHANGED <<conn, down, serverVars, taken, arrived, faultVars>>

\* subscribe() and unsubscribe(): never stored, and without a place in the order.
SubscribeCall(j) ==
  /\ conn = "up"
  /\ \E k \in Kinds \cap (Subscribes \cup Unsubscribes) :
       /\ Called(j, k)
       /\ timers' = IF k \in Timed THEN timers \cup {j} ELSE timers
       /\ up' = Append(up, Packet(TypeOf(k), WireId(FreeId), j))
  /\ told' = [told EXCEPT ![j] = "pending"]
  /\ RequiresAck(j, 0)
  /\ UNCHANGED <<conn, received, saved, savedIn, nextSeq, down, serverVars, taken, arrived,
                 faultVars>>

\* The callbacks of the wrapper: a promise is settled once.
Settled(jobs, answer) ==
  [j \in Jobs |-> IF told[j] = "pending" /\ j \in jobs THEN answer ELSE told[j]]

\* The Timeout of a subscription: the promise is rejected, the message stays in
\* flight, and an answer that comes after all is an event without a promise.
TimesOut(j) ==
  /\ j \in timers
  /\ timers' = timers \ {j}
  /\ told' = Settled({j}, "failed")
  /\ UNCHANGED <<conn, sent, received, saved, savedIn, nextId, nextSeq, up, down, kind,
                 serverVars, taken, arrived, faultVars>>

-----------------------------------------------------------------------------
(* Packets the client receives.                                            *)

\* The first packet from the server, of this type; the answer of the client, if
\* any, goes out in the same step.
Receives(type, answer) ==
  /\ conn = "up" /\ down # <<>> /\ Head(down).type = type
  /\ down' = Tail(down) /\ up' = up \o answer
  /\ UNCHANGED <<conn, nextId, nextSeq, kind, serverVars, taken, faultVars>>

Under(id) == {e \in sent : e.id = id}

\* Fault: a message whose PUBREC has come is published again.
Again_Publish(e) == Packet(TypeOf(kind[e.job]), WireId(e.id), e.job)

\* What is sent again for a message in flight: the PUBREL of one whose PUBREC
\* has come, else the message itself.
Again(e) == Packet(IF e.rel THEN "PUBREL" ELSE TypeOf(kind[e.job]), WireId(e.id), e.job)

\* Fault: only what is stored is sent again.
Resent_Stored(S) == SetToSeqs({e \in S : kind[e.job] \in Publishes})

\* Array.sort() over the messages as they come out of the object, by identifier.
Before(a, b) == a.seq < b.seq \/ (a.seq = b.seq /\ a.id < b.id)

\* The messages in the order they are sent again: that of their places.  A
\* subscription has none, the comparison is NaN, and any order may come out.
Resent(S) ==
  {s \in SetToSeqs(S) :
     (\A e \in S : kind[e.job] \in Publishes) =>
       \A i, j \in DOMAIN s : i < j => Before(s[i], s[j])}

\* CONNACK: a clean session forgets everything, then what is left is sent again.
Connack ==
  /\ conn = "opening" /\ down # <<>>
  /\ conn' = "up"
  /\ down' = Tail(down)
  /\ sent' = IF clean THEN {} ELSE sent
  /\ saved' = IF clean THEN saved \ {e \in saved : e.id \in {s.id : s \in sent}} ELSE saved
  /\ received' = IF clean THEN {} ELSE received
  /\ savedIn' = IF clean THEN savedIn \ received ELSE savedIn
  /\ \E order \in Resent(sent') : up' = up \o [i \in DOMAIN order |-> Again(order[i])]
  /\ UNCHANGED <<nextId, nextSeq, timers, callVars, serverVars, taken, arrived, faultVars>>

\* What localStorage keeps when the message under an identifier is answered.
StillSaved(id) == {e \in saved : e.id # id}

\* The message under an identifier is answered for good: it is forgotten, and
\* its call hears of it.
Completes(id) ==
  /\ sent' = sent \ Under(id)
  /\ saved' = StillSaved(id)
  /\ UNCHANGED <<received, savedIn, arrived>>

Delivered(id) ==
  told' = [j \in Jobs |-> IF \E e \in Under(id) : e.job = j THEN "done" ELSE told[j]]

Puback ==
  /\ Receives("PUBACK", <<>>)
  /\ LET id == Head(down).id IN
       IF Under(id) # {} THEN Completes(id) /\ Delivered(id)
       ELSE UNCHANGED <<sent, saved, received, savedIn, arrived, told>>
  /\ UNCHANGED timers

\* Fault: the message is forgotten with the PUBREC.
Released_Forgotten(e) == {}

\* The PUBREC of a message, kept and stored.
Released(e) == {[e EXCEPT !.rel = TRUE]}

Pubrec ==
  LET id == Head(down).id
      new == UNION {Released(e) : e \in Under(id)} IN
  /\ Receives("PUBREC", IF Under(id) = {} THEN <<>>
                        ELSE <<Packet("PUBREL", id, Head(down).job)>>)
  /\ sent' = (sent \ Under(id)) \cup new
  /\ saved' = IF Under(id) = {} THEN saved ELSE {e \in saved : e.id # id} \cup new
  /\ UNCHANGED <<received, savedIn, timers, arrived, told>>

\* Of a PUBCOMP without its message the handler throws, which disconnects.
Pubcomp ==
  LET id == Head(down).id IN
  /\ conn = "up" /\ down # <<>> /\ Head(down).type = "PUBCOMP"
  /\ Completes(id) /\ Delivered(id)
  /\ IF Under(id) # {}
     THEN down' = Tail(down) /\ UNCHANGED <<up, conn>>
     ELSE conn' = "down" /\ up' = <<>> /\ down' = <<>>
  /\ UNCHANGED <<nextId, nextSeq, timers, kind, serverVars, taken, faultVars>>

\* SUBACK, which may refuse, and UNSUBACK.
Suback ==
  /\ \/ Receives("SUBACK", <<>>) \/ Receives("UNSUBACK", <<>>)
  /\ LET mine == Under(Head(down).id) IN
       /\ sent' = sent \ mine
       /\ timers' = timers \ {e.job : e \in mine}
       /\ \E answer \in {"done"} \cup (IF Head(down).type = "SUBACK" THEN {"failed"} ELSE {}) :
            told' = Settled({e.job : e \in mine}, answer)
  /\ UNCHANGED <<received, saved, savedIn, arrived>>

\* _receivePublish: at once for QoS 0 and 1, with the PUBREL for QoS 2.
Publish ==
  LET p == Head(down)
      qos == mail[p.job].qos
      kept == [id |-> p.id, job |-> p.job] IN
  /\ Receives("PUBLISH", CASE qos = 0 -> <<>>
                           [] qos = 1 -> <<Packet("PUBACK", p.id, p.job)>>
                           [] qos = 2 -> <<Packet("PUBREC", p.id, p.job)>>)
  /\ arrived' = IF qos = 2 THEN arrived ELSE [arrived EXCEPT ![p.job] = @ + 1]
  /\ received' = IF qos = 2 THEN {r \in received : r.id # p.id} \cup {kept} ELSE received
  /\ savedIn' = IF qos = 2 THEN {r \in savedIn : r.id # p.id} \cup {kept} ELSE savedIn
  /\ UNCHANGED <<sent, saved, timers, told>>

\* Fault: the message stays when its PUBREL has come.
Consumed_Kept(S, id) == S
Consumed(S, id) == {r \in S : r.id # id}

Pubrel ==
  LET id == Head(down).id IN
  /\ Receives("PUBREL", <<Packet("PUBCOMP", id, Head(down).job)>>)
  /\ arrived' = [n \in Mails |->
                   IF \E r \in received : r.id = id /\ r.job = n THEN arrived[n] + 1 ELSE arrived[n]]
  /\ received' = Consumed(received, id)
  /\ savedIn' = {r \in savedIn : r.id # id}
  /\ UNCHANGED <<sent, saved, timers, told>>

-----------------------------------------------------------------------------
(* The connection and the program.                                         *)

Connect ==
  /\ conn = "down"
  /\ conn' = "opening" /\ up' = <<Packet("CONNECT", 0, 0)>>
  /\ UNCHANGED <<clientVars, down, callVars, serverVars, taken, arrived, faultVars>>

\* What was sent and not received is gone; what is in flight stays.
Drop ==
  /\ conn # "down" /\ drops < MaxDrops
  /\ conn' = "down" /\ up' = <<>> /\ down' = <<>>
  /\ drops' = drops + 1
  /\ UNCHANGED <<clientVars, callVars, serverVars, taken, arrived, clean, restarts>>

\* A new client with the same name: the constructor restores what was stored, if
\* the storage is still there, and begins anew to count.
Restart ==
  /\ restarts < MaxRestarts
  /\ conn' = "down" /\ up' = <<>> /\ down' = <<>>
  /\ saved' = IF Durable THEN saved ELSE {}
  /\ savedIn' = IF Durable THEN savedIn ELSE {}
  /\ sent' = saved' /\ received' = savedIn'
  /\ nextId' = 1 /\ nextSeq' = 0 /\ timers' = {}
  /\ told' = [j \in Jobs |-> IF told[j] = "pending" /\ kind[j] \notin Publishes
                             THEN "lost" ELSE told[j]]
  /\ restarts' = restarts + 1
  /\ UNCHANGED <<kind, serverVars, taken, arrived, clean, drops>>

-----------------------------------------------------------------------------
(* The server.                                                             *)

Serves(type, answer) ==
  /\ up # <<>> /\ Head(up).type = type
  /\ up' = Tail(up) /\ down' = down \o answer
  /\ UNCHANGED <<conn, clientVars, callVars, arrived, faultVars>>

InFlight(n) == mail[n].stage \in {"sent", "released"}

\* CONNECT: a clean session is a new one; another goes on with what was not
\* acknowledged.
ServeConnect ==
  LET mine == IF clean THEN {} ELSE {n \in Mails : InFlight(n)} IN
  /\ \E order \in SetToSeqs(mine) :
       /\ \A i, j \in DOMAIN order : i < j => order[i] < order[j]
       /\ Serves("CONNECT", <<Packet("CONNACK", 0, 0)>> \o
            [i \in DOMAIN order |->
               Packet(IF mail[order[i]].stage = "sent" THEN "PUBLISH" ELSE "PUBREL",
                      mail[order[i]].id, order[i])])
  /\ held' = IF clean THEN {} ELSE held
  /\ mail' = [n \in Mails |-> IF clean /\ InFlight(n)
                              THEN [mail[n] EXCEPT !.stage = "lost"] ELSE mail[n]]
  /\ UNCHANGED taken

\* PUBLISH: a QoS 2 message is taken unless its identifier is held already.  An
\* identifier of 0 is a violation of the protocol, which ends the connection.
ServePublish ==
  LET p == Head(up)
      k == kind[p.job]
      new == k # "qos2" \/ p.id \notin held IN
  /\ Serves("PUBLISH", CASE k = "qos0" -> <<>>
                         [] k = "qos1" -> <<Packet("PUBACK", p.id, p.job)>>
                         [] k = "qos2" -> <<Packet("PUBREC", p.id, p.job)>>)
  /\ k = "qos0" \/ p.id # 0
  /\ taken' = IF new THEN [taken EXCEPT ![p.job] = @ + 1] ELSE taken
  /\ held' = IF k = "qos2" THEN held \cup {p.id} ELSE held
  /\ UNCHANGED mail

ServePubrel ==
  /\ Serves("PUBREL", <<Packet("PUBCOMP", Head(up).id, Head(up).job)>>)
  /\ held' = held \ {Head(up).id}
  /\ UNCHANGED <<mail, taken>>

ServeSubscribe ==
  /\ \/ Serves("SUBSCRIBE", <<Packet("SUBACK", Head(up).id, Head(up).job)>>)
     \/ Serves("UNSUBSCRIBE", <<Packet("UNSUBACK", Head(up).id, Head(up).job)>>)
  /\ Head(up).id # 0
  /\ UNCHANGED <<serverVars, taken>>

\* The answers to what the server sent.
Acknowledged(n, stage) == mail' = [mail EXCEPT ![n].stage = stage]

ServePuback ==
  /\ \/ Serves("PUBACK", <<>>) \/ Serves("PUBCOMP", <<>>)
  /\ Acknowledged(Head(up).job, "done")
  /\ UNCHANGED <<held, taken>>

ServePubrec ==
  /\ Serves("PUBREC", <<Packet("PUBREL", Head(up).id, Head(up).job)>>)
  /\ Acknowledged(Head(up).job, "released")
  /\ UNCHANGED <<held, taken>>

\* A message for the client, under the lowest identifier that is free.
ServerSends(n) ==
  /\ conn = "up" /\ mail[n].stage = "unsent"
  /\ \A m \in 1..(n - 1) : mail[m].stage # "unsent"
  /\ \E qos \in MailQos :
       LET id == CHOOSE i \in Mails :
                   /\ \A m \in Mails : InFlight(m) => mail[m].id # i
                   /\ \A k \in 1..(i - 1) : \E m \in Mails : InFlight(m) /\ mail[m].id = k IN
       /\ mail' = [mail EXCEPT ![n] = [qos |-> qos, id |-> id,
                                       stage |-> IF qos = 0 THEN "done" ELSE "sent"]]
       /\ down' = Append(down, Packet("PUBLISH", id, n))
  /\ UNCHANGED <<conn, clientVars, up, callVars, held, taken, arrived, faultVars>>

-----------------------------------------------------------------------------

Handles == Connack \/ Puback \/ Pubrec \/ Pubcomp \/ Suback \/ Publish \/ Pubrel
Answers == ServeConnect \/ ServePublish \/ ServePubrel \/ ServeSubscribe \/ ServePuback
             \/ ServePubrec

Next ==
  \/ \E j \in Jobs : PublishCall(j) \/ SubscribeCall(j) \/ TimesOut(j)
  \/ Handles \/ Answers
  \/ \E n \in Mails : ServerSends(n)
  \/ Connect \/ Drop \/ Restart

Spec == Init /\ [][Next]_vars

\* Fairness: the event loop handles what arrives and runs the timers, the server
\* answers, and somebody connects again.
FairSpec ==
  /\ Spec /\ WF_vars(Handles) /\ WF_vars(Answers) /\ WF_vars(Connect)
  /\ \A j \in Jobs : WF_vars(TimesOut(j))

-----------------------------------------------------------------------------
(* Properties.                                                             *)

\* With the types: localStorage holds the messages in flight that survive a
\* restart, and no other.
TypeOK ==
  /\ saved = {e \in sent : kind[e.job] \in Publishes} /\ savedIn = received
  /\ clean \in Sessions /\ conn \in {"down", "opening", "up"}
  /\ sent \subseteq Entry 
  /\ received \subseteq Arrival
  /\ nextId \in Ids /\ nextSeq \in 0..MaxJobs /\ timers \subseteq Jobs
  /\ kind \in [Jobs -> Calls \cup {"none"}]
  /\ told \in [Jobs -> {"none", "pending", "done", "failed", "lost"}]
  /\ mail \in [Mails -> [qos : 0..2, id : Mails, stage : Stage]]

\* An identifier is of one message at a time, and an answer on its way is for
\* the message that has its identifier now, not for one that had it before: so
\* no call is told of another's fate, and no PUBCOMP makes the handler throw.
AnswersMatch ==
  /\ \A d, e \in sent : d.id = e.id => d = e
  /\ \A i \in DOMAIN down :
       down[i].type \in {"PUBACK", "PUBREC", "PUBCOMP", "SUBACK", "UNSUBACK"} =>
         \E e \in sent : WireId(e.id) = down[i].id /\ e.job = down[i].job

\* What the application publishes with QoS 1 and 2 is taken by the server as the
\* contract says, with every connection lost and the program restarted anywhere.
Outgoing == INSTANCE QosContract WITH
  Messages <- Jobs,
  given <- {j \in Jobs : kind[j] \in {"qos1", "qos2"}},
  once <- {j \in Jobs : kind[j] = "qos2"},
  taken <- [j \in Jobs |-> IF kind[j] \in {"qos1", "qos2"} THEN taken[j] ELSE 0],
  confirmed <- {j \in Jobs : kind[j] \in {"qos1", "qos2"} /\ told[j] = "done"}

OutgoingContract == Outgoing!Spec

\* What the server sends with QoS 1 and 2 reaches onMessageArrived as the
\* contract says: a QoS 2 message once, although it is sent again.
Incoming == INSTANCE QosContract WITH
  Messages <- Mails,
  given <- {n \in Mails : mail[n].qos > 0},
  once <- {n \in Mails : mail[n].qos = 2},
  taken <- [n \in Mails |-> IF mail[n].qos > 0 THEN arrived[n] ELSE 0],
  confirmed <- {n \in Mails : mail[n].qos > 0 /\ mail[n].stage = "done"}

IncomingContract == Incoming!Spec

\* With a session that is kept every handshake ends: what was published is
\* reported delivered and what the server sent is acknowledged.  The promise of
\* subscribe() and unsubscribe() is settled when the session is kept or the call
\* has a timeout; in a clean session a call without one that was in flight when
\* the connection was lost never is.
EverythingSettles ==
  /\ \A j \in Jobs : ~clean /\ kind[j] \in Publishes /\ told[j] = "pending" ~> told[j] = "done"
  /\ \A n \in Mails : ~clean /\ InFlight(n) ~> mail[n].stage = "done"
  /\ \A j \in Jobs :
       told[j] = "pending" /\ kind[j] \notin Publishes /\ (~clean \/ kind[j] \in Timed)
         ~> told[j] # "pending"
=============================================================================
