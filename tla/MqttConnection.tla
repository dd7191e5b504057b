---------------------------- MODULE MqttConnection ----------------------------
(***************************************************************************)
(* The connection of the MQTT client: MQTTClient of index.ts over the      *)
(* client of paho-mqtt.js, from connect() through fallbacks, loss and      *)
(* automatic reconnection to disconnect().                                 *)
(*                                                                         *)
(* Everything runs on one JS thread, so a handler is one step: a call of   *)
(* the application, an event of a WebSocket, or a timer.  Handlers call    *)
(* each other, so each is an operator from a state of the client to the    *)
(* next.  What makes this hard is who is still there to be called: a       *)
(* socket left behind by an attempt that timed out keeps its handlers, and *)
(* every handler acts on this.socket, whichever socket it was called for.  *)
(*                                                                         *)
(* WebSockets and the server are external.  Publishing and subscribing     *)
(* leave the connection alone: what they left to send again after a        *)
(* CONNACK is a number here, and MqttDelivery models the rest.             *)
(*                                                                         *)
(* Its state and its two invariants are in MqttConnectionState, which a    *)
(* module that knows the steps by another name can extend.                 *)
(*                                                                         *)
(* An operator commented "Fault:" is a wrong variant of the definition     *)
(* after it; the specification does not use it.                            *)
(***************************************************************************)
EXTENDS MqttConnectionState

vars == <<client, reviver, wanted, stray, cut, calls>>

Init ==
  /\ client = [state |-> "disconnected", promise |-> "none", connected |-> FALSE,
               reconnecting |-> FALSE, socket |-> 0,
               ws |-> [s \in Sockets |-> "none"], asked |-> [s \in Sockets |-> "no"],
               hostIndex |-> 0, v4 |-> FALSE, connectTimer |-> "none", retry |-> "none",
               orphans |-> 0, pinger |-> "off", queued |-> 0, notify |-> FALSE]
  /\ reviver \in Revivers
  /\ wanted = FALSE /\ stray = FALSE /\ cut = FALSE /\ calls = 0

-----------------------------------------------------------------------------
(* Opening a connection.                                                   *)

Free(c) == {s \in Sockets : c.ws[s] = "none"}

\* Cancelling a timer.
Cancelled(timer) == IF timer = "armed" THEN "spent" ELSE timer

\* _doConnect.  The socket it replaces, if there is one, keeps its handlers.
\* The new pingers replace ones that were cancelled.
Opens(c) ==
  LET s == CHOOSE x \in Free(c) : \A y \in Free(c) : x <= y IN
  [c EXCEPT !.connected = FALSE, !.socket = s, !.connectTimer = "armed",
            !.ws = [t \in Sockets |-> CASE t = s -> "connecting"
                                        [] t # s /\ @[t] = "closed" -> "none"
                                        [] OTHER -> @[t]],
            !.asked = [t \in Sockets |-> IF t = s \/ c.ws[t] = "closed" THEN "no" ELSE @[t]]]

\* _reconnect: always the first host.
Reconnects(c) ==
  IF c.connected THEN c
  ELSE Opens([c EXCEPT !.reconnecting = TRUE, !.pinger = "off", !.hostIndex = 0])

\* connect() of the client throws when there is a connection or a socket, or a
\* reconnection without a timer to cancel.
ConnectThrows(c) == c.connected \/ c.socket # 0 \/ (c.reconnecting /\ c.retry = "none")

ClientConnect(c) ==
  Opens([c EXCEPT !.reconnecting = FALSE, !.retry = IF c.reconnecting THEN "none" ELSE @,
                  !.hostIndex = 0, !.v4 = Fallback])

\* connect() of the wrapper, rejected while one is under way.  It has said
\* "connecting" already when the client throws.
Connect(c) ==
  LET says == [c EXCEPT !.state = "connecting"] IN
  CASE c.state # "disconnected" -> c
    [] c.state = "disconnected" /\ ConnectThrows(c) -> says
    [] OTHER -> ClientConnect([says EXCEPT !.promise = "pending"])

\* So it has when the client refuses the options.
ConnectRefused(c) == IF c.state = "disconnected" THEN [c EXCEPT !.state = "connecting"] ELSE c

-----------------------------------------------------------------------------
(* Losing it: _disconnected.                                               *)

\* Fault: a failure while it reconnects is not tried again.
TriesAgain_Not(c) == c

\* While it reconnects a failure starts the timer of the next attempt; one
\* that is still armed is forgotten, not cancelled.
TriesAgain(c) ==
  [c EXCEPT !.retry = "armed", !.orphans = IF c.retry = "armed" THEN @ + 1 ELSE @]

\* The timers, messages and socket that _disconnected throws away.
Cleared(c) ==
  [c EXCEPT !.pinger = "off", !.connectTimer = "none", !.queued = 0, !.notify = FALSE,
            !.socket = 0,
            !.ws = [s \in Sockets |-> IF s = c.socket THEN "none" ELSE @[s]],
            !.asked = [s \in Sockets |-> IF s = c.socket THEN "no" ELSE @[s]]]

\* onConnectionLost, in which the application may connect again.
Loses(c, again) ==
  LET lost == [c EXCEPT !.connected = FALSE, !.state = "disconnected"] IN
  IF again THEN Connect(lost) ELSE lost

\* Fault: onFailure is not called.
Fails_Silently(c) == [c EXCEPT !.state = "disconnected"]

\* onFailure.
Fails(c) ==
  [c EXCEPT !.state = "disconnected",
            !.promise = IF @ = "pending" THEN "rejected" ELSE @]

\* _disconnected; error is whether it was given an error code.  In this order:
\* the next attempt of a reconnection, the next host, the loss of a connection,
\* the older version, or failure.
Disconnected(c, error, again) ==
  LET d == Cleared(c) IN
  CASE error /\ c.reconnecting -> TriesAgain(c)
    [] ~(error /\ c.reconnecting) /\ d.hostIndex + 1 < Hosts ->
         Opens([d EXCEPT !.hostIndex = @ + 1])
    [] ~(error /\ c.reconnecting) /\ d.hostIndex + 1 >= Hosts /\ d.connected ->
         LET lost == Loses(d, again) IN
         IF error /\ reviver \in {"client", "both"} THEN Reconnects(lost) ELSE lost
    [] ~(error /\ c.reconnecting) /\ d.hostIndex + 1 >= Hosts /\ ~d.connected ->
         IF d.v4 THEN Opens([d EXCEPT !.v4 = FALSE, !.hostIndex = 0]) ELSE Fails(d)

-----------------------------------------------------------------------------
(* Sending.                                                                *)

\* WebSocket.send throws while the socket is connecting; on one that is closing
\* or closed it does nothing.
Sendable(c) == c.socket # 0 /\ c.ws[c.socket] # "connecting"

\* _process_queue throws when its first message cannot be sent.
Throws(c) == c.queued > 0 /\ ~Sendable(c)

\* _process_queue: sends the queue, which resets the pinger.  The callback of a
\* DISCONNECT runs at the first message, since all share one slot, and empties
\* the queue.
Flush(c) ==
  LET sent == [c EXCEPT !.queued = 0, !.pinger = "fresh"] IN
  CASE c.queued = 0 -> c
    [] c.queued > 0 /\ ~c.notify -> sent
    [] c.queued > 0 /\ c.notify -> Disconnected(sent, FALSE, FALSE)

\* _on_socket_open: a CONNECT, on the socket of the moment.
Hello(c) ==
  LET s == c.socket IN
  CASE ~Sendable(c) -> c
    [] Sendable(c) /\ c.ws[s] # "open" -> [c EXCEPT !.pinger = "fresh"]
    [] Sendable(c) /\ c.ws[s] = "open" ->
         [c EXCEPT !.pinger = "fresh",
                   !.asked[s] = IF @ = "no" THEN "connect" ELSE "broken"]

\* Fault: the wrapper is told of the success only when there is nothing to send again.
Welcomed_Alone(c, n) ==
  [c EXCEPT !.state = IF n = 0 THEN "connected" ELSE @, !.promise = "resolved",
            !.reconnecting = FALSE,
            !.queued = IF c.connected \/ n = 0 THEN @ ELSE n - 1]

\* The end of a CONNACK after its n messages were scheduled: onSuccess and
\* onConnected.  When a DISCONNECT was ahead of them the first is gone with it
\* and the others wait in the queue.
Welcomed(c, n) ==
  [c EXCEPT !.state = "connected", !.promise = IF @ = "pending" THEN "resolved" ELSE @,
            !.reconnecting = FALSE,
            !.queued = IF c.connected \/ n = 0 THEN @ ELSE n - 1]

\* A CONNACK that accepts, with n messages of the session to send again.  An
\* exception on the way, at the first of them or at the end, is caught and
\* disconnects.
Connack(c, n, again) ==
  LET accepted == [c EXCEPT !.connectTimer = Cancelled(@), !.retry = Cancelled(@),
                            !.connected = TRUE, !.hostIndex = Hosts]
      waiting  == [accepted EXCEPT !.queued = @ + 1]
      scheduled == IF n = 0 THEN accepted ELSE Flush(waiting)
      welcomed == Welcomed(scheduled, n) IN
  CASE n > 0 /\ Throws(waiting) -> Disconnected(accepted, TRUE, again)
    [] ~(n > 0 /\ Throws(waiting)) /\ Throws(welcomed) ->
         Disconnected([welcomed EXCEPT !.queued = @ - 1], TRUE, again)
    [] OTHER -> Flush(welcomed)

\* A CONNACK that refuses.
Refused(c, again) ==
  Disconnected([c EXCEPT !.connectTimer = Cancelled(@), !.retry = Cancelled(@)], TRUE, again)

\* A CONNACK of either kind throws when there is no timer to cancel, which one of a
\* socket that was left behind may find: _handleMessage then ends the connection.
Answered(c, answer, again) ==
  IF c.connectTimer = "none" THEN Disconnected(c, TRUE, again) ELSE answer

\* disconnect() of the client queues a DISCONNECT, which goes out at once only
\* when there is a connection.  It throws when there is nothing to end.
ClientDisconnect(c) ==
  LET ended == IF c.reconnecting
               THEN [c EXCEPT !.retry = "none", !.reconnecting = FALSE] ELSE c
      queues == [ended EXCEPT !.queued = @ + 1, !.notify = TRUE] IN
  CASE c.reconnecting /\ c.retry = "none" -> c
    [] ~(c.reconnecting /\ c.retry = "none") /\ ended.socket = 0 -> ended
    [] OTHER -> CASE ~ended.connected -> queues
                  [] ended.connected /\ ~Throws(queues) -> Flush(queues)
                  [] ended.connected /\ Throws(queues) -> [queues EXCEPT !.queued = @ - 1]

\* disconnect() of the wrapper does nothing unless it says connecting or connected.
Disconnect(c) == IF c.state = "disconnected" THEN c ELSE ClientDisconnect(c)

-----------------------------------------------------------------------------
(* The steps.                                                              *)

\* Whether the application connects again when it hears of a loss.
Again == IF wanted /\ reviver \in {"app", "both"} THEN BOOLEAN ELSE {FALSE}

\* There is room for the sockets a step may open (bound).  A failure opens none
\* while the client reconnects; otherwise it leaves the socket it had first.
Room(c, again) ==
  \E s, t \in Free(c) : again /\ reviver = "both" => s # t
RoomToFail(again) == client.reconnecting \/ Room(Cleared(client), again)

ConnectCall ==
  /\ calls < MaxCalls /\ Room(client, FALSE)
  /\ client' \in {Connect(client), ConnectRefused(client)}
  /\ wanted' = (wanted \/ client.state = "disconnected")
  /\ calls' = calls + 1
  /\ UNCHANGED <<reviver, stray, cut>>

DisconnectCall ==
  /\ calls < MaxCalls /\ wanted
  /\ client' = Disconnect(client)
  /\ wanted' = FALSE /\ calls' = calls + 1
  /\ cut' = (cut \/ (client.promise = "pending" /\ client.reconnecting /\ ~client'.reconnecting))
  /\ UNCHANGED <<reviver, stray>>

\* Any message but CONNECT: the pinger starts anew.
Publish ==
  /\ client.connected /\ Sendable(client)
  /\ client' = [client EXCEPT !.pinger = "fresh"]
  /\ UNCHANGED <<reviver, wanted, stray, cut, calls>>

\* An event of socket s, which may have been left behind.
Event(s) ==
  /\ client'.orphans <= MaxOrphans
  /\ stray' = (stray \/ s # client.socket)
  /\ UNCHANGED <<reviver, wanted, cut, calls>>

SocketOpens(s) ==
  /\ client.ws[s] = "connecting"
  /\ client' = Hello([client EXCEPT !.ws[s] = "open"])
  /\ Event(s)

Accepts(s) ==
  /\ client.ws[s] = "open" /\ client.asked[s] = "connect"
  /\ \E n \in Backlogs, again \in Again :
       LET c == [client EXCEPT !.asked[s] = "acked"] IN
       /\ Room(Cleared(client), again)
       /\ client' = Answered(c, Connack(c, n, again), again)
  /\ Event(s)

Refuses(s) ==
  /\ client.ws[s] = "open" /\ client.asked[s] = "connect"
  /\ \E again \in Again :
       LET c == [client EXCEPT !.asked[s] = "broken"] IN
       /\ RoomToFail(again)
       /\ client' = Answered(c, Refused(c, again), again)
  /\ Event(s)

\* _on_socket_error and _on_socket_close: ignored while it reconnects.
Dropped(c, again) == IF c.reconnecting THEN c ELSE Disconnected(c, TRUE, again)

SocketErrs(s) ==
  /\ client.ws[s] \in {"connecting", "open"}
  /\ \E again \in Again :
       /\ RoomToFail(again)
       /\ client' = Dropped([client EXCEPT !.ws[s] = "erred"], again)
  /\ Event(s)

\* A socket that has closed has no more events; one left behind is then gone.
SocketCloses(s) ==
  /\ client.ws[s] \in {"open", "erred"}
  /\ \E again \in Again :
       /\ RoomToFail(again)
       /\ client' = Dropped(IF s = client.socket THEN [client EXCEPT !.ws[s] = "closed"]
                            ELSE [client EXCEPT !.ws[s] = "none", !.asked[s] = "no"], again)
  /\ Event(s)

\* The timers call for whatever socket there is.
Fires ==
  /\ client'.orphans <= MaxOrphans
  /\ UNCHANGED <<reviver, wanted, stray, cut, calls>>

ConnectTimeout ==
  /\ client.connectTimer = "armed"
  /\ \E again \in Again :
       /\ RoomToFail(again)
       /\ client' = Disconnected([client EXCEPT !.connectTimer = "spent"], TRUE, again)
  /\ Fires

RetryFires ==
  /\ client.retry = "armed" /\ Room(client, FALSE)
  /\ client' = Reconnects([client EXCEPT !.retry = "spent"])
  /\ Fires

OrphanFires ==
  /\ client.orphans > 0 /\ Room(client, FALSE)
  /\ client' = Reconnects([client EXCEPT !.orphans = @ - 1])
  /\ Fires

\* doPing: a PINGREQ, and at the next time without PINGRESP the connection is lost.
Ping ==
  /\ client.pinger = "fresh" /\ Sendable(client)
  /\ client' = [client EXCEPT !.pinger = "asked"]
  /\ Fires

Pong ==
  /\ client.pinger = "asked" /\ client.socket # 0
  /\ client.ws[client.socket] = "open" /\ client.asked[client.socket] = "acked"
  /\ client' = [client EXCEPT !.pinger = "fresh"]
  /\ Fires

PingTimeout ==
  /\ client.pinger = "asked"
  /\ \E again \in Again :
       /\ RoomToFail(again)
       /\ client' = Disconnected([client EXCEPT !.pinger = "off"], TRUE, again)
  /\ Fires

Next ==
  \/ ConnectCall \/ DisconnectCall \/ Publish
  \/ \E s \in Sockets :
       SocketOpens(s) \/ Accepts(s) \/ Refuses(s) \/ SocketErrs(s) \/ SocketCloses(s)
  \/ ConnectTimeout \/ RetryFires \/ OrphanFires \/ Ping \/ Pong \/ PingTimeout

Spec == Init /\ [][Next]_vars

(* Fairness.  The event loop runs the timers.  The network does not keep a  *)
(* socket for ever: one that is connecting opens or fails, and one that was *)
(* left behind is dropped.  The server answers a CONNECT now and then.      *)
FairSpec ==
  /\ Spec
  /\ WF_vars(ConnectTimeout) /\ WF_vars(RetryFires) /\ WF_vars(OrphanFires)
  /\ \A s \in Sockets :
       /\ WF_vars(s # client.socket /\ (SocketErrs(s) \/ SocketCloses(s)))
       /\ SF_vars(SocketOpens(s)) /\ SF_vars(Accepts(s))

-----------------------------------------------------------------------------
(* Properties.                                                             *)

TypeOK ==
  /\ client \in Client
  /\ reviver \in Revivers
  /\ {wanted, stray, cut} \subseteq BOOLEAN
  /\ calls \in 0..MaxCalls

\* The promise of connect() is settled, and an automatic reconnection ends, with a
\* server that answers, unless a socket that was left behind calls or disconnect()
\* ended the reconnection under a connect().
AttemptsEnd ==
  /\ client.promise = "pending" ~> client.promise # "pending" \/ stray \/ cut
  /\ client.reconnecting ~> ~client.reconnecting \/ stray
=============================================================================
