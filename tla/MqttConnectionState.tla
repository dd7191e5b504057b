------------------------- MODULE MqttConnectionState -------------------------
(***************************************************************************)
(* The state of the connection of the MQTT client, and what is to be true  *)
(* of it: MqttConnection has the steps.                                    *)
(***************************************************************************)
EXTENDS Naturals

CONSTANTS
  Sockets,     \* the WebSockets that may have handlers at a time, as numbers
  Hosts,       \* how many connectOptions.uris there are to try
  Revivers,    \* who may bring a lost connection back: "client" by
               \* connectOptions.reconnect, "app" by connect() in
               \* onConnectionLost, "both", or "nobody"
  Fallback,    \* no mqttVersion was given: 4 is tried first, then 3
  Backlogs,    \* how many messages a session may have to send again
  MaxCalls,    \* bound: connect() and disconnect() calls
  MaxOrphans   \* bound: reconnect timers forgotten while armed

ASSUME ConnectionAssumption ==
  /\ Sockets \subseteq Nat \ {0}
  /\ Hosts \in Nat \ {0}
  /\ Backlogs \subseteq Nat /\ {MaxCalls, MaxOrphans} \subseteq Nat
  /\ Revivers \subseteq {"client", "app", "both", "nobody"}
  /\ Fallback \in BOOLEAN

VARIABLES
  client,   \* the state of both objects, see Client
  reviver,  \* who brings a lost connection back, fixed in Init
  wanted,   \* whether the last call of the application was connect() (history)
  stray,    \* whether a socket that was left behind has called (history)
  cut,      \* whether disconnect() ended a reconnection that a connect() waited for
            \* (history)
  calls     \* calls made so far (bound)

\* A timer: "none" is null, "spent" one that fired or was cancelled.
Timer == {"none", "armed", "spent"}

Client == [
  state        : {"disconnected", "connecting", "connected"}, \* _connectionState
  promise      : {"none", "pending", "resolved", "rejected"}, \* of the last connect()
  connected    : BOOLEAN,
  reconnecting : BOOLEAN,
  socket       : Sockets \cup {0},  \* 0 when undefined
  ws           : [Sockets -> {"none", "connecting", "open", "erred", "closed"}],
                 \* the sockets that have handlers; "none" has none
  asked        : [Sockets -> {"no", "connect", "acked", "broken"}],
                 \* what the server has seen on each
  hostIndex    : 0..Hosts,
  v4           : BOOLEAN,           \* whether the version may still drop to 3
  connectTimer : Timer,             \* _connectTimeout
  retry        : Timer,             \* _reconnectTimeout
  orphans      : Nat,               \* armed reconnect timers it no longer refers to
  pinger       : {"off", "fresh", "asked"}, \* sendPinger: isReset, or PINGREQ sent
  queued       : Nat,               \* the length of _msg_queue
  notify       : BOOLEAN]           \* the slot of _notify_msg_sent is a _disconnected

\* A connect() whose promise is pending, and a reconnection, always have a timer
\* that ends the attempt or begins the next: the client never waits for a
\* network that may say nothing.  But when a connect() waits while the client
\* reconnects, disconnect() takes the only timer.
NeverStalled ==
  ~stray /\ ~cut /\ (client.promise = "pending" \/ client.reconnecting) =>
    client.connectTimer = "armed" \/ client.retry = "armed" \/ client.orphans > 0

\* connectionState tells the truth about the connection: it says connected
\* while the client is, and otherwise only when disconnect() was called before
\* the connection was there and a session had messages to send again.
StateAgrees == ~stray =>
  /\ client.connected => client.state = "connected"
  /\ client.state = "connected" /\ ~client.connected => ~wanted
=============================================================================
