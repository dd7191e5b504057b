----------------------------- MODULE QosContract -----------------------------
(***************************************************************************)
(* What the sender and the receiver of MQTT messages promise each other,   *)
(* for the qualities of service with an acknowledgement: a message handed  *)
(* over is taken at least once, or exactly once, before the sender hears   *)
(* that it was, and never after.  MqttDelivery implements this twice: for  *)
(* what the application publishes and for what the server sends it.        *)
(***************************************************************************)
EXTENDS Naturals

CONSTANT Messages

VARIABLES
  given,     \* the messages handed over
  once,      \* those to be taken exactly once (QoS 2)
  taken,     \* how often each was taken
  confirmed  \* those the sender knows to be taken

Init ==
  /\ given = {} /\ once = {} /\ confirmed = {}
  /\ taken = [m \in Messages |-> 0]

Give(m) ==
  /\ m \notin given
  /\ given' = given \cup {m}
  /\ once' \in {once, once \cup {m}}
  /\ UNCHANGED <<taken, confirmed>>

Take(m) ==
  /\ m \in given \ confirmed
  /\ m \in once => taken[m] = 0
  /\ taken' = [taken EXCEPT ![m] = @ + 1]
  /\ UNCHANGED <<given, once, confirmed>>

Confirm(m) ==
  /\ m \in given /\ taken[m] > 0
  /\ confirmed' = confirmed \cup {m}
  /\ UNCHANGED <<given, once, taken>>

Next == \E m \in Messages : Give(m) \/ Take(m) \/ Confirm(m)

Spec == Init /\ [][Next]_<<given, once, taken, confirmed>>
=============================================================================
