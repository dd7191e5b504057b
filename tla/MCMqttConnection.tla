--------------------------- MODULE MCMqttConnection ---------------------------
(* The instances of MqttConnection for TLC: the sockets are numbers.         *)
EXTENDS MqttConnection
=============================================================================
