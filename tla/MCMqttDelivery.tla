---------------------------- MODULE MCMqttDelivery ----------------------------
(* The instances of MqttDelivery for TLC: jobs and mails are numbers.        *)
EXTENDS MqttDelivery
=============================================================================
