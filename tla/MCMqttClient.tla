---------------------------- MODULE MCMqttClient ----------------------------
(* MqttClient with Ingest on small instances.                               *)
EXTENDS MqttClient

(* Messages named after the front end that takes them up.                   *)
FrontEnds == [m \in Messages |->
  CASE m = "r" -> "rest" [] m = "c" -> "coap" [] m = "s" -> "snmp" [] OTHER -> "mqtt"]
=============================================================================
