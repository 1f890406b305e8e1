---------------------------- MODULE MCCoapServer ----------------------------
(* CoapServer on small instances.                                           *)
EXTENDS CoapServer

E1 == [path |-> "/hello", method |-> "POST"]
E2 == [path |-> "/hands/left", method |-> "POST"]
E3 == [path |-> "/hello", method |-> "GET"]

(* Configuration 1 narrows the wildcard address of 0, which go-coap still   *)
(* holds; 2 moves the server to another port.  The reloads come in either   *)
(* order.                                                                   *)
Addresses == [c \in 0..NumReloads |->
  CASE c = 0 -> ":5683" [] c = 1 -> "127.0.0.1:5683" [] OTHER -> ":5684"]
Wildcard == {{":5683", "127.0.0.1:5683"}}

(* An edit that leaves the address alone and only changes the endpoints.    *)
SameAddress == [c \in 0..NumReloads |-> ":5683"]

EndpointSet == [c \in 0..NumReloads |->
  CASE c = 0 -> <<E1, E2>> [] c = 1 -> <<E2>> [] OTHER -> <<E1, E3>>]
=============================================================================
