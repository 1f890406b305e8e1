---------------------------- MODULE MCHttpServer ----------------------------
(* HttpServer on small instances.                                           *)
EXTENDS HttpServer

Ep(p, m, b, v) == [path |-> p, method |-> m, body |-> b, validStatus |-> v]

(* Configuration 0 and 1 answer /users with different templates, 2 with a   *)
(* malformed one and forgets a status.                                      *)
EndpointSet == [c \in 0..NumReloads |->
  CASE c = 0 -> <<Ep("/users", "POST", "t1", TRUE), Ep("/users", "GET", "plain", TRUE)>>
    [] c = 1 -> <<Ep("/users", "POST", "t2", TRUE), Ep("/snmp/get", "POST", "plain", TRUE)>>
    [] OTHER -> <<Ep("/users", "POST", "bad", TRUE), Ep("/users", "GET", "plain", FALSE)>>]

In(p, m, b) == [path |-> p, method |-> m, body |-> b]
InputSet == {In("/users", "POST", "json"), In("/users", "GET", "none"),
             In("/users", "POST", "toolarge"), In("/snmp/get", "POST", "json"),
             In("/metrics", "GET", "none")}
=============================================================================
