---------------------------- MODULE ServedConfig ----------------------------
(***************************************************************************)
(* What a client of a reconfigurable server may rely on: at any moment one *)
(* configuration is in force; a request belongs to the configuration in    *)
(* force when it arrived, and gets one of that configuration's replies,    *)
(* once, whatever comes into force afterwards.                             *)
(***************************************************************************)
CONSTANTS
  Configs,    \* the configurations that come into force
  Requests,   \* the requests
  Inputs,     \* what a request may carry
  Legal,      \* Legal[c, in]: the replies configuration c allows to input in
  None        \* not arrived, not replied

VARIABLES inForce, arrived, reply

vars == <<inForce, arrived, reply>>

Init ==
  /\ inForce \in Configs
  /\ arrived = [q \in Requests |-> None]
  /\ reply = [q \in Requests |-> None]

Reconfigure ==
  /\ inForce' \in Configs
  /\ UNCHANGED <<arrived, reply>>

Arrive(q) ==
  /\ arrived[q] = None
  /\ \E in \in Inputs : arrived' = [arrived EXCEPT ![q] = <<inForce, in>>]
  /\ UNCHANGED <<inForce, reply>>

Reply(q) ==
  /\ arrived[q] # None /\ reply[q] = None
  /\ \E a \in Legal[arrived[q]] : reply' = [reply EXCEPT ![q] = a]
  /\ UNCHANGED <<inForce, arrived>>

Next == Reconfigure \/ \E q \in Requests : Arrive(q) \/ Reply(q)

Spec == Init /\ [][Next]_vars
=============================================================================
