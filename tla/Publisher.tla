----------------------------- MODULE Publisher -----------------------------
(***************************************************************************)
(* kafka/kafka_interface.go: what a caller of KafkaPublisherInterface may  *)
(* rely on.  Each member of Calls is one call of Publish.  A call is taken *)
(* up, its record may reach the broker at any time from then on, also      *)
(* after the call has returned, and the call returns nil, an error or a    *)
(* timeout: nil only for a record the broker has.  A payload that cannot   *)
(* be marshalled is rejected and leaves no record.                         *)
(***************************************************************************)
CONSTANT Calls

VARIABLES
  outcome,   \* "idle", "pending", or how the call returned
  broker     \* the calls whose record the broker has stored

Results == {"ok", "failed", "timeout"}

Init ==
  /\ outcome = [c \in Calls |-> "idle"]
  /\ broker = {}

Call(c) ==
  /\ outcome[c] = "idle"
  /\ outcome' = [outcome EXCEPT ![c] = "pending"]
  /\ UNCHANGED broker

Reject(c) ==
  /\ outcome[c] = "idle"
  /\ outcome' = [outcome EXCEPT ![c] = "marshal"]
  /\ UNCHANGED broker

Store(c) ==
  /\ outcome[c] \notin {"idle", "marshal"}
  /\ broker' = broker \union {c}
  /\ UNCHANGED outcome

Return(c, r) ==
  /\ outcome[c] = "pending"
  /\ r = "ok" => c \in broker
  /\ outcome' = [outcome EXCEPT ![c] = r]
  /\ UNCHANGED broker

Next ==
  \E c \in Calls :
    Call(c) \/ Reject(c) \/ Store(c) \/ \E r \in Results : Return(c, r)

Spec == Init /\ [][Next]_<<outcome, broker>>
=============================================================================
