----------------------------- MODULE MqttClient -----------------------------
(***************************************************************************)
(* mqttclient/mqtt.go: the connection to the MQTT broker, the one          *)
(* subscription made at boot, and the way of a QoS 1 message from the      *)
(* broker to Ingest and of its acknowledgement back.  paho and the broker  *)
(* are external.  NewMQTTClient leaves paho's defaults: a clean session    *)
(* (the broker forgets subscription and messages when the connection       *)
(* ends), automatic reconnection without resubscription, callbacks one at  *)
(* a time, the acknowledgement sent when the callback has returned.        *)
(***************************************************************************)
EXTENDS Ingest

VARIABLES
  link,       \* "off" before Connect, "up", "down" while paho reconnects, "closed"
  sub,        \* the broker holds a subscription of this client
  booted,     \* Subscribe has returned nil to main
  mail        \* where each MQTT message is

(* Of mail[m]: "unsent", "queued" at the broker, "received" over the        *)
(* connection that is up, "stray" received over one that has gone, "acked", *)
(* or "lost" before any callback saw it.                                    *)
Mail == {"unsent", "queued", "received", "stray", "acked", "lost"}
Mqtt == {m \in Messages : Proto[m] = "mqtt"}

conn == <<link, sub, booted>>
mqttVars == <<vars, conn, mail>>

MqttInit ==
  /\ Init
  /\ link = "off" /\ sub = FALSE /\ booted = FALSE
  /\ mail = [m \in Mqtt |-> "unsent"]

----------------------------------------------------------------------------
(* main's calls.  An error of either ends the process (log.Fatalf).         *)

NewMQTTClient ==
  /\ running /\ link = "off"
  /\ \/ link' = "up" /\ UNCHANGED running
     \/ running' = FALSE /\ UNCHANGED link
  /\ UNCHANGED <<stage, insert, rows, kafka, sub, booted, mail>>

Subscribe ==
  /\ running /\ ~booted /\ link # "off"
  /\ \/ link = "up" /\ sub' = TRUE /\ booted' = TRUE /\ UNCHANGED running
     \/ running' = FALSE /\ UNCHANGED <<sub, booted>>
  /\ UNCHANGED <<stage, insert, rows, kafka, link, mail>>

(* The session ends: the broker drops the subscription and what it had      *)
(* queued; of what the client had received paho may drop what no callback   *)
(* has seen, and nothing of it can be acknowledged any more.                *)
SessionEnds ==
  /\ sub' = FALSE
  /\ \E dropped \in SUBSET {m \in Mqtt : mail[m] = "received" /\ stage[m] = "idle"} :
       mail' = [m \in Mqtt |-> CASE m \in dropped \/ mail[m] = "queued"         -> "lost"
                                 [] m \notin dropped /\ mail[m] = "received"   -> "stray"
                                 [] OTHER                                      -> mail[m]]

(* main's deferred call; it waits for no callback.                          *)
Disconnect ==
  /\ running /\ booted /\ link \in {"up", "down"}
  /\ link' = "closed"
  /\ SessionEnds
  /\ UNCHANGED <<vars, booted>>

----------------------------------------------------------------------------
(* paho and the broker (external), as the options of NewMQTTClient and      *)
(* Subscribe("#") at QoS 1 set them up.                                     *)

ConnectionLost ==
  /\ running /\ link = "up"
  /\ link' = "down"
  /\ SessionEnds
  /\ UNCHANGED <<vars, booted>>

(* connectHandler writes a line to the log and does nothing else.           *)
Reconnect ==
  /\ running /\ link = "down"
  /\ link' = "up"
  /\ UNCHANGED <<vars, sub, booted, mail>>

(* Somebody publishes m: the broker keeps it for its subscribers only.      *)
PublishToBroker(m) ==
  /\ mail[m] = "unsent"
  /\ mail' = [mail EXCEPT ![m] = IF sub THEN "queued" ELSE "lost"]
  /\ UNCHANGED <<vars, conn>>

Deliver(m) ==
  /\ running /\ link = "up" /\ mail[m] = "queued"
  /\ mail' = [mail EXCEPT ![m] = "received"]
  /\ UNCHANGED <<vars, conn>>

(* The callback is given a message that has been received.                  *)
HandsOver(m) == m \in Mqtt => mail[m] \in {"received", "stray"}

(* The callback has returned, and its connection is still the one in use.   *)
Bug_AckFirst(m) == stage[m] # "idle"
CallbackReturned(m) == stage[m] = "done"
Ack(m) ==
  /\ running /\ mail[m] = "received" /\ CallbackReturned(m)
  /\ mail' = [mail EXCEPT ![m] = "acked"]
  /\ UNCHANGED <<vars, conn>>

----------------------------------------------------------------------------
Broker(m) == PublishToBroker(m) \/ Deliver(m) \/ Ack(m)
Sinks(m) == \/ HandsOver(m) /\ Accept(m)
            \/ Insert(m) \/ Forward(m) \/ RecordStored(m) \/ CommitAfterExit(m)

MqttNext ==
  \/ NewMQTTClient \/ Subscribe \/ Disconnect
  \/ ConnectionLost \/ Reconnect
  \/ \E m \in Mqtt : Broker(m)
  \/ (\E m \in Messages : Sinks(m)) /\ UNCHANGED <<conn, mail>>
  \/ (BufferChanges \/ Exit) /\ UNCHANGED <<conn, mail>>

MqttSpec == MqttInit /\ [][MqttNext]_mqttVars

(* paho hands on and acknowledges what it has received, main goes on with   *)
(* its calls, and paho's reconnection succeeds in the end.                  *)
MqttFairness ==
  /\ Fairness
  /\ WF_mqttVars(NewMQTTClient) /\ WF_mqttVars(Subscribe) /\ WF_mqttVars(Reconnect)
  /\ \A m \in Mqtt : WF_mqttVars(HandsOver(m) /\ Accept(m) /\ UNCHANGED <<conn, mail>>)
                     /\ WF_mqttVars(Ack(m))

MqttFairSpec == MqttSpec /\ MqttFairness

----------------------------------------------------------------------------
MqttTypeOK ==
  /\ TypeOK
  /\ link \in {"off", "up", "down", "closed"} /\ sub \in BOOLEAN /\ booted \in BOOLEAN
  /\ mail \in [Mqtt -> Mail]

(* What the broker may forget has been tried on both sinks: the process     *)
(* may die and the connection break at any moment without an acknowledged   *)
(* message having been dropped unprocessed.                                 *)
AckMeansTried ==
  \A m \in Mqtt : mail[m] = "acked" =>
    insert[m] \in {"ok", "failed"} /\ outcome[m] \notin {"idle", "pending"}

(* A message that reached the client is worked off, also while a slow       *)
(* message ahead of it holds the callback, and acknowledged unless its      *)
(* connection goes first or the callback ahead waits for Kafka's buffer.    *)
ReceivedIsAcked ==
  \A m \in Mqtt : mail[m] = "received" ~> (mail[m] # "received" \/ ~running \/ ~room)

(* "Processes messages in real time": a client that is connected is, or     *)
(* becomes, subscribed.                                                     *)
StaysSubscribed ==
  (booted /\ link = "up") ~> (sub \/ link # "up" \/ ~running)
=============================================================================
