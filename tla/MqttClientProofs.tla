-------------------------- MODULE MqttClientProofs --------------------------
(***************************************************************************)
(* Proofs about MqttClient, for every set of messages: it implements       *)
(* Ingest, so that what IngestProofs shows holds of it too, and whatever   *)
(* happens to the connection an acknowledged message has been worked off.  *)
(***************************************************************************)
EXTENDS MqttClient, IngestProofs

AckedIsDone == \A m \in Mqtt : mail[m] = "acked" => stage[m] = "done"

MqttIInv == IInv /\ MqttTypeOK /\ AckedIsDone

----------------------------------------------------------------------------
(* Every step is a step of Ingest or leaves Ingest's variables alone.       *)
LEMMA IngestStep ==
  ASSUME [MqttNext]_mqttVars
  PROVE  [Next]_vars
<1>1. ASSUME NEW m \in Messages, Sinks(m) PROVE Next
  BY <1>1 DEF Sinks, Next
<1>2. CASE NewMQTTClient \/ Subscribe
  <2>1. UNCHANGED running \/ (running /\ running' = FALSE)
    BY <1>2 DEF NewMQTTClient, Subscribe
  <2>2. UNCHANGED <<stage, insert, rows, outcome, broker, room>>
    BY <1>2 DEF NewMQTTClient, Subscribe, kafka
  <2> QED
    BY <2>1, <2>2 DEF vars, Next, Exit, kafka
<1>3. CASE Disconnect \/ ConnectionLost \/ Reconnect
  BY <1>3 DEF Disconnect, ConnectionLost, Reconnect
<1>4. CASE \E m \in Mqtt : Broker(m)
  BY <1>4 DEF Broker, PublishToBroker, Deliver, Ack
<1>5. CASE BufferChanges \/ Exit
  BY <1>5 DEF Next
<1>6. CASE UNCHANGED mqttVars
  BY <1>6 DEF mqttVars
<1> QED
  BY <1>1, <1>2, <1>3, <1>4, <1>5, <1>6 DEF MqttNext

(* MqttClient implements Ingest.                                            *)
THEOREM ImplementsIngest == MqttSpec => Spec
<1>1. MqttInit => Init
  BY DEF MqttInit
<1>2. [MqttNext]_mqttVars => [Next]_vars
  BY IngestStep
<1> QED
  BY <1>1, <1>2, PTL DEF MqttSpec, Spec

----------------------------------------------------------------------------
(* Ingest never takes up again what it is done with.                        *)
LEMMA DoneIsFinal ==
  ASSUME IInv, [Next]_vars, NEW m \in Messages, stage[m] = "done"
  PROVE  stage'[m] = "done"
<1>0. TypeOK /\ \A n \in Messages : MsgInv(n)
  BY DEF IInv
<1>1. CASE UNCHANGED vars \/ BufferChanges \/ Exit
  BY <1>1 DEF vars, BufferChanges, Exit
<1>2. ASSUME NEW n \in Messages, Accept(n) PROVE stage'[m] = "done"
  BY <1>0, <1>2 DEF Accept, TypeOK
<1>3. ASSUME NEW n \in Messages, NEW result, InsertReturns(n, result),
             insert[n] \in {"waiting", "executing"}
      PROVE  stage'[m] = "done"
  <2>1. n # m
    BY <1>0, <1>3 DEF MsgInv
  <2> QED
    BY <1>0, <1>3, <2>1 DEF InsertReturns, TypeOK
<1>4. ASSUME NEW n \in Messages, Insert(n) PROVE stage'[m] = "done"
  <2>1. CASE Exec(n) \/ GetConn(n)
    BY <2>1 DEF Exec, GetConn
  <2>2. CASE InsertSucceeds(n)
    BY <1>3, <2>2 DEF InsertSucceeds
  <2>3. CASE InsertFails(n) \/ Deadline(n)
    BY <1>3, <2>3 DEF InsertFails, Deadline
  <2> QED
    BY <1>4, <2>1, <2>2, <2>3 DEF Insert
<1>5. ASSUME NEW n \in Messages, Forward(n) PROVE stage'[m] = "done"
  <2>1. CASE Publish(n)
    BY <2>1 DEF Publish
  <2>2. CASE PublishRejected(n)
    BY <1>0, <2>2 DEF PublishRejected, TypeOK
  <2>3. CASE PublishReturns(n)
    <3>1. PICK r \in Kafka!Results : Kafka!Return(n, r)
      BY <2>3 DEF PublishReturns
    <3>2. n # m
      BY <1>0, <3>1 DEF Kafka!Return, MsgInv
    <3> QED
      BY <1>0, <2>3, <3>2 DEF PublishReturns, TypeOK
  <2> QED
    BY <1>5, <2>1, <2>2, <2>3 DEF Forward
<1>6. ASSUME NEW n \in Messages, RecordStored(n) \/ CommitAfterExit(n)
      PROVE  stage'[m] = "done"
  BY <1>6 DEF RecordStored, CommitAfterExit
<1> QED
  BY <1>1, <1>2, <1>4, <1>5, <1>6 DEF Next

----------------------------------------------------------------------------
LEMMA MqttInitIInv == MqttInit => MqttIInv
<1> SUFFICES ASSUME MqttInit PROVE MqttIInv
  OBVIOUS
<1>1. IInv
  BY InitIInv DEF MqttInit
<1>2. MqttTypeOK /\ AckedIsDone
  BY <1>1 DEF MqttInit, IInv, MqttTypeOK, Mail, AckedIsDone
<1> QED
  BY <1>1, <1>2 DEF MqttIInv

(* The session's end acknowledges nothing.                                  *)
LEMMA SessionEndKeeps ==
  ASSUME MqttTypeOK, SessionEnds
  PROVE  /\ sub' \in BOOLEAN /\ mail' \in [Mqtt -> Mail]
         /\ \A m \in Mqtt : mail'[m] = "acked" => mail[m] = "acked"
<1>1. PICK dropped \in SUBSET {m \in Mqtt : mail[m] = "received" /\ stage[m] = "idle"} :
        mail' = [m \in Mqtt |-> CASE m \in dropped \/ mail[m] = "queued"       -> "lost"
                                  [] m \notin dropped /\ mail[m] = "received" -> "stray"
                                  [] OTHER                                    -> mail[m]]
  BY DEF SessionEnds
<1>2. ASSUME NEW m \in Mqtt
      PROVE  mail'[m] \in Mail /\ (mail'[m] = "acked" => mail[m] = "acked")
  BY <1>1 DEF MqttTypeOK, Mail
<1> QED
  BY <1>1, <1>2 DEF SessionEnds

LEMMA MqttStep ==
  ASSUME MqttIInv, [MqttNext]_mqttVars
  PROVE  MqttIInv'
<1>0. IInv /\ MqttTypeOK /\ AckedIsDone
  BY DEF MqttIInv
<1>1. IInv'
  <2>1. CASE Next
    BY <1>0, <2>1, IngestInductive
  <2>2. CASE UNCHANGED vars
    BY <1>0, <2>2, IngestInductive
  <2> QED
    BY <2>1, <2>2, IngestStep
<1>2. TypeOK'
  BY <1>1 DEF IInv
<1>3. ASSUME NEW m \in Mqtt, stage[m] = "done" PROVE stage'[m] = "done"
  BY <1>0, <1>3, IngestStep, DoneIsFinal DEF Mqtt
<1>4. CASE NewMQTTClient \/ Subscribe \/ Reconnect
  BY <1>0, <1>1, <1>2, <1>3, <1>4
     DEF NewMQTTClient, Subscribe, Reconnect, MqttTypeOK, AckedIsDone, MqttIInv
<1>5. CASE Disconnect \/ ConnectionLost
  BY <1>0, <1>1, <1>2, <1>3, <1>5, SessionEndKeeps
     DEF Disconnect, ConnectionLost, MqttTypeOK, AckedIsDone, MqttIInv
<1>6. ASSUME NEW m \in Mqtt, Broker(m) PROVE MqttIInv'
  BY <1>0, <1>1, <1>2, <1>3, <1>6
     DEF Broker, PublishToBroker, Deliver, Ack, CallbackReturned, conn, MqttTypeOK, Mail,
         AckedIsDone, MqttIInv
<1>7. CASE UNCHANGED <<conn, mail>>
  BY <1>0, <1>1, <1>2, <1>3, <1>7 DEF conn, MqttTypeOK, AckedIsDone, MqttIInv
<1> QED
  BY <1>1, <1>4, <1>5, <1>6, <1>7 DEF MqttNext, mqttVars

(* MqttIInv holds throughout.                                               *)
THEOREM MqttInvariance == MqttSpec => []MqttIInv
<1>1. MqttIInv /\ [MqttNext]_mqttVars => MqttIInv'
  BY MqttStep
<1> QED
  BY <1>1, MqttInitIInv, PTL DEF MqttSpec

(* The type invariant of the client and of Ingest.                          *)
THEOREM MqttTypeCorrect == MqttSpec => []MqttTypeOK
<1>1. MqttIInv => MqttTypeOK
  BY DEF MqttIInv
<1> QED
  BY <1>1, MqttInvariance, PTL

(* The broker may forget a message only when both sinks have been tried,    *)
(* whatever breaks or dies.                                                 *)
THEOREM AckedIsTried == MqttSpec => []AckMeansTried
<1>1. MqttIInv => AckMeansTried
  BY DEF MqttIInv, IInv, AckedIsDone, MsgInv, Settled, Answered, AckMeansTried, Mqtt
<1> QED
  BY <1>1, MqttInvariance, PTL
=============================================================================
