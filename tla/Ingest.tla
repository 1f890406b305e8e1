------------------------------- MODULE Ingest -------------------------------
(***************************************************************************)
(* What happens to a message once a protocol front end has taken it up:    *)
(* the REST save goroutine (server/server.go with db.SaveToDBWithError),   *)
(* the CoAP goroutine (coap/coap.go), the MQTT callback                    *)
(* (mqttclient/mqtt.go) and processResults (snmpclient/snmp.go).  Each     *)
(* brings the message to two sinks, PostgreSQL through a bounded pool and  *)
(* Kafka through KafkaPublisherInterface, in its own order and with its    *)
(* own reaction to a failure.  DbPool is not nil: main gives up at boot if *)
(* InitDB fails.                                                           *)
(***************************************************************************)
EXTENDS Integers, FiniteSets

CONSTANTS
  Messages,     \* the messages that arrive
  Proto,        \* Proto[m]: the front end that takes m up
  MaxOpenConns  \* SetMaxOpenConns (25 in the code)

Protocols == {"rest", "coap", "mqtt", "snmp"}

ASSUME IngestAssumption ==
  /\ Proto \in [Messages -> Protocols]
  /\ MaxOpenConns \in Nat \ {0}

VARIABLES
  stage,      \* the sink each message's goroutine is busy with
  insert,     \* its INSERT: waiting for a connection, executing, or returned
  rows,       \* the messages PostgreSQL has committed
  outcome,    \* its Publish (module Publisher)
  broker,     \* the messages Kafka has stored (module Publisher)
  room,       \* the producer's buffer has room for another record
  running     \* the process is alive

vars == <<stage, insert, rows, outcome, broker, room, running>>
kafka == <<outcome, broker, room>>

Kafka == INSTANCE Publisher WITH Calls <- Messages

Init ==
  /\ stage = [m \in Messages |-> "idle"]
  /\ insert = [m \in Messages |-> "none"]
  /\ rows = {}
  /\ Kafka!Init
  /\ room = TRUE
  /\ running = TRUE

----------------------------------------------------------------------------
(* The order of the sinks.  SNMP publishes first; REST publishes only what  *)
(* it has saved; CoAP and MQTT publish in any case.                         *)

FirstStage(m) == IF Proto[m] = "snmp" THEN "kafka" ELSE "db"

Bug_PublishUnsaved(m, ok) == IF Proto[m] = "snmp" THEN "done" ELSE "kafka"
Bug_GiveUpUnsaved(m, ok) == IF ok /\ Proto[m] # "snmp" THEN "kafka" ELSE "done"
StageAfterInsert(m, ok) ==
  IF Proto[m] = "snmp" \/ (Proto[m] = "rest" /\ ~ok) THEN "done" ELSE "kafka"

StageAfterPublish(m) == IF Proto[m] = "snmp" THEN "db" ELSE "done"

Busy(m) == stage[m] \in {"db", "kafka"}

(* paho runs the callback of one message at a time.                         *)
Accept(m) ==
  /\ running /\ stage[m] = "idle"
  /\ Proto[m] = "mqtt" => \A n \in Messages : Proto[n] = "mqtt" => ~Busy(n)
  /\ stage' = [stage EXCEPT ![m] = FirstStage(m)]
  /\ UNCHANGED <<insert, rows, kafka, running>>

----------------------------------------------------------------------------
(* ExecContext with a five-second deadline that also covers the wait for a  *)
(* connection (database/sql and PostgreSQL are external).                   *)

Exec(m) ==
  /\ running /\ stage[m] = "db" /\ insert[m] = "none"
  /\ insert' = [insert EXCEPT ![m] = "waiting"]
  /\ UNCHANGED <<stage, rows, kafka, running>>

InUse == {m \in Messages : insert[m] = "executing"}

GetConn(m) ==
  /\ running /\ insert[m] = "waiting"
  /\ Cardinality(InUse) < MaxOpenConns
  /\ insert' = [insert EXCEPT ![m] = "executing"]
  /\ UNCHANGED <<stage, rows, kafka, running>>

InsertReturns(m, result) ==
  /\ insert' = [insert EXCEPT ![m] = result]
  /\ stage' = [stage EXCEPT ![m] = StageAfterInsert(m, result = "ok")]

InsertSucceeds(m) ==
  /\ running /\ insert[m] = "executing"
  /\ rows' = rows \union {m}
  /\ InsertReturns(m, "ok")
  /\ UNCHANGED <<kafka, running>>

(* The server refuses, the connection breaks or the pool is closed.         *)
Bug_UnknownResult(m) ==
  /\ running /\ insert[m] \in {"waiting", "executing"}
  /\ InsertReturns(m, "error")
  /\ UNCHANGED <<rows, kafka, running>>
InsertFails(m) ==
  /\ running /\ insert[m] \in {"waiting", "executing"}
  /\ InsertReturns(m, "failed")
  /\ UNCHANGED <<rows, kafka, running>>

(* The deadline passes.  A statement that was executing may have committed. *)
Bug_NoDeadline(m) == FALSE
HasDeadline(m) == TRUE
Deadline(m) ==
  /\ running /\ insert[m] \in {"waiting", "executing"} /\ HasDeadline(m)
  /\ rows' \in {rows} \union {rows \union {n} : n \in {m} \intersect InUse}
  /\ InsertReturns(m, "failed")
  /\ UNCHANGED <<kafka, running>>

----------------------------------------------------------------------------
(* Publish.  Produce waits, without a deadline, until kgo's buffer has room *)
(* (KafkaPublisher has the buffer itself); the five seconds begin then.     *)

Publish(m) ==
  /\ running /\ stage[m] = "kafka" /\ room
  /\ Kafka!Call(m)
  /\ UNCHANGED <<stage, insert, rows, room, running>>

(* The records of these and of all other messages fill it and leave it.     *)
BufferChanges ==
  /\ running
  /\ room' = ~room
  /\ UNCHANGED <<stage, insert, rows, outcome, broker, running>>

PublishRejected(m) ==
  /\ running /\ stage[m] = "kafka"
  /\ Kafka!Reject(m)
  /\ stage' = [stage EXCEPT ![m] = StageAfterPublish(m)]
  /\ UNCHANGED <<insert, rows, room, running>>

(* An error is logged and otherwise ignored.                                *)
PublishReturns(m) ==
  /\ running
  /\ \E r \in Kafka!Results : Kafka!Return(m, r)
  /\ stage' = [stage EXCEPT ![m] = StageAfterPublish(m)]
  /\ UNCHANGED <<insert, rows, room, running>>

RecordStored(m) ==
  /\ Kafka!Store(m)
  /\ UNCHANGED <<stage, insert, rows, room, running>>

----------------------------------------------------------------------------
(* The process ends, by a crash or at the end of main, which waits for none *)
(* of these goroutines.  A statement already sent may still commit.         *)
Exit ==
  /\ running
  /\ running' = FALSE
  /\ UNCHANGED <<stage, insert, rows, kafka>>

CommitAfterExit(m) ==
  /\ ~running /\ insert[m] = "executing"
  /\ rows' = rows \union {m}
  /\ UNCHANGED <<stage, insert, kafka, running>>

Insert(m) == \/ Exec(m) \/ GetConn(m) \/ InsertSucceeds(m) \/ InsertFails(m) \/ Deadline(m)
Forward(m) == Publish(m) \/ PublishRejected(m) \/ PublishReturns(m)

Next ==
  \/ \E m \in Messages : Accept(m) \/ Insert(m) \/ Forward(m) \/ RecordStored(m) \/ CommitAfterExit(m)
  \/ BufferChanges \/ Exit

Spec == Init /\ [][Next]_vars

(* A goroutine that can go on does, and the two timers of five seconds, of  *)
(* ExecContext and of Publish, pass.  Neither PostgreSQL nor Kafka need     *)
(* answer, and nothing says that the buffer gets room.                      *)
Fairness ==
  \A m \in Messages :
    /\ WF_vars(Exec(m)) /\ WF_vars(Deadline(m))
    /\ WF_vars(Publish(m)) /\ WF_vars(PublishReturns(m))

FairSpec == Spec /\ Fairness

----------------------------------------------------------------------------
TypeOK ==
  /\ stage \in [Messages -> {"idle", "db", "kafka", "done"}]
  /\ insert \in [Messages -> {"none", "waiting", "executing", "ok", "failed"}]
  /\ rows \subseteq Messages
  /\ outcome \in [Messages -> {"idle", "pending", "marshal"} \union Kafka!Results]
  /\ broker \subseteq Messages
  /\ room \in BOOLEAN /\ running \in BOOLEAN

(* A REST message that other systems see on Kafka is in the database too,   *)
(* even if the process dies, an insert times out or a record arrives late.  *)
(* (Not the other way round: an INSERT may commit as its deadline passes,   *)
(* or the process end after it, and then nobody publishes the message.)     *)
RestRecordHasRow == \A m \in Messages : Proto[m] = "rest" /\ m \in broker => m \in rows

(* The other front ends try both sinks whatever the first one says.         *)
BothSinksTried ==
  \A m \in Messages :
    stage[m] = "done" /\ Proto[m] # "rest" =>
      insert[m] \in {"ok", "failed"} /\ outcome[m] \notin {"idle", "pending"}

(* Every message that was taken up is finished with in the end, even if     *)
(* PostgreSQL never answers and the pool is exhausted, unless Kafka's       *)
(* buffer is full time and again: nothing else holds a goroutine for good.  *)
EveryMessageSettles ==
  \A m \in Messages : Busy(m) ~> (stage[m] = "done" \/ ~running \/ ~room)
=============================================================================
