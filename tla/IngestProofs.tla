---------------------------- MODULE IngestProofs ----------------------------
(***************************************************************************)
(* Proofs about Ingest, for every set of messages, every assignment of     *)
(* front ends and every size of the connection pool.                       *)
(***************************************************************************)
EXTENDS Ingest, TLAPS

Settled(m) == insert[m] \in {"ok", "failed"}
Answered(m) == outcome[m] \notin {"idle", "pending"}

(* What holds of one message at any time.  The sinks: a sink is in use only *)
(* in its stage, and a stage is entered only after the one before it.  REST *)
(* messages: Kafka hears only of an INSERT that returned ok, hence of a row *)
MsgInv(m) ==
  /\ insert[m] \in {"waiting", "executing"} => stage[m] = "db"
  /\ outcome[m] = "pending" => stage[m] = "kafka"
  /\ stage[m] = "kafka" /\ Proto[m] # "snmp" => Settled(m)
  /\ stage[m] = "db" /\ Proto[m] = "snmp" => Answered(m)
  /\ stage[m] = "done" /\ Proto[m] # "rest" => Settled(m) /\ Answered(m)
  /\ insert[m] = "ok" => m \in rows
  /\ Proto[m] = "rest" /\ stage[m] = "kafka" => insert[m] = "ok"
  /\ Proto[m] = "rest" /\ outcome[m] # "idle" => insert[m] = "ok"
  /\ m \in broker => outcome[m] # "idle"

IInv == TypeOK /\ \A m \in Messages : MsgInv(m)

----------------------------------------------------------------------------
LEMMA InitIInv == Init => IInv
<1> SUFFICES ASSUME Init PROVE IInv
  OBVIOUS
<1>1. TypeOK
  BY DEF Init, TypeOK, Kafka!Init
<1>2. \A m \in Messages : MsgInv(m)
  BY DEF Init, MsgInv, Kafka!Init, Settled, Answered
<1> QED
  BY <1>1, <1>2 DEF IInv

(* Everything an action of message m does not touch stays as it was.        *)
Others(m) ==
  \A n \in Messages \ {m} :
    /\ stage'[n] = stage[n] /\ insert'[n] = insert[n] /\ outcome'[n] = outcome[n]
    /\ n \in rows' <=> n \in rows
    /\ n \in broker' <=> n \in broker

LEMMA Frame ==
  ASSUME IInv, NEW m \in Messages, Others(m), TypeOK', MsgInv(m)'
  PROVE  IInv'
<1>1. ASSUME NEW n \in Messages \ {m} PROVE MsgInv(n)'
  BY <1>1 DEF IInv, Others, MsgInv, Settled, Answered
<1> QED
  BY <1>1 DEF IInv

LEMMA AcceptStep ==
  ASSUME IInv, NEW m \in Messages, Accept(m)
  PROVE  IInv'
<1>1. TypeOK'
  BY DEF IInv, TypeOK, Accept, FirstStage, kafka
<1>2. Others(m)
  BY DEF IInv, TypeOK, Accept, Others, kafka
<1>3. stage[m] = "idle" /\ stage'[m] = FirstStage(m) /\ UNCHANGED <<insert, rows, outcome, broker>>
  BY DEF IInv, TypeOK, Accept, kafka
<1>4. FirstStage(m) = IF Proto[m] = "snmp" THEN "kafka" ELSE "db"
  BY DEF FirstStage
<1>5. MsgInv(m)'
  BY <1>3, <1>4 DEF IInv, MsgInv, Settled, Answered
<1> QED
  BY <1>1, <1>2, <1>5, Frame

(* The INSERT of m begins, gets its connection or returns.                  *)
LEMMA InsertStep ==
  ASSUME IInv, NEW m \in Messages, Insert(m)
  PROVE  IInv'
<1>0. TypeOK /\ MsgInv(m)
  BY DEF IInv
<1>1. CASE Exec(m) \/ GetConn(m)
  <2>1. TypeOK' /\ Others(m)
    BY <1>0, <1>1 DEF Exec, GetConn, TypeOK, Others, kafka
  <2>2. MsgInv(m)'
    BY <1>0, <1>1 DEF Exec, GetConn, TypeOK, MsgInv, Settled, Answered, kafka
  <2> QED
    BY <2>1, <2>2, Frame
<1>2. ASSUME NEW result \in {"ok", "failed"}, InsertReturns(m, result),
             insert[m] \in {"waiting", "executing"}, UNCHANGED <<outcome, broker, room, running>>,
             rows' = rows \/ rows' = rows \union {m}, result = "ok" => m \in rows'
      PROVE  IInv'
  <2>1. TypeOK'
    BY <1>0, <1>2 DEF InsertReturns, StageAfterInsert, TypeOK
  <2>2. Others(m)
    BY <1>0, <1>2 DEF InsertReturns, TypeOK, Others
  <2>3. /\ insert'[m] = result /\ stage[m] = "db"
        /\ stage'[m] = StageAfterInsert(m, result = "ok")
    BY <1>0, <1>2 DEF InsertReturns, TypeOK, MsgInv
  <2>4. StageAfterInsert(m, result = "ok")
          = IF Proto[m] = "snmp" \/ (Proto[m] = "rest" /\ result # "ok") THEN "done" ELSE "kafka"
    BY DEF StageAfterInsert
  <2>5. MsgInv(m)'
    BY <1>0, <1>2, <2>3, <2>4 DEF MsgInv, Settled, Answered
  <2> QED
    BY <2>1, <2>2, <2>5, Frame
<1>3. CASE InsertSucceeds(m)
  BY <1>2, <1>3 DEF InsertSucceeds, kafka
<1>4. CASE InsertFails(m)
  BY <1>2, <1>4 DEF InsertFails, kafka
<1>5. CASE Deadline(m)
  <2>1. rows' = rows \/ rows' = rows \union {m}
    BY <1>5 DEF Deadline
  <2> QED
    BY <1>2, <1>5, <2>1 DEF Deadline, kafka
<1> QED
  BY <1>1, <1>3, <1>4, <1>5 DEF Insert

(* Publish of m is called, rejects its payload or returns.                  *)
LEMMA ForwardStep ==
  ASSUME IInv, NEW m \in Messages, Forward(m)
  PROVE  IInv'
<1>0. TypeOK /\ MsgInv(m)
  BY DEF IInv
<1>1. CASE Publish(m)
  <2>1. TypeOK' /\ Others(m)
    BY <1>0, <1>1 DEF Publish, Kafka!Call, TypeOK, Others
  <2>2. /\ stage[m] = "kafka" /\ outcome'[m] = "pending"
        /\ UNCHANGED <<stage, insert, rows, broker>>
    BY <1>0, <1>1 DEF Publish, Kafka!Call, TypeOK
  <2>3. MsgInv(m)'
    BY <1>0, <2>2 DEF MsgInv, Settled, Answered
  <2> QED
    BY <2>1, <2>3, Frame
<1>2. ASSUME NEW r \in {"ok", "failed", "timeout", "marshal"},
             outcome' = [outcome EXCEPT ![m] = r],
             stage' = [stage EXCEPT ![m] = StageAfterPublish(m)],
             stage[m] = "kafka", UNCHANGED <<insert, rows, broker, room, running>>
      PROVE  IInv'
  <2>1. TypeOK'
    BY <1>0, <1>2 DEF StageAfterPublish, TypeOK, Kafka!Results
  <2>2. Others(m)
    BY <1>0, <1>2 DEF TypeOK, Others
  <2>3. outcome'[m] = r /\ stage'[m] = StageAfterPublish(m)
    BY <1>0, <1>2 DEF TypeOK
  <2>4. StageAfterPublish(m) = IF Proto[m] = "snmp" THEN "db" ELSE "done"
    BY DEF StageAfterPublish
  <2>5. MsgInv(m)'
    BY <1>0, <1>2, <2>3, <2>4 DEF MsgInv, Settled, Answered
  <2> QED
    BY <2>1, <2>2, <2>5, Frame
<1>3. CASE PublishRejected(m)
  BY <1>2, <1>3 DEF PublishRejected, Kafka!Reject
<1>4. CASE PublishReturns(m)
  <2>1. PICK r \in Kafka!Results : Kafka!Return(m, r)
    BY <1>4 DEF PublishReturns
  <2>2. stage[m] = "kafka"
    BY <1>0, <2>1 DEF Kafka!Return, MsgInv
  <2> QED
    BY <1>2, <1>4, <2>1, <2>2 DEF PublishReturns, Kafka!Return, Kafka!Results
<1> QED
  BY <1>1, <1>3, <1>4 DEF Forward

(* Kafka stores m's record; PostgreSQL commits m after the process ended.   *)
LEMMA LateStep ==
  ASSUME IInv, NEW m \in Messages, RecordStored(m) \/ CommitAfterExit(m)
  PROVE  IInv'
<1>0. TypeOK /\ MsgInv(m)
  BY DEF IInv
<1>1. CASE RecordStored(m)
  <2>1. TypeOK' /\ Others(m)
    BY <1>0, <1>1 DEF RecordStored, Kafka!Store, TypeOK, Others
  <2>2. MsgInv(m)'
    BY <1>0, <1>1 DEF RecordStored, Kafka!Store, MsgInv, Settled, Answered
  <2> QED
    BY <2>1, <2>2, Frame
<1>2. CASE CommitAfterExit(m)
  <2>1. TypeOK' /\ Others(m)
    BY <1>0, <1>2 DEF CommitAfterExit, TypeOK, Others, kafka
  <2>2. MsgInv(m)'
    BY <1>0, <1>2 DEF CommitAfterExit, MsgInv, Settled, Answered, kafka
  <2> QED
    BY <2>1, <2>2, Frame
<1> QED
  BY <1>1, <1>2

LEMMA IngestInductive ==
  ASSUME IInv, [Next]_vars
  PROVE  IInv'
<1>1. CASE \E m \in Messages : Accept(m) \/ Insert(m) \/ Forward(m)
                                 \/ RecordStored(m) \/ CommitAfterExit(m)
  BY <1>1, AcceptStep, InsertStep, ForwardStep, LateStep
<1>2. CASE BufferChanges \/ Exit
  BY <1>2 DEF BufferChanges, Exit, IInv, TypeOK, MsgInv, Settled, Answered, kafka
<1>3. CASE UNCHANGED vars
  BY <1>3 DEF vars, kafka, IInv, TypeOK, MsgInv, Settled, Answered
<1> QED
  BY <1>1, <1>2, <1>3 DEF Next

(* IInv holds throughout.                                                   *)
THEOREM Invariance == Spec => []IInv
<1>1. IInv /\ [Next]_vars => IInv'
  BY IngestInductive
<1> QED
  BY <1>1, InitIInv, PTL DEF Spec

(* The type invariant, with IInv.                                           *)
THEOREM TypeCorrect == Spec => []TypeOK
<1>1. IInv => TypeOK
  BY DEF IInv
<1> QED
  BY <1>1, Invariance, PTL

(* A REST record on Kafka has its row, whatever fails, times out, is late   *)
(* or dies.                                                                 *)
THEOREM NoRecordWithoutRow == Spec => []RestRecordHasRow
<1>1. IInv => RestRecordHasRow
  BY DEF IInv, MsgInv, RestRecordHasRow
<1> QED
  BY <1>1, Invariance, PTL

(* CoAP, MQTT and SNMP try both sinks.                                      *)
THEOREM NoSinkSkipped == Spec => []BothSinksTried
<1>1. IInv => BothSinksTried
  BY DEF IInv, MsgInv, Settled, Answered, BothSinksTried
<1> QED
  BY <1>1, Invariance, PTL
=============================================================================
