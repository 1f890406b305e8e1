------------------------ MODULE KafkaPublisherProofs ------------------------
(***************************************************************************)
(* Proofs about KafkaPublisher, for every set of calls and every buffer    *)
(* size: its type invariant, that success means delivery, that a call is   *)
(* sent one result at most, that the metrics count what Publish returned,  *)
(* and that Publish implements the contract of KafkaPublisherInterface.    *)
(***************************************************************************)
EXTENDS KafkaPublisher, FiniteSetTheorems, SequenceTheorems, TLAPS

(* Where a "nil" can be on its way to Publish: a promise still queued, or a *)
(* result still in the channel.  Each stands for a stored record.           *)
PromisesAreHonest ==
  \A i \in DOMAIN promises : promises[i].err = "nil" => record[promises[i].call] = "stored"

ResultsAreHonest ==
  \A c \in Calls : \A i \in DOMAIN resultChan[c] :
    resultChan[c][i] = "nil" => record[c] = "stored"

(* Before Produce there is no record.                                       *)
NoEarlyRecord ==
  \A c \in Calls : call[c] \in {"idle", "produce", "marshal"} => record[c] = "none"

IInv == TypeOK /\ PromisesAreHonest /\ ResultsAreHonest /\ NoEarlyRecord /\ SuccessIsDelivered

(* What the operations on a sequence leave inside it.                       *)
LEMMA SeqTail ==
  ASSUME NEW S, NEW s \in Seq(S), s # <<>>
  PROVE  Head(s) \in S /\ Tail(s) \in Seq(S)
  OBVIOUS

LEMMA SeqAppend ==
  ASSUME NEW S, NEW s \in Seq(S), NEW e \in S
  PROVE  Append(s, e) \in Seq(S)
  OBVIOUS

LEMMA SeqEmpty ==
  ASSUME NEW S
  PROVE  <<>> \in Seq(S)
  OBVIOUS

(* The type invariant: every field of the publisher keeps its range.        *)
THEOREM TypeCorrect == Spec => []TypeOK
<1>1. Init => TypeOK
  <2> SUFFICES ASSUME Init PROVE TypeOK
    OBVIOUS
  <2>1. <<>> \in Seq(Error) /\ <<>> \in Seq(Promise)
    BY SeqEmpty
  <2>2. resultChan \in [Calls -> Seq(Error)] /\ promises \in Seq(Promise)
    BY <2>1 DEF Init
  <2>3. call \in [Calls -> {"idle", "produce", "wait"} \union Returned]
    BY DEF Init
  <2>4. record \in [Calls -> {"none", "buffered", "sent", "stored"}]
    BY DEF Init
  <2>5. metrics \in [Results -> Nat] /\ slots \subseteq Calls /\ closed \in BOOLEAN
    BY DEF Init
  <2> QED
    BY <2>2, <2>3, <2>4, <2>5 DEF TypeOK
<1>2. TypeOK /\ [Next]_vars => TypeOK'
  <2> SUFFICES ASSUME TypeOK, [Next]_vars
               PROVE  TypeOK'
    OBVIOUS
  <2> USE DEF TypeOK, Results, Returned, kgo
  <2>0. \A c \in Calls, err \in Error : [call |-> c, err |-> err] \in Promise
    BY DEF Promise
  <2>1. ASSUME NEW c \in Calls, Publish(c) \/ MarshalFails(c)
        PROVE  TypeOK'
    BY <2>1 DEF Publish, MarshalFails
  <2>2. ASSUME NEW c \in Calls, Produce(c)
        PROVE  TypeOK'
    <3>1. [call |-> c, err |-> "err"] \in Promise
      BY <2>0 DEF Error
    <3>2. Append(promises, [call |-> c, err |-> "err"]) \in Seq(Promise)
      BY <3>1, SeqAppend
    <3>3. promises' \in Seq(Promise) /\ slots' \subseteq Calls
      BY <2>2, <3>2 DEF Produce
    <3>4. call' \in [Calls -> {"idle", "produce", "wait"} \union Returned]
      BY <2>2 DEF Produce
    <3>5. record' \in [Calls -> {"none", "buffered", "sent", "stored"}]
      BY <2>2 DEF Produce
    <3> QED
      BY <2>2, <3>3, <3>4, <3>5 DEF Produce
  <2>3. ASSUME NEW c \in Calls, ReceiveResult(c)
        PROVE  TypeOK'
    <3>1. Verdict(Head(resultChan[c])) \in {"ok", "failed"}
      BY DEF Verdict
    <3>2. Tail(resultChan[c]) \in Seq(Error)
      BY <2>3, SeqTail DEF ReceiveResult
    <3> QED
      BY <2>3, <3>1, <3>2 DEF ReceiveResult, RecordKafkaPublish
  <2>4. ASSUME NEW c \in Calls, Timeout(c)
        PROVE  TypeOK'
    BY <2>4 DEF Timeout, RecordKafkaPublish
  <2>5. ASSUME NEW c \in Calls, Send(c) \/ BrokerStores(c)
        PROVE  TypeOK'
    BY <2>5 DEF Send, BrokerStores
  <2>6. ASSUME NEW c \in Calls, BrokerAcks(c) \/ RecordFails(c)
        PROVE  TypeOK'
    <3>1. PICK err \in Error : Decide(c, err)
      BY <2>6 DEF BrokerAcks, RecordFails, Error
    <3>2. Append(promises, [call |-> c, err |-> err]) \in Seq(Promise)
      BY <2>0, SeqAppend
    <3> QED
      BY <3>1, <3>2 DEF Decide
  <2>7. CASE RunPromise
    <3>1. Head(promises) \in Promise /\ Tail(promises) \in Seq(Promise)
      BY <2>7, SeqTail DEF RunPromise
    <3>2. Head(promises).call \in Calls /\ Head(promises).err \in Error
      BY <3>1 DEF Promise
    <3>3. Append(resultChan[Head(promises).call], Head(promises).err) \in Seq(Error)
      BY <3>2, SeqAppend
    <3> QED
      BY <2>7, <3>1, <3>2, <3>3 DEF RunPromise, PromiseSend
  <2>8. CASE Close
    BY <2>8 DEF Close
  <2>9. CASE UNCHANGED vars
    BY <2>9 DEF vars
  <2> QED
    BY <2>1, <2>2, <2>3, <2>4, <2>5, <2>6, <2>7, <2>8, <2>9
       DEF Next, Caller, Running, Producer
<1> QED
  BY <1>1, <1>2, PTL DEF Spec

(* One step keeps the strengthened invariant.  Only Produce moves a record  *)
(* backwards, and NoEarlyRecord says it moves it from "none".               *)
LEMMA HonestyStep ==
  ASSUME TypeOK, PromisesAreHonest, ResultsAreHonest, NoEarlyRecord, SuccessIsDelivered,
         [Next]_vars
  PROVE  /\ PromisesAreHonest' /\ ResultsAreHonest'
         /\ NoEarlyRecord' /\ SuccessIsDelivered'
<1> DEFINE Honest == /\ PromisesAreHonest' /\ ResultsAreHonest'
                     /\ NoEarlyRecord' /\ SuccessIsDelivered'
<1>0. /\ call \in [Calls -> {"idle", "produce", "wait"} \union Returned]
      /\ resultChan \in [Calls -> Seq(Error)]
      /\ record \in [Calls -> {"none", "buffered", "sent", "stored"}]
      /\ promises \in Seq(Promise)
      /\ \A i \in DOMAIN promises : promises[i].call \in Calls /\ promises[i].err \in Error
  <2>1. \A i \in DOMAIN promises : promises[i] \in Promise
    BY DEF TypeOK
  <2> QED
    BY <2>1 DEF TypeOK, Promise
<1> USE DEF PromisesAreHonest, ResultsAreHonest, NoEarlyRecord, SuccessIsDelivered, Delivered
<1>1. ASSUME NEW c \in Calls, Publish(c) \/ MarshalFails(c)
      PROVE  Honest
  BY <1>0, <1>1 DEF Publish, MarshalFails, kgo
<1>2. ASSUME NEW c \in Calls, Produce(c)
      PROVE  Honest
  <2>1. record[c] = "none" /\ call' = [call EXCEPT ![c] = "wait"] /\ resultChan' = resultChan
    BY <1>2 DEF Produce
  <2>2. CASE record' = [record EXCEPT ![c] = "buffered"] /\ promises' = promises
    BY <1>0, <2>1, <2>2
  <2>3. CASE record' = record /\ promises' = Append(promises, [call |-> c, err |-> "err"])
    <3>1. PromisesAreHonest'
      <4> SUFFICES ASSUME NEW i \in DOMAIN promises', promises'[i].err = "nil"
                   PROVE  record[promises'[i].call] = "stored"
        BY <2>3
      <4>1. CASE i = Len(promises) + 1
        BY <1>0, <2>3, <4>1
      <4>2. CASE i \in DOMAIN promises
        BY <1>0, <2>3, <4>2
      <4> QED
        BY <1>0, <2>3, <4>1, <4>2
    <3> QED
      BY <1>0, <2>1, <2>3, <3>1
  <2> QED
    BY <1>2, <2>2, <2>3 DEF Produce
<1>3. CASE RunPromise
  <2> DEFINE p == Head(promises)
  <2>1. p = promises[1] /\ 1 \in DOMAIN promises /\ p.call \in Calls /\ p.err \in Error
    BY <1>0, <1>3 DEF RunPromise
  <2>2. /\ resultChan' = [resultChan EXCEPT ![p.call] = Append(@, p.err)]
        /\ promises' = Tail(promises) /\ record' = record /\ call' = call
    BY <1>3 DEF RunPromise, PromiseSend
  <2>3. PromisesAreHonest'
    BY <1>0, <1>3, <2>2 DEF RunPromise
  <2>4. ResultsAreHonest'
    <3> SUFFICES ASSUME NEW c \in Calls, NEW i \in DOMAIN resultChan'[c],
                        resultChan'[c][i] = "nil"
                 PROVE  record[c] = "stored"
      BY <2>2
    <3>1. CASE c # p.call
      BY <1>0, <2>1, <2>2, <3>1
    <3>2. CASE c = p.call
      <4>1. resultChan[c] \in Seq(Error) /\ resultChan'[c] = Append(resultChan[c], p.err)
        BY <1>0, <2>1, <2>2, <3>2
      <4>2. CASE i \in DOMAIN resultChan[c]
        BY <4>1, <4>2
      <4>3. CASE i = Len(resultChan[c]) + 1
        BY <2>1, <3>2, <4>1, <4>3
      <4> QED
        BY <4>1, <4>2, <4>3
    <3> QED
      BY <3>1, <3>2
  <2> QED
    BY <2>2, <2>3, <2>4
<1>4. ASSUME NEW c \in Calls, ReceiveResult(c)
      PROVE  Honest
  <2> DEFINE e == Head(resultChan[c])
  <2>1. /\ resultChan[c] \in Seq(Error) /\ resultChan[c] # <<>>
        /\ call' = [call EXCEPT ![c] = Verdict(e)]
        /\ resultChan' = [resultChan EXCEPT ![c] = Tail(@)]
        /\ record' = record /\ promises' = promises
    BY <1>0, <1>4 DEF ReceiveResult, kgo
  <2>2. Verdict(e) \in {"ok", "failed"} /\ (Verdict(e) = "ok" => record[c] = "stored")
    BY <2>1 DEF Verdict
  <2>3. ResultsAreHonest'
    BY <1>0, <2>1
  <2>4. NoEarlyRecord' /\ SuccessIsDelivered'
    BY <1>0, <2>1, <2>2
  <2> QED
    BY <2>1, <2>3, <2>4
<1>5. ASSUME NEW c \in Calls, Timeout(c)
      PROVE  Honest
  BY <1>0, <1>5 DEF Timeout, kgo
<1>6. ASSUME NEW c \in Calls, Send(c) \/ BrokerStores(c)
      PROVE  Honest
  BY <1>0, <1>6 DEF Send, BrokerStores
<1>7. ASSUME NEW c \in Calls, BrokerAcks(c) \/ RecordFails(c)
      PROVE  Honest
  <2>1. PICK err \in Error : Decide(c, err) /\ (err = "nil" => record[c] = "stored")
    BY <1>7 DEF BrokerAcks, RecordFails, Error
  <2>2. promises' = Append(promises, [call |-> c, err |-> err])
        /\ UNCHANGED <<call, resultChan, record>>
    BY <2>1 DEF Decide
  <2>3. PromisesAreHonest'
    <3> SUFFICES ASSUME NEW i \in DOMAIN promises', promises'[i].err = "nil"
                 PROVE  record[promises'[i].call] = "stored"
      BY <2>2
    <3>1. CASE i = Len(promises) + 1
      BY <1>0, <2>1, <2>2, <3>1
    <3>2. CASE i \in DOMAIN promises
      BY <1>0, <2>2, <3>2
    <3> QED
      BY <1>0, <2>2, <3>1, <3>2
  <2> QED
    BY <2>2, <2>3
<1>8. CASE Close \/ UNCHANGED vars
  BY <1>8 DEF Close, vars, kgo
<1> QED
  BY <1>1, <1>2, <1>3, <1>4, <1>5, <1>6, <1>7, <1>8 DEF Next, Caller, Running, Producer

(* The strengthened invariant holds in every reachable state.               *)
THEOREM Invariance == Spec => []IInv
<1>1. Init => PromisesAreHonest /\ ResultsAreHonest /\ NoEarlyRecord /\ SuccessIsDelivered
  BY DEF Init, PromisesAreHonest, ResultsAreHonest, NoEarlyRecord, SuccessIsDelivered
<1>2. /\ TypeOK /\ TypeOK' /\ [Next]_vars
      /\ PromisesAreHonest /\ ResultsAreHonest /\ NoEarlyRecord /\ SuccessIsDelivered
      => (PromisesAreHonest /\ ResultsAreHonest /\ NoEarlyRecord /\ SuccessIsDelivered)'
  BY HonestyStep
<1>3. Spec => [](PromisesAreHonest /\ ResultsAreHonest /\ NoEarlyRecord /\ SuccessIsDelivered)
  BY <1>1, <1>2, TypeCorrect, PTL DEF Spec
<1> QED
  BY <1>3, TypeCorrect, PTL DEF IInv

(* Publish returns nil only for a record the broker has.                    *)
THEOREM PublishIsHonest == Spec => []SuccessIsDelivered
  BY Invariance, PTL DEF IInv

(* What the contract sees of the state.                                     *)
Outcome == [c \in Calls |-> IF call[c] \in {"produce", "wait"} THEN "pending" ELSE call[c]]

(* Every step of the publisher is a step of the contract, or invisible.     *)
LEMMA ContractStep ==
  ASSUME IInv, [Next]_vars
  PROVE  [Contract!Next]_<<Outcome, Delivered>>
<1> USE DEF Outcome, Delivered
<1>0. /\ call \in [Calls -> {"idle", "produce", "wait"} \union Returned]
      /\ record \in [Calls -> {"none", "buffered", "sent", "stored"}]
      /\ NoEarlyRecord
  BY DEF IInv, TypeOK
<1>1. ASSUME NEW c \in Calls, Publish(c)
      PROVE  Contract!Call(c)
  BY <1>0, <1>1 DEF Publish, Contract!Call, kgo
<1>2. ASSUME NEW c \in Calls, MarshalFails(c)
      PROVE  Contract!Reject(c)
  BY <1>0, <1>2 DEF MarshalFails, Contract!Reject, kgo
<1>3. ASSUME NEW c \in Calls, Produce(c)
      PROVE  UNCHANGED <<Outcome, Delivered>>
  <2>1. record[c] = "none" /\ call[c] = "produce" /\ call' = [call EXCEPT ![c] = "wait"]
    BY <1>0, <1>3 DEF Produce, NoEarlyRecord
  <2>2. record' = [record EXCEPT ![c] = "buffered"] \/ record' = record
    BY <1>3 DEF Produce
  <2> QED
    BY <1>0, <2>1, <2>2
<1>4. ASSUME NEW c \in Calls, ReceiveResult(c)
      PROVE  Contract!Return(c, "ok") \/ Contract!Return(c, "failed")
  <2> DEFINE r == Verdict(Head(resultChan[c]))
  <2>1. /\ call[c] = "wait" /\ call' = [call EXCEPT ![c] = r] /\ record' = record
        /\ resultChan[c] # <<>> /\ resultChan[c] \in Seq(Error)
    BY <1>4 DEF ReceiveResult, kgo, IInv, TypeOK
  <2>2. r \in {"ok", "failed"} /\ (r = "ok" => record[c] = "stored")
    <3>1. Head(resultChan[c]) = resultChan[c][1] /\ 1 \in DOMAIN resultChan[c]
      BY <2>1
    <3> QED
      BY <3>1 DEF Verdict, IInv, ResultsAreHonest
  <2>3. CASE r = "ok"
    <3>1. call' = [call EXCEPT ![c] = "ok"] /\ record[c] = "stored"
      BY <2>1, <2>2, <2>3
    <3> QED
      BY <1>0, <2>1, <3>1 DEF Contract!Return
  <2>4. CASE r = "failed"
    <3>1. call' = [call EXCEPT ![c] = "failed"]
      BY <2>1, <2>4
    <3> QED
      BY <1>0, <2>1, <3>1 DEF Contract!Return
  <2> QED
    BY <2>2, <2>3, <2>4
<1>5. ASSUME NEW c \in Calls, Timeout(c)
      PROVE  Contract!Return(c, "timeout")
  BY <1>0, <1>5 DEF Timeout, Contract!Return, kgo
<1>6. ASSUME NEW c \in Calls, BrokerStores(c)
      PROVE  Contract!Store(c)
  BY <1>0, <1>6 DEF BrokerStores, Contract!Store, NoEarlyRecord
<1>7. ASSUME NEW c \in Calls, Send(c) \/ BrokerAcks(c) \/ RecordFails(c)
      PROVE  UNCHANGED <<Outcome, Delivered>>
  BY <1>0, <1>7 DEF Send, BrokerAcks, RecordFails, Decide
<1>8. CASE RunPromise \/ Close \/ UNCHANGED vars
  BY <1>8 DEF RunPromise, Close, vars, kgo
<1> QED
  BY <1>1, <1>2, <1>3, <1>4, <1>5, <1>6, <1>7, <1>8
     DEF Next, Caller, Running, Producer, Contract!Next, Contract!Results

(* KafkaPublisher implements Publisher: whatever is proved of a caller that *)
(* uses the contract holds when it uses kafka.go.                           *)
THEOREM Refinement == Spec => ImplementsContract
<1>1. Init => Contract!Init
  BY DEF Init, Contract!Init, Delivered
<1>2. IInv /\ [Next]_vars => [Contract!Next]_<<Outcome, Delivered>>
  BY ContractStep
<1> QED
  BY <1>1, <1>2, Invariance, PTL DEF Spec, ImplementsContract, Contract!Spec, Outcome

----------------------------------------------------------------------------
(* The one result of a call is with its record, then with a promise, then   *)
(* in the channel, and never in two of these places; only a call that is in *)
(* the select, or has left it by the timeout, still has one to come.        *)
OneToken ==
  /\ \A i, j \in DOMAIN promises : promises[i].call = promises[j].call => i = j
  /\ \A c \in Calls :
       /\ Len(resultChan[c]) <= 1
       /\ resultChan[c] # <<>> => ~Queued(c) /\ c \notin slots
       /\ resultChan[c] # <<>> \/ Queued(c) \/ c \in slots => call[c] \in {"wait", "timeout"}

(* The queue of promises after kgo has put one in.                          *)
LEMMA QueueGrows ==
  ASSUME TypeOK, OneToken, NEW c \in Calls, NEW err \in Error, ~Queued(c),
         promises' = Append(promises, [call |-> c, err |-> err])
  PROVE  /\ \A i, j \in DOMAIN promises' : promises'[i].call = promises'[j].call => i = j
         /\ \A d \in Calls : Queued(d)' <=> Queued(d) \/ d = c
<1> DEFINE n == Len(promises)
<1>1. promises \in Seq(Promise) /\ [call |-> c, err |-> err] \in Promise
  BY DEF TypeOK, Promise
<1>2. n \in Nat /\ DOMAIN promises = 1..n /\ DOMAIN promises' = 1..(n + 1)
      /\ \A i \in 1..n : promises'[i] = promises[i] /\ promises[i].call # c
      /\ promises'[n + 1].call = c
  BY <1>1, AppendProperties DEF Queued
<1> HIDE DEF n
<1>3. \A i \in 1..(n + 1) : i \in 1..n \/ i = n + 1
  BY <1>2
<1>4. 1..n \subseteq 1..(n + 1) /\ n + 1 \in 1..(n + 1)
  BY <1>2
<1>5. \A i, j \in DOMAIN promises' : promises'[i].call = promises'[j].call => i = j
  BY <1>2, <1>3 DEF OneToken
<1>6. \A d \in Calls : Queued(d)' <=> Queued(d) \/ d = c
  BY <1>2, <1>3, <1>4 DEF Queued
<1> QED
  BY <1>5, <1>6

(* The queue after kgo has taken one out.                                   *)
LEMMA QueueShrinks ==
  ASSUME TypeOK, OneToken, promises # <<>>, promises' = Tail(promises)
  PROVE  /\ Head(promises) \in Promise /\ Queued(Head(promises).call)
         /\ \A i, j \in DOMAIN promises' : promises'[i].call = promises'[j].call => i = j
         /\ \A d \in Calls : Queued(d)' <=> Queued(d) /\ d # Head(promises).call
<1> DEFINE n == Len(promises)
<1>1. promises \in Seq(Promise)
  BY DEF TypeOK
<1>2. /\ n \in Nat \ {0} /\ DOMAIN promises = 1..n /\ DOMAIN promises' = 1..(n - 1)
      /\ \A i \in 1..(n - 1) : promises'[i] = promises[i + 1]
      /\ Head(promises) = promises[1] /\ Head(promises) \in Promise
  BY <1>1, EmptySeq, HeadTailProperties
<1> HIDE DEF n
<1>3. /\ 1 \in 1..n
      /\ \A i \in 1..(n - 1) : i + 1 \in 1..n /\ i + 1 # 1
      /\ \A i \in 1..n : i # 1 => i - 1 \in 1..(n - 1) /\ (i - 1) + 1 = i
      /\ \A i, j \in 1..(n - 1) : i + 1 = j + 1 => i = j
  BY <1>2
<1>4. \A i, j \in DOMAIN promises' : promises'[i].call = promises'[j].call => i = j
  BY <1>2, <1>3 DEF OneToken
<1>5. ASSUME NEW d \in Calls
      PROVE  Queued(d)' <=> Queued(d) /\ d # Head(promises).call
  <2>1. Queued(d)' => Queued(d) /\ d # Head(promises).call
    BY <1>2, <1>3 DEF Queued, OneToken
  <2>2. ASSUME Queued(d), d # Head(promises).call
        PROVE  Queued(d)'
    <3>1. PICK i \in 1..n : promises[i].call = d
      BY <1>2, <2>2 DEF Queued
    <3>2. i # 1
      BY <1>2, <2>2, <3>1
    <3>3. i - 1 \in 1..(n - 1) /\ promises'[i - 1] = promises[i]
      BY <1>2, <1>3, <3>2
    <3> QED
      BY <1>2, <3>1, <3>3 DEF Queued
  <2> QED
    BY <2>1, <2>2
<1> QED
  BY <1>2, <1>3, <1>4, <1>5 DEF Queued

LEMMA OneTokenStep ==
  ASSUME TypeOK, OneToken, [Next]_vars
  PROVE  OneToken'
<1>0. /\ call \in [Calls -> {"idle", "produce", "wait"} \union Returned]
      /\ resultChan \in [Calls -> Seq(Error)]
  BY DEF TypeOK
<1>1. ASSUME NEW c \in Calls, Publish(c) \/ MarshalFails(c) \/ Timeout(c)
      PROVE  OneToken'
  <2>1. /\ UNCHANGED <<resultChan, promises, slots>>
        /\ call[c] \in {"idle", "wait"} /\ \A d \in Calls : d # c => call'[d] = call[d]
        /\ call[c] = "wait" => call'[c] = "timeout"
    BY <1>0, <1>1 DEF Publish, MarshalFails, Timeout, kgo
  <2> QED
    BY <2>1 DEF OneToken, Queued
<1>2. ASSUME NEW c \in Calls, Produce(c)
      PROVE  OneToken'
  <2>1. /\ call[c] = "produce" /\ call'[c] = "wait" /\ resultChan' = resultChan
        /\ \A d \in Calls : d # c => call'[d] = call[d]
    BY <1>0, <1>2 DEF Produce
  <2>2. resultChan[c] = <<>> /\ ~Queued(c) /\ c \notin slots
    BY <2>1 DEF OneToken
  <2>3. CASE slots' = slots \union {c} /\ promises' = promises
    BY <2>1, <2>2, <2>3 DEF OneToken, Queued
  <2>4. CASE promises' = Append(promises, [call |-> c, err |-> "err"]) /\ slots' = slots
    <3>1. /\ \A i, j \in DOMAIN promises' : promises'[i].call = promises'[j].call => i = j
          /\ \A d \in Calls : Queued(d)' <=> Queued(d) \/ d = c
      BY <2>2, <2>4, QueueGrows DEF Error
    <3> QED
      BY <2>1, <2>2, <2>4, <3>1 DEF OneToken
  <2> QED
    BY <1>2, <2>3, <2>4 DEF Produce
<1>3. CASE RunPromise
  <2> DEFINE p == Head(promises)
  <2>1. /\ promises # <<>> /\ promises' = Tail(promises) /\ call' = call
        /\ resultChan' = [resultChan EXCEPT ![p.call] = Append(@, p.err)]
        /\ slots' = slots \ {p.call}
    BY <1>3 DEF RunPromise, PromiseSend
  <2>2. /\ p \in Promise /\ Queued(p.call)
        /\ \A i, j \in DOMAIN promises' : promises'[i].call = promises'[j].call => i = j
        /\ \A d \in Calls : Queued(d)' <=> Queued(d) /\ d # p.call
    BY <2>1, QueueShrinks
  <2>3. p.call \in Calls /\ p.err \in Error
    BY <2>2 DEF Promise
  <2> HIDE DEF p
  <2>4. resultChan[p.call] = <<>> /\ call[p.call] \in {"wait", "timeout"}
    BY <2>2, <2>3 DEF OneToken
  <2>5. resultChan'[p.call] = <<p.err>> /\ \A d \in Calls : d # p.call => resultChan'[d] = resultChan[d]
    BY <1>0, <2>1, <2>3, <2>4
  <2>6. Len(resultChan'[p.call]) = 1
    BY <2>5
  <2> QED
    BY <2>1, <2>2, <2>3, <2>4, <2>5, <2>6 DEF OneToken
<1>4. ASSUME NEW c \in Calls, ReceiveResult(c)
      PROVE  OneToken'
  <2>1. /\ resultChan[c] # <<>> /\ UNCHANGED <<promises, slots>>
        /\ resultChan'[c] = Tail(resultChan[c])
        /\ \A d \in Calls : d # c => call'[d] = call[d] /\ resultChan'[d] = resultChan[d]
    BY <1>0, <1>4 DEF ReceiveResult, kgo
  <2>2. resultChan'[c] = <<>> /\ Len(resultChan'[c]) = 0
    <3>1. resultChan[c] \in Seq(Error) /\ resultChan[c] # <<>> /\ Len(resultChan[c]) <= 1
      BY <1>0, <2>1 DEF OneToken
    <3>2. Len(resultChan[c]) = 1
      <4> DEFINE n == Len(resultChan[c])
      <4>1. n \in Nat \ {0} /\ n <= 1
        BY <3>1, EmptySeq
      <4> HIDE DEF n
      <4>2. n = 1
        BY <4>1
      <4> QED
        BY <4>2 DEF n
    <3>3. Tail(resultChan[c]) \in Seq(Error) /\ Len(Tail(resultChan[c])) = 0
      BY <3>1, <3>2, HeadTailProperties
    <3> QED
      BY <2>1, <3>3, EmptySeq
  <2>3. ~Queued(c) /\ c \notin slots
    BY <2>1 DEF OneToken
  <2> QED
    BY <2>1, <2>2, <2>3 DEF OneToken, Queued
<1>5. ASSUME NEW c \in Calls, BrokerAcks(c) \/ RecordFails(c)
      PROVE  OneToken'
  <2>1. PICK err \in Error : Decide(c, err)
    BY <1>5 DEF BrokerAcks, RecordFails, Error
  <2>2. /\ c \in slots /\ ~Queued(c) /\ UNCHANGED <<call, resultChan, slots>>
        /\ promises' = Append(promises, [call |-> c, err |-> err])
    BY <2>1 DEF Decide, Undecided
  <2>3. /\ \A i, j \in DOMAIN promises' : promises'[i].call = promises'[j].call => i = j
        /\ \A d \in Calls : Queued(d)' <=> Queued(d) \/ d = c
    BY <2>2, QueueGrows
  <2> QED
    BY <2>2, <2>3 DEF OneToken
<1>6. CASE Close \/ UNCHANGED vars \/ \E c \in Calls : Send(c) \/ BrokerStores(c)
  <2>1. UNCHANGED <<call, resultChan, promises, slots>>
    BY <1>6 DEF Close, vars, kgo, Send, BrokerStores
  <2> QED
    BY <2>1 DEF OneToken, Queued
<1> QED
  BY <1>1, <1>2, <1>3, <1>4, <1>5, <1>6 DEF Next, Caller, Running, Producer

(* At most one result is ever sent to a call.                               *)
THEOREM OneResult == Spec => []OneResultPerCall
<1>1. Init => OneToken
  BY DEF Init, OneToken, Queued
<1>2. TypeOK /\ OneToken /\ [Next]_vars => OneToken'
  BY OneTokenStep
<1>3. TypeOK /\ OneToken => OneResultPerCall
  <2> SUFFICES ASSUME TypeOK, OneToken, NEW c \in Calls
               PROVE  Len(resultChan[c])
                        + Cardinality({i \in DOMAIN promises : promises[i].call = c})
                        + (IF Undecided(c) \/ call[c] = "produce" THEN 1 ELSE 0)
                        + (IF call[c] \in {"ok", "failed"} THEN 1 ELSE 0) <= 1
    BY DEF OneResultPerCall
  <2> DEFINE at == {i \in DOMAIN promises : promises[i].call = c}
  <2>1. Cardinality(at) = IF Queued(c) THEN 1 ELSE 0
    <3>1. CASE Queued(c)
      <4>1. PICK i \in DOMAIN promises : promises[i].call = c
        BY <3>1 DEF Queued
      <4>2. at = {i}
        BY <4>1 DEF OneToken
      <4> QED
        BY <3>1, <4>2, FS_Singleton
    <3>2. CASE ~Queued(c)
      <4>1. at = {}
        BY <3>2 DEF Queued
      <4> QED
        BY <3>2, <4>1, FS_EmptySet
    <3> QED
      BY <3>1, <3>2
  <2>2. Len(resultChan[c]) = IF resultChan[c] # <<>> THEN 1 ELSE 0
    <3>1. resultChan[c] \in Seq(Error) /\ Len(resultChan[c]) <= 1
      BY DEF TypeOK, OneToken
    <3> QED
      BY <3>1, EmptySeq
  <2> HIDE DEF at
  <2> QED
    BY <2>1, <2>2 DEF OneToken, Undecided, at
<1> QED
  BY <1>1, <1>2, <1>3, TypeCorrect, PTL DEF Spec

----------------------------------------------------------------------------
(* The metrics.  No set of calls need be finite for this: only finitely     *)
(* many have returned, or are stored, at any time.                          *)
With(r) == {c \in Calls : call[c] = r}
Counted ==
  /\ IsFiniteSet(Delivered)
  /\ \A r \in Results : IsFiniteSet(With(r)) /\ metrics[r] = Cardinality(With(r))

(* One call more is counted under r.                                        *)
LEMMA CountOne ==
  ASSUME TypeOK, Counted, NEW c \in Calls, call[c] = "wait", NEW r \in Results,
         call' = [call EXCEPT ![c] = r], RecordKafkaPublish(r), record' = record
  PROVE  Counted'
<1>1. Delivered' = Delivered
  BY DEF Delivered
<1>2. With(r)' = With(r) \union {c} /\ c \notin With(r)
  BY DEF With, TypeOK, Results
<1>3. \A s \in Results : s # r => With(s)' = With(s)
  BY DEF With, TypeOK, Results
<1>4. metrics'[r] = metrics[r] + 1 /\ \A s \in Results : s # r => metrics'[s] = metrics[s]
  BY DEF RecordKafkaPublish, TypeOK
<1>5. IsFiniteSet(With(r)') /\ Cardinality(With(r)') = Cardinality(With(r)) + 1
  BY <1>2, FS_AddElement DEF Counted
<1> QED
  BY <1>1, <1>2, <1>3, <1>4, <1>5 DEF Counted

LEMMA CountedStep ==
  ASSUME TypeOK, NoEarlyRecord, Counted, [Next]_vars
  PROVE  Counted'
<1>0. /\ call \in [Calls -> {"idle", "produce", "wait"} \union Returned]
      /\ record \in [Calls -> {"none", "buffered", "sent", "stored"}]
  BY DEF TypeOK
<1>1. ASSUME NEW c \in Calls, Publish(c) \/ MarshalFails(c) \/ Produce(c) \/ Send(c) \/ BrokerStores(c)
      PROVE  Counted'
  <2>1. /\ metrics' = metrics
        /\ \A d \in Calls : d # c => call'[d] = call[d] /\ record'[d] = record[d]
        /\ call'[c] = call[c] \/ (call[c] \notin Results /\ call'[c] \notin Results)
        /\ record'[c] = record[c] \/ record'[c] = "stored" \/ (record[c] # "stored" /\ record'[c] # "stored")
    BY <1>0, <1>1 DEF Publish, MarshalFails, Produce, Send, BrokerStores, kgo, Results, NoEarlyRecord
  <2>2. \A r \in Results : With(r)' = With(r)
    BY <2>1 DEF With
  <2>3. Delivered' = Delivered \/ Delivered' = Delivered \union {c}
    BY <2>1 DEF Delivered
  <2>4. IsFiniteSet(Delivered')
    BY <2>3, FS_AddElement DEF Counted
  <2> QED
    BY <2>1, <2>2, <2>4 DEF Counted
<1>2. ASSUME NEW c \in Calls, ReceiveResult(c)
      PROVE  Counted'
  <2> DEFINE r == Verdict(Head(resultChan[c]))
  <2>1. r \in Results
    BY DEF Verdict, Results
  <2>2. call[c] = "wait" /\ call' = [call EXCEPT ![c] = r] /\ RecordKafkaPublish(r) /\ record' = record
    BY <1>2 DEF ReceiveResult, kgo
  <2> HIDE DEF r
  <2> QED
    BY <2>1, <2>2, CountOne
<1>3. ASSUME NEW c \in Calls, Timeout(c)
      PROVE  Counted'
  <2>1. /\ call[c] = "wait" /\ call' = [call EXCEPT ![c] = "timeout"]
        /\ RecordKafkaPublish("timeout") /\ record' = record /\ "timeout" \in Results
    BY <1>3 DEF Timeout, kgo, Results
  <2> QED
    BY <2>1, CountOne
<1>4. CASE RunPromise \/ Close \/ UNCHANGED vars \/ \E c \in Calls : BrokerAcks(c) \/ RecordFails(c)
  <2>1. UNCHANGED <<call, record, metrics>>
    BY <1>4 DEF RunPromise, Close, vars, kgo, BrokerAcks, RecordFails, Decide
  <2> QED
    BY <2>1 DEF Counted, With, Delivered
<1> QED
  BY <1>1, <1>2, <1>3, <1>4 DEF Next, Caller, Running, Producer

(* The counters say how many calls returned what, and never claim more      *)
(* deliveries than there are.                                               *)
THEOREM MetricsCorrect == Spec => []MetricsMatchReturns
<1>1. Init => Counted
  <2> SUFFICES ASSUME Init PROVE Counted
    OBVIOUS
  <2>1. Delivered = {} /\ \A r \in Results : With(r) = {}
    BY DEF Init, Delivered, With, Results
  <2> QED
    BY <2>1, FS_EmptySet DEF Init, Counted
<1>2. IInv /\ Counted /\ [Next]_vars => Counted'
  BY CountedStep DEF IInv
<1>3. IInv /\ Counted => MetricsMatchReturns
  <2> SUFFICES ASSUME IInv, Counted PROVE MetricsMatchReturns
    OBVIOUS
  <2>1. With("ok") \subseteq Delivered
    BY DEF IInv, SuccessIsDelivered, With
  <2>2. Cardinality(With("ok")) <= Cardinality(Delivered)
    BY <2>1, FS_Subset DEF Counted
  <2> QED
    BY <2>2 DEF Counted, MetricsMatchReturns, With, Results
<1> QED
  BY <1>1, <1>2, <1>3, Invariance, PTL DEF Spec
=============================================================================
