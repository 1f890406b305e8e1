--------------------------- MODULE KafkaPublisher ---------------------------
(***************************************************************************)
(* kafka/kafka.go: Publish on top of franz-go's asynchronous producer, and *)
(* the counters of metrics.RecordKafkaPublish.  Each member of Calls is    *)
(* one call of Publish, in a goroutine of its own.  The producer (kgo) is  *)
(* external: a buffer of MaxBuffered records, a sender, and one goroutine  *)
(* that runs the promises in order and frees a record's slot after its     *)
(* promise has returned.                                                   *)
(***************************************************************************)
EXTENDS Integers, Sequences, FiniteSets

CONSTANTS
  Calls,         \* the calls of Publish
  MaxBuffered    \* kgo's MaxBufferedRecords (10000 in the code's configuration)

ASSUME PublisherAssumption == MaxBuffered \in Nat \ {0}

VARIABLES
  call,         \* where each Publish is, or how it returned
  resultChan,   \* the errors waiting in each call's resultChan (capacity 1)
  record,       \* how far each record has got towards the broker
  slots,        \* the records that count against MaxBuffered
  promises,     \* the promise callbacks kgo has still to run, in order
  closed,       \* Close has been called
  metrics       \* KafkaPublishTotal by status

vars == <<call, resultChan, record, slots, promises, closed, metrics>>
kgo  == <<record, slots, promises>>

Results  == {"ok", "failed", "timeout"}
Returned == Results \union {"marshal"}
Error    == {"nil", "err"}
Promise  == [call : Calls, err : Error]

Delivered  == {c \in Calls : record[c] = "stored"}
Queued(c)  == \E i \in DOMAIN promises : promises[i].call = c
Undecided(c) == c \in slots /\ ~Queued(c)

Init ==
  /\ call = [c \in Calls |-> "idle"]
  /\ resultChan = [c \in Calls |-> <<>>]
  /\ record = [c \in Calls |-> "none"]
  /\ slots = {} /\ promises = <<>>
  /\ closed = FALSE
  /\ metrics = [r \in Results |-> 0]

----------------------------------------------------------------------------
(* Publish.                                                                 *)

(* A payload that cannot be marshalled returns an error at once and leaves  *)
(* no trace in the metrics.                                                 *)
Publish(c) ==
  /\ call[c] = "idle"
  /\ call' = [call EXCEPT ![c] = "produce"]
  /\ UNCHANGED <<resultChan, kgo, closed, metrics>>

MarshalFails(c) ==
  /\ call[c] = "idle"
  /\ call' = [call EXCEPT ![c] = "marshal"]
  /\ UNCHANGED <<resultChan, kgo, closed, metrics>>

(* client.Produce with context.Background(): it waits while the buffer is   *)
(* full, and only Close ends that wait.                                     *)
Produce(c) ==
  /\ call[c] = "produce"
  /\ \/ /\ Cardinality(slots) < MaxBuffered
        /\ slots' = slots \union {c}
        /\ record' = [record EXCEPT ![c] = "buffered"]
        /\ UNCHANGED promises
     \/ /\ Cardinality(slots) >= MaxBuffered /\ closed
        /\ promises' = Append(promises, [call |-> c, err |-> "err"])
        /\ UNCHANGED <<slots, record>>
  /\ call' = [call EXCEPT ![c] = "wait"]
  /\ UNCHANGED <<resultChan, closed, metrics>>

(* What the promise sends on resultChan, and whether the send can proceed.  *)
Bug_DropError(ch, err) == Append(ch, "nil")
Bug_MissingElse(ch, err) == IF err = "err" THEN ch \o <<"err", "nil">> ELSE Append(ch, "nil")
PromiseSend(ch, err) == Append(ch, err)

Bug_Unbuffered(c) == call[c] = "wait"
CanSend(c) == Len(resultChan[c]) < 1

(* kgo runs the promise at the head of its queue.                           *)
RunPromise ==
  /\ promises # <<>>
  /\ LET p == Head(promises) IN
       /\ CanSend(p.call)
       /\ resultChan' = [resultChan EXCEPT ![p.call] = PromiseSend(@, p.err)]
       /\ slots' = slots \ {p.call}
  /\ promises' = Tail(promises)
  /\ UNCHANGED <<call, record, closed, metrics>>

Bug_Uncounted(r) == metrics' = IF r = "timeout" THEN metrics ELSE [metrics EXCEPT ![r] = @ + 1]
RecordKafkaPublish(r) == metrics' = [metrics EXCEPT ![r] = @ + 1]

Bug_SuccessAlways(err) == "ok"
Bug_WrongLabel(err) == IF err = "nil" THEN "success" ELSE "failed"
Verdict(err) == IF err = "nil" THEN "ok" ELSE "failed"

(* The result arrives first.                                                *)
ReceiveResult(c) ==
  /\ call[c] = "wait" /\ resultChan[c] # <<>>
  /\ LET r == Verdict(Head(resultChan[c])) IN
       /\ call' = [call EXCEPT ![c] = r]
       /\ RecordKafkaPublish(r)
  /\ resultChan' = [resultChan EXCEPT ![c] = Tail(@)]
  /\ UNCHANGED <<kgo, closed>>

(* Five seconds pass; a result that is ready as well may lose the select.   *)
Bug_NoTimeout(c) == FALSE /\ UNCHANGED vars
Timeout(c) ==
  /\ call[c] = "wait"
  /\ call' = [call EXCEPT ![c] = "timeout"]
  /\ RecordKafkaPublish("timeout")
  /\ UNCHANGED <<resultChan, kgo, closed>>

Close ==
  /\ ~closed
  /\ closed' = TRUE
  /\ UNCHANGED <<call, resultChan, kgo, metrics>>

----------------------------------------------------------------------------
(* franz-go and the broker (external).                                      *)

Send(c) ==
  /\ Undecided(c) /\ record[c] = "buffered" /\ ~closed
  /\ record' = [record EXCEPT ![c] = "sent"]
  /\ UNCHANGED <<call, resultChan, slots, promises, closed, metrics>>

(* A request on the wire may be stored even if the record is failed         *)
(* meanwhile.  The producer is idempotent: a retry stores nothing twice.    *)
BrokerStores(c) ==
  /\ record[c] = "sent"
  /\ record' = [record EXCEPT ![c] = "stored"]
  /\ UNCHANGED <<call, resultChan, slots, promises, closed, metrics>>

Decide(c, err) ==
  /\ Undecided(c)
  /\ promises' = Append(promises, [call |-> c, err |-> err])
  /\ UNCHANGED <<call, resultChan, record, slots, closed, metrics>>

BrokerAcks(c) == record[c] = "stored" /\ Decide(c, "nil")

(* A permanent error of the broker, or the client is closed.                *)
RecordFails(c) == Decide(c, "err")

----------------------------------------------------------------------------
Caller(c) == Publish(c) \/ MarshalFails(c)
Running(c) == Produce(c) \/ ReceiveResult(c) \/ Timeout(c)
Producer(c) == Send(c) \/ BrokerStores(c) \/ BrokerAcks(c) \/ RecordFails(c)

Next ==
  \/ \E c \in Calls : Caller(c) \/ Running(c) \/ Producer(c)
  \/ RunPromise
  \/ Close

Spec == Init /\ [][Next]_vars

(* Go runs every goroutine that can run, the five-second timer fires, and a *)
(* closed client fails what is left in its buffer.  Nothing is assumed of   *)
(* the broker.                                                              *)
Fairness ==
  /\ \A c \in Calls : WF_vars(Running(c)) /\ WF_vars(closed /\ RecordFails(c))
  /\ WF_vars(RunPromise)

FairSpec == Spec /\ Fairness

----------------------------------------------------------------------------
TypeOK ==
  /\ call \in [Calls -> {"idle", "produce", "wait"} \union Returned]
  /\ resultChan \in [Calls -> Seq(Error)]
  /\ record \in [Calls -> {"none", "buffered", "sent", "stored"}]
  /\ slots \subseteq Calls
  /\ promises \in Seq(Promise)
  /\ closed \in BOOLEAN
  /\ metrics \in [Results -> Nat]

(* Publish returns nil only for a record that the broker has, whatever      *)
(* promises of other calls, timeouts and Close interleave with it.          *)
SuccessIsDelivered == \A c \in Calls : call[c] = "ok" => c \in Delivered

(* At most one result is ever sent to a call, so the promise of a call that *)
(* has already timed out cannot find the channel full.                      *)
OneResultPerCall ==
  \A c \in Calls :
    Len(resultChan[c])
      + Cardinality({i \in DOMAIN promises : promises[i].call = c})
      + (IF Undecided(c) \/ call[c] = "produce" THEN 1 ELSE 0)
      + (IF call[c] \in {"ok", "failed"} THEN 1 ELSE 0) <= 1

(* Every call that got past json.Marshal and returned is counted under      *)
(* exactly one status, and the success counter never exceeds what the       *)
(* broker has: the Prometheus rate is not an overcount of deliveries.       *)
MetricsMatchReturns ==
  /\ \A r \in Results : metrics[r] = Cardinality({c \in Calls : call[c] = r})
  /\ metrics["ok"] <= Cardinality(Delivered)

(* A record whose fate is decided gives its slot of kgo's buffer back, even *)
(* if its Publish timed out long ago: no promise blocks kgo's only promise  *)
(* goroutine.                                                               *)
SlotIsFreed == \A c \in Calls : Queued(c) ~> c \notin slots

(* Publish returns even if the broker never answers, unless the buffer is   *)
(* full; once Close has been called it returns in any case.                 *)
Full == ~closed /\ Cardinality(slots) >= MaxBuffered
PublishReturnsUnlessFull == \A c \in Calls : call[c] = "produce" ~> (call[c] \in Results \/ Full)

----------------------------------------------------------------------------
(* The interface's contract, with the records stored as the broker's state. *)
Contract == INSTANCE Publisher WITH
  outcome <- [c \in Calls |-> IF call[c] \in {"produce", "wait"} THEN "pending" ELSE call[c]],
  broker <- Delivered

(* A call of Publish behaves as KafkaPublisherInterface promises.           *)
ImplementsContract == Contract!Spec
=============================================================================
