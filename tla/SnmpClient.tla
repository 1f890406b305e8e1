----------------------------- MODULE SnmpClient -----------------------------
(***************************************************************************)
(* snmpclient/snmp.go and handler.go: the goroutine of the walk scheduler, *)
(* the trap listener, and GET requests that come in over HTTP.  All three  *)
(* end in processResults, which publishes first and saves afterwards; each *)
(* is a worker that goes through these two sinks.  Kafka and PostgreSQL    *)
(* are seen from here only in so far as a worker may wait for them.        *)
(***************************************************************************)
EXTENDS Integers, Sequences

CONSTANTS
  Requests,     \* bound: the HTTP requests that arrive
  NumTargets,   \* len(c.config.Targets)
  Term,         \* c.config.Term
  TrapEnabled   \* ts.config.Enabled

ASSUME SnmpAssumption ==
  /\ {"sched", "trap"} \intersect Requests = {}
  /\ NumTargets \in Nat /\ Term \in Int /\ TrapEnabled \in BOOLEAN

VARIABLES
  worker,     \* where the scheduler, the trap handler and each request are
  target,     \* the scheduler's place in the list of targets
  tick,       \* ticker.C holds a tick (its capacity is one)
  stop,       \* c.stop is closed
  listener,   \* ts.listener: "nil", "starting", "listening", "failed", "closed"
  client,     \* GlobalSNMPClient is set
  answer,     \* what each request was answered
  kafka,      \* kgo's buffer has "room", is "full", or the client is "closed"
  db          \* the pool is open

snmp  == <<worker, target, tick, stop, listener, client, answer>>
sinks == <<kafka, db>>

Workers == {"sched", "trap"} \union Requests
InSinks(w) == worker[w] \in {"publish", "save"}
Goto(w, pc) == worker' = [worker EXCEPT ![w] = pc]

SnmpInit ==
  /\ worker = [w \in Workers |-> IF w = "sched" THEN "none" ELSE "idle"]
  /\ target = 1 /\ tick = FALSE /\ stop = FALSE
  /\ listener = "nil" /\ client = FALSE
  /\ answer = [q \in Requests |-> "none"]
  /\ kafka = "room" /\ db = TRUE

----------------------------------------------------------------------------
(* processResults.  Publish waits while the buffer is full (module          *)
(* KafkaPublisher shows that it returns otherwise); its error and that of   *)
(* the INSERT, which has a deadline, are only logged.                       *)

Publish(w) ==
  /\ worker[w] = "publish" /\ kafka # "full"
  /\ Goto(w, "save")
  /\ UNCHANGED <<target, tick, stop, listener, client, answer, sinks>>

Save(w) ==
  /\ worker[w] = "save"
  /\ Goto(w, CASE w = "sched" -> "walk" [] w = "trap" -> "idle" [] OTHER -> "done")
  /\ target' = IF w = "sched" THEN target + 1 ELSE target
  /\ answer' = IF w \in Requests THEN [answer EXCEPT ![w] = "200"] ELSE answer
  /\ UNCHANGED <<tick, stop, listener, client, sinks>>

(* Producers fill the buffer, the broker drains it.                         *)
BufferFills ==
  /\ kafka \in {"room", "full"}
  /\ kafka' = IF kafka = "room" THEN "full" ELSE "room"
  /\ UNCHANGED <<snmp, db>>

----------------------------------------------------------------------------
(* The scheduler.                                                           *)

StartWalkScheduler ==
  /\ Goto("sched", IF Term > 0 THEN "select" ELSE "none")
  /\ UNCHANGED <<target, tick, stop, listener, client, answer, sinks>>

Tick ==
  /\ worker["sched"] \notin {"none", "returned"} /\ ~tick
  /\ tick' = TRUE
  /\ UNCHANGED <<worker, target, stop, listener, client, answer, sinks>>

(* The select takes either case if both are ready.                          *)
TakeTick ==
  /\ worker["sched"] = "select" /\ tick
  /\ tick' = FALSE /\ target' = 1
  /\ Goto("sched", "walk")
  /\ UNCHANGED <<stop, listener, client, answer, sinks>>

Bug_BreakLeavesSelect == "select"
AfterStop == "returned"
TakeStop ==
  /\ worker["sched"] = "select" /\ stop
  /\ Goto("sched", AfterStop)
  /\ UNCHANGED <<target, tick, stop, listener, client, answer, sinks>>

Bug_OnePastEnd == target <= NumTargets + 1
MoreTargets == target <= NumTargets

(* The next target answers, fails (which is logged), or was the last.       *)
WalkV3 ==
  /\ worker["sched"] = "walk"
  /\ \/ /\ MoreTargets
        /\ Goto("sched", "publish") /\ UNCHANGED target
     \/ /\ MoreTargets
        /\ target' = target + 1 /\ UNCHANGED worker
     \/ /\ ~MoreTargets
        /\ Goto("sched", "select") /\ UNCHANGED target
  /\ UNCHANGED <<tick, stop, listener, client, answer, sinks>>

(* Stop closes the channel and then waits for the scheduler to have ended.  *)
CloseStop ==
  /\ stop' = TRUE
  /\ UNCHANGED <<worker, target, tick, listener, client, answer, sinks>>

WaitGroupIsZero == worker["sched"] \in {"none", "returned"}

----------------------------------------------------------------------------
(* The trap listener (gosnmp's TrapListener is external).                   *)

TrapStart ==
  /\ listener' = IF TrapEnabled THEN "starting" ELSE "nil"
  /\ UNCHANGED <<worker, target, tick, stop, client, answer, sinks>>

(* Listening takes place in a goroutine; an error is logged and no more.    *)
Listen ==
  /\ listener = "starting"
  /\ listener' \in {"listening", "failed"}
  /\ UNCHANGED <<worker, target, tick, stop, client, answer, sinks>>

handleTrap ==
  /\ listener = "listening" /\ worker["trap"] = "idle"
  /\ Goto("trap", "publish")
  /\ UNCHANGED <<target, tick, stop, listener, client, answer, sinks>>

(* Close waits for the handler, but not longer than gosnmp's CloseTimeout.  *)
TrapStop ==
  /\ listener' = IF listener = "nil" THEN "nil" ELSE "closed"
  /\ UNCHANGED <<worker, target, tick, stop, client, answer, sinks>>

----------------------------------------------------------------------------
(* HandleSNMPRequest.                                                       *)

SetGlobalSNMPClient ==
  /\ client' = TRUE
  /\ UNCHANGED <<worker, target, tick, stop, listener, answer, sinks>>

(* Every answer that is given before the agent is asked or when it fails:   *)
(* no client, a body that does not parse or lacks target or OIDs, the       *)
(* operation "walk" that is no longer supported, an error of GetV3.         *)
Refusal(q) ==
  IF ~client THEN {"500 no client"} ELSE {"400", "500 agent"}

HandleSNMPRequest(q) ==
  /\ worker[q] = "handle"
  /\ \/ /\ client
        /\ Goto(q, "publish") /\ UNCHANGED answer
     \/ /\ \E a \in Refusal(q) : answer' = [answer EXCEPT ![q] = a]
        /\ Goto(q, "done")
  /\ UNCHANGED <<target, tick, stop, listener, client, sinks>>

----------------------------------------------------------------------------
Scheduler == TakeTick \/ WalkV3 \/ Publish("sched") \/ Save("sched")
Trap      == Listen \/ handleTrap \/ Publish("trap") \/ Save("trap")
Get(q)    == HandleSNMPRequest(q) \/ Publish(q) \/ Save(q)

SnmpTypeOK ==
  /\ DOMAIN worker = Workers
  /\ worker["sched"] \in {"none", "select", "walk", "publish", "save", "returned"}
  /\ worker["trap"] \in {"idle", "publish", "save"}
  /\ \A q \in Requests : worker[q] \in {"idle", "handle", "publish", "save", "done"}
  /\ target \in 1..(NumTargets + 1)
  /\ tick \in BOOLEAN /\ stop \in BOOLEAN /\ client \in BOOLEAN /\ db \in BOOLEAN
  /\ listener \in {"nil", "starting", "listening", "failed", "closed"}
  /\ answer \in [Requests -> {"none", "200", "400", "500 agent", "500 no client", "plain"}]
  /\ kafka \in {"room", "full", "closed"}
=============================================================================
