----------------------------- MODULE Lifecycle ------------------------------
(***************************************************************************)
(* cmd/servfull/main.go and cmd/servrest/main.go: the calls of main in     *)
(* their order, log.Fatalf where one of them fails, the signal, Shutdown   *)
(* against the goroutine that serves HTTP, and the deferred calls, which   *)
(* run last in first out, also when main panics, and not at all when       *)
(* log.Fatalf or a panic of another goroutine ends the process.  The SNMP  *)
(* workers of SnmpClient run beside main; of the CoAP server only its      *)
(* panics are kept (CoapServer shows how they come about).                 *)
(***************************************************************************)
EXTENDS SnmpClient

VARIABLES
  mode,      \* the command: "full" or "rest"
  at,        \* the call of Program[mode] main has reached
  defers,    \* the stack of deferred calls
  asked,     \* signal.Notify has put a signal into sigChan
  notified,  \* signal.Notify has been called
  serve,     \* the goroutine of server.Start
  draining,  \* Shutdown has been called
  late,      \* history: Shutdown gave up waiting after 30 seconds
  panicking, \* main has panicked and runs its deferred calls
  ended      \* "no", or how the process ended

mainVars == <<mode, at, defers, asked, notified, serve, draining, late, panicking, ended>>
vars == <<snmp, sinks, mainVars>>

----------------------------------------------------------------------------
(* The text of the two commands.                                            *)

Program == [
  full |-> <<"LoadConfig", "InitDB", "SetupDatabase", "NewKafkaPublisher", "NewMQTTClient",
             "Subscribe", "StartWalkScheduler", "trapServer.Start", "SetGlobalSNMPClient",
             "NewConfigWatcher", "watcher.Start", "signal.Notify", "go server.Start",
             "<-sigChan", "coapServer.Stop", "Shutdown", "drain", "return">>,
  rest |-> <<"LoadConfig", "InitDB", "SetupDatabase", "NewKafkaPublisher",
             "NewConfigWatcher", "watcher.Start", "signal.Notify", "go server.Start",
             "<-sigChan", "Shutdown", "drain", "return">>]

Fallible == {"LoadConfig", "InitDB", "SetupDatabase", "NewKafkaPublisher", "NewMQTTClient",
             "Subscribe", "NewConfigWatcher", "watcher.Start"}

Deferred == [call \in {"InitDB", "NewKafkaPublisher", "NewMQTTClient", "StartWalkScheduler",
                       "trapServer.Start", "watcher.Start"} |->
  CASE call = "InitDB"             -> "CloseDB"
    [] call = "NewKafkaPublisher"  -> "publisher.Close"
    [] call = "NewMQTTClient"      -> "Disconnect"
    [] call = "StartWalkScheduler" -> "snmpClient.Stop"
    [] call = "trapServer.Start"   -> "trapServer.Stop"
    [] OTHER                       -> "watcher.Stop"]

(* The call that starts the goroutine of server.Start.                      *)
Bug_ServeEarly == "trapServer.Start"
GoServerStart == "go server.Start"

(* Where main is, and whether it has made a call already.                   *)
Here == IF panicking THEN "return" ELSE Program[mode][at]
Past(call) == \E i \in 1..(at - 1) : Program[mode][i] = call
Alive == ended = "no"

Init ==
  /\ SnmpInit
  /\ mode \in DOMAIN Program
  /\ at = 1 /\ defers = <<>>
  /\ asked = FALSE /\ notified = FALSE /\ serve = "none"
  /\ draining = FALSE /\ late = FALSE /\ panicking = FALSE /\ ended = "no"

----------------------------------------------------------------------------
(* main, up to the signal.                                                  *)

Bug_FirstInFirstOut(d) == Append(defers, d)
Push(d) == <<d>> \o defers

Advance ==
  /\ at' = at + 1
  /\ defers' = IF Here \in DOMAIN Deferred THEN Push(Deferred[Here]) ELSE defers

(* A call that returns without an error.                                    *)
Call ==
  /\ \/ Here = "StartWalkScheduler"  /\ StartWalkScheduler
     \/ Here = "trapServer.Start"    /\ TrapStart
     \/ Here = "SetGlobalSNMPClient" /\ SetGlobalSNMPClient
     \/ Here \in Fallible \union {"signal.Notify", "go server.Start"} /\ UNCHANGED <<snmp, sinks>>
  /\ Advance
  /\ notified' = (notified \/ Here = "signal.Notify")
  /\ serve' = IF Here = GoServerStart THEN "starting" ELSE serve
  /\ UNCHANGED <<mode, asked, draining, late, panicking, ended>>

(* An error: log.Fatalf, and no deferred call runs.                         *)
CallFails ==
  /\ Here \in Fallible
  /\ ended' = "fatal"
  /\ UNCHANGED <<snmp, sinks, mode, at, defers, asked, notified, serve, draining, late, panicking>>

(* SIGINT or SIGTERM: before signal.Notify it kills the process.            *)
Signal ==
  /\ ~asked
  /\ asked' = notified /\ ended' = IF notified THEN "no" ELSE "killed"
  /\ UNCHANGED <<snmp, sinks, mode, at, defers, notified, serve, draining, late, panicking>>

TakeSignal ==
  /\ Here = "<-sigChan" /\ asked
  /\ Advance
  /\ UNCHANGED <<snmp, sinks, mode, asked, notified, serve, draining, late, panicking, ended>>

----------------------------------------------------------------------------
(* main, after the signal.                                                  *)

(* coapServer.Stop waits for nothing.  Beside a reload it may close a       *)
(* closed channel: main panics.                                             *)
CoapStop ==
  /\ Here = "coapServer.Stop"
  /\ \/ Advance /\ UNCHANGED panicking
     \/ panicking' = TRUE /\ UNCHANGED <<at, defers>>
  /\ UNCHANGED <<snmp, sinks, mode, asked, notified, serve, draining, late, ended>>

(* The Stop within a reload may as well: there nothing is deferred.         *)
ReloadPanics ==
  /\ mode = "full" /\ Past("watcher.Start")
  /\ ended' = "panic"
  /\ UNCHANGED <<snmp, sinks, mode, at, defers, asked, notified, serve, draining, late, panicking>>

Shutdown ==
  /\ Here = "Shutdown"
  /\ Advance
  /\ draining' = TRUE
  /\ UNCHANGED <<snmp, sinks, mode, asked, notified, serve, late, panicking, ended>>

Active(q) == worker[q] \notin {"idle", "done"}

(* Shutdown returns when no request is active, or when shutdownCtx expires. *)
Drained == \A q \in Requests : ~Active(q)
ShutdownReturns ==
  /\ Here = "drain"
  /\ Advance
  /\ \/ Drained /\ UNCHANGED late
     \/ ~Drained /\ late' = TRUE
  /\ UNCHANGED <<snmp, sinks, mode, asked, notified, serve, draining, panicking, ended>>

Deferring(d) == Here = "return" /\ defers # <<>> /\ Head(defers) = d

SnmpStopCloses ==
  /\ Deferring("snmpClient.Stop") /\ ~stop
  /\ CloseStop
  /\ UNCHANGED mainVars

Finishes(d) ==
  CASE d = "snmpClient.Stop" -> stop /\ WaitGroupIsZero /\ UNCHANGED <<snmp, sinks>>
    [] d = "trapServer.Stop" -> TrapStop
    [] d = "publisher.Close" -> kafka' = "closed" /\ UNCHANGED <<snmp, db>>
    [] d = "CloseDB"         -> db' = FALSE /\ UNCHANGED <<snmp, kafka>>
    [] OTHER                 -> UNCHANGED <<snmp, sinks>>

RunDefer ==
  /\ \E d \in {Deferred[c] : c \in DOMAIN Deferred} : Deferring(d) /\ Finishes(d)
  /\ defers' = Tail(defers)
  /\ UNCHANGED <<mode, at, asked, notified, serve, draining, late, panicking, ended>>

Return ==
  /\ Here = "return" /\ defers = <<>>
  /\ ended' = IF panicking THEN "panic" ELSE "exit"
  /\ UNCHANGED <<snmp, sinks, mode, at, defers, asked, notified, serve, draining, late, panicking>>

----------------------------------------------------------------------------
(* The goroutine of server.Start, and the requests (net/http is external).  *)

(* ListenAndServe fails to bind, or returns ErrServerClosed as soon as      *)
(* Shutdown is called; either error is fatal to the process.                *)
ListenAndServe ==
  \/ /\ serve = "starting"
     /\ serve' \in IF draining THEN {"failed"} ELSE {"serving", "failed"}
  \/ /\ serve = "serving" /\ draining
     /\ serve' = "failed"

StartListening ==
  /\ ListenAndServe
  /\ UNCHANGED <<snmp, sinks, mode, at, defers, asked, notified, draining, late, panicking, ended>>

Bug_IgnoreErrServerClosed == ~draining
ErrorIsFatal == TRUE
StartFails ==
  /\ serve = "failed" /\ ErrorIsFatal
  /\ ended' = "fatal"
  /\ UNCHANGED <<snmp, sinks, mode, at, defers, asked, notified, serve, draining, late, panicking>>

(* A request arrives: one that DynamicServer answers itself, or one that it *)
(* hands on to HandleSNMPRequest.                                           *)
Arrive(q) ==
  /\ serve = "serving" /\ ~draining /\ worker[q] = "idle"
  /\ \/ Goto(q, "handle") /\ UNCHANGED answer
     \/ Goto(q, "done") /\ answer' = [answer EXCEPT ![q] = "plain"]
  /\ UNCHANGED <<target, tick, stop, listener, client, sinks, mainVars>>

----------------------------------------------------------------------------
Main == \/ Call \/ TakeSignal \/ CoapStop \/ Shutdown \/ ShutdownReturns
        \/ SnmpStopCloses \/ RunDefer \/ Return
Serve == StartListening \/ StartFails

Next ==
  /\ Alive
  /\ \/ Main \/ CallFails \/ Signal \/ ReloadPanics \/ Serve
     \/ \E q \in Requests : Arrive(q)
     \/ /\ Scheduler \/ TakeStop \/ Tick \/ Trap \/ BufferFills \/ \E q \in Requests : Get(q)
        /\ UNCHANGED mainVars

Spec == Init /\ [][Next]_vars

(* Go runs every goroutine that can run; Shutdown's context expires; and a  *)
(* select with two ready cases takes each of them some time.                *)
GoFairness ==
  /\ WF_vars(Alive /\ Main)
  /\ WF_vars(Alive /\ Scheduler /\ UNCHANGED mainVars)
  /\ SF_vars(Alive /\ TakeStop /\ UNCHANGED mainVars)
  /\ \A q \in Requests : WF_vars(Alive /\ Get(q) /\ UNCHANGED mainVars)

(* Whether the goroutine of server.Start gets its turn before main is       *)
(* through is left open here, and assumed only where a property says so.    *)
FairSpec == Spec /\ GoFairness

----------------------------------------------------------------------------
TypeOK ==
  /\ SnmpTypeOK
  /\ mode \in DOMAIN Program /\ at \in 1..Len(Program[mode])
  /\ defers \in Seq({Deferred[c] : c \in DOMAIN Deferred})
  /\ serve \in {"none", "starting", "serving", "failed"}
  /\ {asked, notified, draining, late, panicking} \subseteq BOOLEAN
  /\ ended \in {"no", "fatal", "killed", "panic", "exit"}

(* Publisher and pool are closed only after what main waits for: the last   *)
(* walk, however Stop meets the scheduler and even if main panics, and,     *)
(* once Shutdown has been called and did not give up, the last request.     *)
(* (Save goroutines, MQTT callbacks and traps are waited for by nobody.)    *)
Closed == kafka = "closed" \/ ~db
SinksCloseAfterWaits ==
  Closed => ~InSinks("sched") /\ (draining /\ ~late => \A q \in Requests : ~InSinks(q))

(* SNMP over HTTP works in servfull and nowhere else.  There no request     *)
(* finds GlobalSNMPClient nil: it is set before the goroutine of            *)
(* server.Start is spawned.  In servrest nobody ever sets it: every SNMP    *)
(* request is turned down, though src/README.md has servrest provide SNMP.  *)
SnmpOnlyInServfull ==
  \A q \in Requests :
    /\ answer[q] = "500 no client" => mode = "rest"
    /\ answer[q] \in {"200", "400", "500 agent"} => mode = "full"

(* Stop of the SNMP client returns although ticks and walks go on while it  *)
(* waits, as long as Kafka's buffer has room.                               *)
Stopping == Deferring("snmpClient.Stop")
SnmpStopReturns == Stopping ~> (~Stopping \/ kafka = "full" \/ ~Alive)

(* Once it has been asked to stop the process ends, even if a walk hangs in *)
(* Publish before the deferred publisher.Close could release it: the        *)
(* goroutine of server.Start sees to that, unless main panicked before it   *)
(* came to Shutdown; then the process hangs for as long as the buffer is    *)
(* full.                                                                    *)
ProcessEnds ==
  WF_vars(Alive /\ Serve) => (asked ~> ~Alive \/ (panicking /\ kafka = "full"))

----------------------------------------------------------------------------
(* "Shutdown gracefully shuts down the server": after a signal the process  *)
(* does not end while a request that was accepted is being worked on,       *)
(* unless Shutdown gave up on it or the CoAP server panics.                 *)
GracefulShutdown ==
  draining /\ ~late /\ ended \in {"fatal", "exit"} => \A q \in Requests : ~Active(q)
=============================================================================
