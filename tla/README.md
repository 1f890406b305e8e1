# A TLA+ model of Servone

Servone is a Go server that takes messages in over HTTP, CoAP, MQTT and SNMP,
stores them in PostgreSQL, forwards them to Kafka, and reconfigures its HTTP
and CoAP front ends whenever `config.yaml` changes. This directory holds TLA+
modules of its concurrent core, TLC configurations that check them on small
instances, and proofs, checked by TLAPS, of the properties that matter most.

    tlc -config MCConfigWatcher.cfg MCConfigWatcher          # one run
    tlapm ConfigWatcherProofs.tla                            # one proof module

`PROJECT.json` lists the runs, the source lines each definition stands for, the
hazards of the code and the properties that guard against them, and, for every
property, a plausible bug (`Bug_...` in the modules) that breaks it.

## Inventory

| part | source | state | operations | what is hard |
|---|---|---|---|---|
| ConfigWatcher | `config/watcher.go`, `LoadConfig` | fsnotify watcher, debounce timer, list of servers | Start, watchLoop, scheduleReload, reloadConfig, Stop | timers fire in goroutines of their own; reloads overlap; events are dropped |
| DynamicServer | `server/server.go` | config, router, http.Server.Handler, template cache, two mutexes | Reload, request handler, processTemplate, Start, Shutdown | requests run beside Reload and read the handler without a lock |
| CoapServer | `coap/coap.go` | config, router, stopChan, listening, mutex | start and its goroutine, Stop, Reload, handler | only `listening` is guarded; go-coap cannot be stopped |
| KafkaPublisher | `kafka/kafka.go` | kgo client | Publish, Close, SanitizeTopic | a synchronous call with a timeout over an asynchronous producer |
| Ingest | `db/database.go`, the save goroutines, the MQTT callback, `processResults` | connection pool | save, publish | two sinks, partial failure, ambiguous commits, process exit |
| SNMPClient, TrapServer | `snmpclient/snmp.go`, `handler.go` | stop channel, wait group, listener, global client | walk scheduler, GET over HTTP, traps, Stop | Stop against a tick; a walk blocked in Publish; a request without a client |
| MQTTClient | `mqttclient/mqtt.go` | paho client | Subscribe, Disconnect | a reconnection ends the session; one callback at a time; what an acknowledgement means |
| Lifecycle | `cmd/servfull`, `cmd/servrest` | the order of it all | boot, signal, shutdown, deferred calls | log.Fatalf skips defers; Shutdown against Start |
| Topic names | `kafka.go`, the callers of Publish | none | SanitizeTopic, run once or twice | legality, collisions |
| Metrics, configuration types | `metrics/`, `config/config.go` | counters | recorders, parsing | little state of their own |

How they interact: main loads the file and builds the servers; ConfigWatcher
calls `Reload` of DynamicServer and CoapServer (nil in servrest); every front
end hands messages to Ingest's code in goroutines or callbacks of its own; all
of them share one PostgreSQL pool and one KafkaPublisher.

What makes each part correct: the watcher loses no edit it is told of and
converges on the file; the HTTP server answers each request from one
configuration; the CoAP server does not panic unless two callers race, never
serves the routes of an older configuration than a goroutine was started for, and
brings a new address into service if the host lets it; Publish reports success
only for delivered records; a REST record on Kafka has a row; every message
settles unless Kafka's buffer stays full; an acknowledged MQTT message has been
tried on both sinks; publisher and pool are closed only after the walks, and the
requests that Shutdown waits for, are through; the process ends when asked to,
unless the CoAP server panics main while that buffer is full; every record's topic
has legal characters only and is its front end's own.

## Modules

`ConfigWatcher` is `config/watcher.go`. A content of the file is a revision
number and whether `LoadConfig` accepts it. `events` is the fsnotify channel
with the kernel's queue behind it (a full queue ends in an overflow mark and
drops the event), `loop` the place of `watchLoop`, `debouncer` the timer,
`reload[g]` the goroutine g of an AfterFunc. scheduleReload and Stop hold `cw.mu`
throughout and are one action each; reloadConfig takes no lock and is split at
the load, at each `Reload` call and at its return. `loaded`, `lastGood`,
`missed` (the latest write raised no event, the queue being full or the watch not
up) and `overlapped` are history variables that properties speak of and no guard
reads.

`Publisher` is the contract of `KafkaPublisherInterface`: a call is pending, its
record may be stored at any time from then on, and it returns nil only if it has
been. `KafkaPublisher` is the implementation, with kgo as external actions: the
bounded buffer (`slots`), the sender and the broker (`record`), and the queue of
promises that one goroutine of kgo runs in order, giving the slot back after the
callback. The refinement mapping sends `call` to `outcome` and the stored records
to `broker`.

`CoapServer` is `coap/coap.go`. Reload r brings configuration r and allocates
router r, stop channel r and serving goroutine r. Stop is one action (it holds
`cs.mu`); every other access of a field by Reload and by the goroutines is an
action of its own, because nothing guards it. Accesses are atomic: the compiler
emits single-word loads and stores for these pointers on the supported platforms.
A server that got its address gives it back only if it fails. ListenAndServe fails
on an address that an own server holds or that overlaps one (`Overlapping`: a
wildcard host and a specific one), and may fail on any other, at once or later:
a port of another process, an address that is not this host's, a privileged port.
The history variable `refused` keeps the goroutines that happened to, and only
NewAddressTakesEffect and ReloadRestarts speak of it; `age` is the order in which
the routers became current.

`HttpServer` is `server/server.go`. Reload runs under `configMux`, one route at a
time. A request reads `server.Handler` once (`Arrive`), is dispatched on that
router, and goes through the handler's early returns and the three steps of the
template cache. A request handed on to SNMP stays at "snmp" until the operation,
which SnmpClient models and which may wait for Kafka without limit, returns. `saves`
records which requests started a save goroutine; what that does is Ingest's subject. Paths are matched by equality. `ServedConfig` is
what a client may rely on: one configuration is in force at a time, and a request
gets one reply, from the configuration in force when it arrived. HttpServer
implements it with `handler` as the configuration in force.

`Ingest` is what happens to a message after a front end took it up, for the four
orders and reactions in the code: REST saves, then publishes only what it saved;
CoAP and MQTT save, then publish in any case; SNMP publishes, then saves. Kafka is
the contract `Publisher`, so that what is shown here rests only on what
`KafkaPublisher` is shown to implement, behind a buffer that has room or not
(`room`, which changes at any time): Publish hands its record over only while it has. PostgreSQL may
refuse, stay silent, or commit although the deadline passed; the process may end at
any moment. `DbPool` is not nil, since main gives up at boot if `InitDB` fails.

`MqttClient` is `mqttclient/mqtt.go` on top of Ingest, whose actions it reuses.
`link` is paho's connection, `sub` the broker's subscription, `mail[m]` where an
MQTT message is. A lost connection ends the clean session: the subscription and
what was queued are gone, and what had been received can no longer be
acknowledged. paho gives the callback one message at a time and acknowledges
after it has returned.

`SnmpClient` is `snmpclient/`: the scheduler's goroutine, the trap handler and
each GET request are workers that go through processResults, publish and then
save. Kafka appears as a buffer that has room, is full (Publish waits) or is
closed, PostgreSQL as a pool that is open or not. `Lifecycle` adds `cmd/`: the
calls of each main are a sequence (`Program`), `at` is the program counter,
`defers` the stack of deferred calls, `serve` the goroutine of server.Start, and
SnmpClient's workers run beside them. A call that fails is log.Fatalf; a signal
before signal.Notify kills the process. Of coapServer.Stop, which waits for nothing,
Lifecycle keeps that it may panic (CoapServer shows how it comes to that): main then
goes on with its deferred calls, without having come to Shutdown; a panic within a
reload ends the process at once.

`Topics` is SanitizeTopic and the names the front ends make: a name is a sequence
of characters, of which "!" stands for the illegal ones and the front ends' words
are one character each. RemoveIllegal is the regular expression's pass, written as
a recursive function so that it can be proved about.

Each component has a module of theorems: `ConfigWatcherProofs`,
`KafkaPublisherProofs`, `CoapServerProofs`, `HttpServerProofs`, `IngestProofs`,
`MqttClientProofs`, `LifecycleProofs` (of main and the SNMP workers) and
`TopicsProofs`. The `MC` modules give the constants their values.

## Runs

| cfg | shows | bounds |
|---|---|---|
| MCConfigWatcher | NoEditLost, OnlyParsedConfigs, SerialReloadsConverge, EditReachesServers, StopQuiesces | 3 servers, the second nil, 2 goroutines, queue 2, 3 changes of the file |
| MCConfigWatcher_overlap | fails: WatchedEditTakesEffect | 2 servers |
| MCKafkaPublisher | SuccessIsDelivered, OneResultPerCall, MetricsMatchReturns, ImplementsContract, SlotIsFreed, PublishReturnsUnlessFull | 3 calls, a buffer of 2 |
| MCCoapServer | PanicNeedsARace, RouterFromOneConfig, NoOlderRouter, ListeningIsBacked, NewAddressTakesEffect | 2 reloads, overlaps included, one onto an overlapping address |
| MCCoapServer_reload, _stop | fail: ReloadRestarts, StopIsGraceful | 1 or 2 reloads |
| MCHttpServer | ImplementsServedConfig, PublishedRoutersAreComplete, HandlerMatchesConfig, AnswersFromOneConfig, ReloadsFinish, RequestsFinish | 2 requests, 2 reloads, 5 kinds of request |
| MCMqttClient | RestRecordHasRow, BothSinksTried, AckMeansTried, EveryMessageSettles, ReceivedIsAcked | a REST and 2 MQTT messages, a pool of 1 |
| MCMqttClient_resubscribe | fails: StaysSubscribed | 1 message |
| MCLifecycle | SinksCloseAfterWaits, SnmpOnlyInServfull, SnmpStopReturns, ProcessEnds | both commands, 2 requests, 2 targets |
| MCLifecycle_shutdown | fails: GracefulShutdown | 1 request |
| MCTopics | LegalCharacters, FrontEndsKeepApart, SecondPassIsIdle | names of up to 4 characters |

Every passing run but MCTopics also checks its module's type invariant.

Why these bounds are enough. The watcher: an overlap needs two goroutines, the
late application of an older file two edits, a dropped event a full queue; a nil
server between two others catches a wrong index; the third change leaves room for
a rejected file between two good ones.
Kafka: two calls fill the buffer and the third waits in Produce. CoAP: one
configuration narrows the wildcard address, the other moves the server, and they come
in either order or at once; three serving goroutines compete for two ports. HTTP:
two requests share the cache across two reloads that change, break and remove
templates. Ingest and MQTT: a pool of one makes every message wait for another, and the
second MQTT message waits for the callback of the first; CoAP's order of the sinks is
MQTT's, and SNMP's is covered by IngestProofs. Lifecycle:
one request at work and one not, a walk that has a next target and one that has
none. Topics: four characters are enough for a prefix behind a slash ("/bz.") and
for one that only dropping a character makes ("b!z."). Of the safety properties the
proofs cover every other size; what only these bounds support is liveness. Deadlock checking is off in
every run: the environment may stop editing, calling and sending, and the processes
then rest, or end.

The failing runs state what the documentation says and the code does not keep;
PROJECT.json quotes each line. In short: overlapping reloads may leave a server
on the older file; a CoAP reload on an unchanged address has no effect; Stop and
Reload of the CoAP server together can close a channel twice; after a lost connection
the MQTT client is never subscribed again; a graceful shutdown kills the process under
the requests it waits for.

Four more disagreements with the documentation have no failing run of their own:

- servrest turns every SNMP request down, though `src/README.md:30` has it provide HTTP
  and SNMP: nobody there sets the SNMP client. SnmpOnlyInServfull states what the code
  does instead, and ClientFound proves it.
- An edit made after main has loaded the file and before the watch is up, or whose event
  a full kernel queue drops, waits for the next edit, though `src/README.md:32` promises
  that changes of the file take effect. NoEditLost and EditReachesServers speak only of
  edits an event was raised for (SeenEdit); both cases are in the model.
- A REST message whose INSERT commits as its deadline passes is stored and never offered
  to Kafka, though `src/README.md:14` promises reliable forwarding. RestRecordHasRow is
  the other direction: no record without its row.
- A name of more than 249 characters, which an MQTT topic can be, becomes a topic that
  Kafka refuses, though `kafka/kafka.go:87` promises compliance with its naming rules:
  nothing cuts it. LegalCharacters speaks of the characters only; length is not modelled.

Limits the passing runs are stated around, without a failing run of their own: a
reload may begin after the watcher's Stop has returned, but only ones already under way
(StopQuiesces); Publish blocks without limit on a full buffer
(PublishReturnsUnlessFull), and then so do save goroutines and MQTT callbacks
(EveryMessageSettles, ReceivedIsAcked), an SNMP request (RequestsFinish) and the SNMP
client's Stop (SnmpStopReturns) until log.Fatalf ends the process, which it does not
if main has panicked before Shutdown (ProcessEnds); nobody waits for save goroutines,
MQTT callbacks and traps before the sinks close, nor for requests once Shutdown has
given up or main has panicked (SinksCloseAfterWaits); a CoAP bind that fails clears
`listening` beside an older server (ListeningIsBacked has no converse); a REST message
that was saved when the process ends is not published (nothing resumes it); of two
methods on one CoAP path the last wins (Table); different names may share a topic
within a front end, and a trap's topic is
`bz.snmp.trap.bz.<address and port without colon>`, not the `snmp.trap.<source_ip>` of
`snmp_flow.md`.

## Fairness

Go's scheduler runs every goroutine that can run, so each goroutine's next step
is weakly fair, per goroutine; timers (the debouncer, the five seconds of Publish,
the deadline of an INSERT) fire. A `sync.RWMutex` is eventually granted to a
goroutine waiting for it, which makes ReloadBegins strongly fair. A select with two
ready cases chooses at random, so the scheduler's receive from the stop channel is
strongly fair: ticks cannot win for ever. Shutdown's context expires. ProcessEnds
alone assumes that the goroutine of server.Start gets its turn before main is
through. kgo runs its promises and fails what is left in a closed client's buffer;
paho reconnects in the end, and hands on and acknowledges what it has received.
Nothing is assumed of Kafka, of PostgreSQL, of clients, of the host's network, or of
whoever edits the file; nobody has to call Stop or send a signal. So nothing makes
kgo's buffer get room (BufferChanges, BufferFills), an SNMP operation return
(SnmpReturns) or a bind succeed: fairness of Publish binds only while there is room,
and each liveness property that Kafka or the host can stand in the way of names that
outcome as one of its own.

## Proofs

Every invariant of the passing runs, the two refinements and the action property
are theorems for all values of the constants. The assumptions on the constants are
named in the modules (WatcherAssumption, PublisherAssumption, ...) and only say what
they are: natural numbers, lists of endpoints, an address for each configuration,
workers with names of their own.

ConfigWatcherProofs, for every number of servers, goroutines, queued events and
edits:

- TypeCorrect: TypeOK is inductive, given that Notify keeps the queue bounded.
- EditsAreKept: NoEditLost is inductive relative to TypeOK. Each step that takes a
  write out of one place (queue, watchLoop, timer) puts it into the next; the load
  that takes it out of the last reads the file as it is. LoopNeedsWatch adds that
  watchLoop does not run before the watch is up.
- RejectedFilesStayOut: OnlyParsedConfigs is not inductive, for the configuration a
  goroutine carries is about to be applied; ParsedInv adds that it was accepted.
- SerialReloadsSettle: SerialReloadsConverge follows from NoEditLost and SerialInv,
  which says that without overlaps at most one goroutine runs, that one handing out
  carries the newest accepted configuration and has delivered it up to its place in
  the list, and that otherwise every server has it.
- StoppedStaysQuiet, the safety half of StopQuiesces: what a stopped watcher has put
  behind it (an event in hand, an armed timer, a running reload) does not come back.

KafkaPublisherProofs, for every set of calls and every buffer size:

- TypeCorrect.
- PublishIsHonest: SuccessIsDelivered is not inductive; IInv adds that a nil waiting
  in a resultChan, or queued as a promise, stands for a stored record.
- Refinement: KafkaPublisher implements the contract Publisher. Every action maps to a
  Call, Reject, Store or Return or leaves the abstract state alone; Return(c, "ok")
  needs IInv.
- OneResult: OneResultPerCall is not inductive; OneToken follows the one result of a
  call from kgo's record to the promise to resultChan: it is never in two of these
  places, and there is none left to come once Publish has taken it.
- MetricsCorrect: Counted says that the calls with a given result are finitely many
  and its counter is their number, so the set of all calls need not be finite; with
  PublishIsHonest the success counter is bounded by the delivered records.

IngestProofs, for every set of messages, assignment of front ends and pool
size:

- Invariance: IInv is TypeOK and MsgInv(m) for each message: a sink is in use only in
  its stage, a stage is entered only after the one before it, and Kafka hears of a
  REST message only after its INSERT returned ok, which implies the row. The lemma
  Frame reduces each step to the message that takes it.
- TypeCorrect, NoRecordWithoutRow and NoSinkSkipped follow. RestRecordHasRow alone is
  not inductive: the record is stored long after the decision to publish.

MqttClientProofs, for the same constants:

- ImplementsIngest: every step of MqttClient is a step of Ingest or leaves Ingest's
  variables alone, so the theorems above hold of MQTT messages whatever the connection
  does.
- MqttTypeCorrect and AckedIsTried: AckMeansTried is not inductive; MqttIInv adds
  Ingest's IInv and that the stage of an acknowledged message is "done", which DoneIsFinal
  shows nothing undoes.

HttpServerProofs, for every number of reloads and requests, every list of endpoints,
all templates and all requests. IInv is inductive:

- MuxInv: configMux is held by exactly the reload between its lock and its unlock;
  config and router are that reload's, and while nobody holds it they and the handler
  agree. HandlerAgrees follows.
- FillInv(r): the router of reload r holds the routes setupRoutes has got to, and all
  of them from the swap on; PubInv: handler and requests hold only published routers.
  RoutersComplete follows.
- CacheInv: an entry of the template cache is the template it is filed under; ReqInv(q):
  what request q has established at each of its steps is what its router's
  configuration says of it. AnswersConsistent follows: AnswersFromOneConfig alone says
  nothing of requests that are still under way.
- Refinement: HttpServer implements ServedConfig. The swap of the handler maps to a
  change of the configuration in force, Arrive to Arrive, and the step that ends a
  request to Reply, where ReqInv shows the answer is legal; all others stutter.

CoapServerProofs, for every number of reloads, every list of endpoints and every
address:

- NoPanicAlone: PanicNeedsARace is inductive with ChanInv (a stop channel that its
  reload has not opened yet is nobody's) and StopInv (without a race, the current
  channel is closed only between a reload's own Stop and its make).
- RoutersDoNotMix: SerialInv, which is claimed only of histories without overlaps, says
  that one reload is under way at most, what that reload has set at each of its steps
  (Undisturbed), and that otherwise config and router belong together.
- NoStaleRouter: NoOlderRouter says nothing of a goroutine that has yet to read
  cs.router; RouterInv adds that the current router is the youngest and that a
  goroutine is spawned only when its reload is through. It holds of overlapping
  reloads too.
- FlagIsBacked: ListeningIsBacked is inductive relative to TypeOK: only MarkListening
  sets the flag, and a goroutine leaves the four places only by clearing it.

LifecycleProofs, for every set of requests, number of targets and Term, and both
commands:

- IInv ties the stack of deferred calls to the program counter. SchedInv: the walk
  scheduler runs only while snmpClient.Stop is still deferred, and that Stop lies above
  (runs before) the closing of the sinks; CloseInv: the sinks are closed by those
  deferred calls only, whether main returns or panics. RequestInv: no request
  starts before server.Start or after Shutdown, Shutdown has been called exactly when
  main is past it, and a main that panics is not. SinksOutlive follows.
- ClientInv: servfull sets the global client before it serves, servrest never does, and
  without one no request comes as far as the sinks. ClientFound follows.

TopicsProofs, for names of every length:

- RemoveIllegalProperties: what the recursive pass keeps. The library's induction over
  the naturals takes an operator and cannot be used, so PrefixInduction does it with
  sets: of the prefixes a claim fails for, one is the shortest. It also shows that the
  function exists (KeptExists).
- SanitizeTopicProperties: the result is legal and in the namespace, keeps the word the
  name begins with as its fourth character, and a legal name of the namespace stays as
  it is. OnlyLegalCharacters, FrontEndsDoNotMix and RestTopicIsFinal follow, with an
  invariant that carries the word (or, for REST, legality) from FrontEnd to Publish.

Model-checked only: the liveness properties, since the prover does not handle liveness
under fairness (EditReachesServers, StopQuiesces, SlotIsFreed, PublishReturnsUnlessFull,
NewAddressTakesEffect, ReloadsFinish, RequestsFinish, EveryMessageSettles,
ReceivedIsAcked, SnmpStopReturns, ProcessEnds), and the counterexamples of the failing
runs.

## Not modelled, and why

The length of a name (LegalCharacters is about its characters); YAML, JSON and template
contents (only what the code decides on is kept, so a truncated file that is still YAML
is one more accepted file); path patterns of the HTTP router; CREATE TABLE's columns;
the method versions of the save functions, which nothing calls; the pool gauges and the
recorders of metrics that nothing calls. The REST address is read at boot only, whatever
a reload brings.
The unordered memory accesses of the racy fields are taken as single atomic loads and
stores. go-coap's recycling of messages (`r.Code()` in the save goroutine) lies outside
the repository. ConfigWatcher is not composed with the two servers it reloads: their
Reload is total and takes no lock the watcher holds, and each server's module already
lets reloads come one after the other or at once, in either order.

## Plan

1. Done: all modules above, their runs, and the proofs above.
2. The safety halves of the other liveness properties, as StoppedStaysQuiet is of
   StopQuiesces: a served CoAP address stays served (NewAddressTakesEffect), a wait for
   the SNMP client's Stop never grows (SnmpStopReturns), no message leaves its settled
   stage under lost connections (EveryMessageSettles).
