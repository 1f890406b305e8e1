----------------------------- MODULE CoapServer -----------------------------
(***************************************************************************)
(* coap/coap.go: the CoAP server, its Stop and its Reload.  Reload r       *)
(* brings configuration r, allocates router r and stop channel r, and      *)
(* spawns the serving goroutine r; 0 stands for what NewCoapServer did.    *)
(* Only listening is guarded by cs.mu: Reload's other accesses of the      *)
(* fields are steps of their own, which anything may come between.  The    *)
(* go-coap server never gives its address back unless it fails (Stop says  *)
(* so itself).                                                             *)
(***************************************************************************)
EXTENDS Integers, Sequences

CONSTANTS
  NumReloads,   \* bound: the reloads that happen
  AddrOf,       \* AddrOf[c]: host and port of configuration c
  Overlapping,  \* pairs of addresses that clash, such as {":5683", "127.0.0.1:5683"}
  Endpoints     \* Endpoints[c]: its endpoints, a sequence of [path, method]

Reloads == 1..NumReloads
Ids     == 0..NumReloads

EndpointConfig == [path : STRING, method : STRING]

ASSUME CoapAssumption ==
  /\ NumReloads \in Nat
  /\ DOMAIN AddrOf = Ids
  /\ Endpoints \in [Ids -> Seq(EndpointConfig)]

VARIABLES
  config, router, stopChan, listening,   \* the fields of CoapServer
  routes,       \* routes[x]: what router x holds, at most one route per path
  closedChans,  \* the stop channels that have been closed
  reload,       \* the calls of Reload
  server,       \* the goroutines spawned by start
  stopping,     \* main has called Stop
  panicked,     \* close of a closed channel: the process is gone
  overlapped,   \* history: two calls of Reload ran at the same time
  refused,      \* history: the goroutines that the world outside kept from serving
  age           \* history: the order in which the routers became cs.router

vars == <<config, router, stopChan, listening, routes, closedChans,
          reload, server, stopping, panicked, overlapped, refused, age>>
fields == <<config, router, stopChan, listening>>
calls  == <<stopping, panicked, overlapped>>
ghost  == <<calls, refused, age>>

----------------------------------------------------------------------------
(* Routing.                                                                 *)

Route(c, i) == [path |-> Endpoints[c][i].path, method |-> Endpoints[c][i].method, cfg |-> c]

(* mux.Router keeps one handler per path: a second one replaces the first.  *)
HandleFunc(table, r) == {q \in table : q.path # r.path} \union {r}

(* What setupRoutes makes of configuration c: the last endpoint of a path.  *)
Table(c) ==
  {Route(c, i) : i \in {j \in DOMAIN Endpoints[c] :
     \A k \in DOMAIN Endpoints[c] : Endpoints[c][k].path = Endpoints[c][j].path => k <= j}}

(* How a request is answered: the path's handler refuses every other method *)
(* and says nothing at all to a request without a body; the body of a reply *)
(* comes from the endpoint the handler was made for.                        *)
Bodies == {"none", "unreadable", "read"}
createHandler(table, path, method, body) ==
  LET match    == {r \in table : r.path = path}
      endpoint == {r \in match : r.method = method}
  IN  CASE match = {} -> "NotFound"
        [] match # {} /\ endpoint = {} -> "MethodNotAllowed"
        [] endpoint # {} /\ body = "none" -> "Nothing"
        [] endpoint # {} /\ body = "unreadable" -> "InternalServerError"
        [] OTHER -> CHOOSE r \in endpoint : TRUE

----------------------------------------------------------------------------
NoReload  == [pc |-> "idle", from |-> 0, next |-> 1]
NotSpawned == [pc |-> "none", addr |-> AddrOf[0], router |-> 0]

Init ==
  /\ config = 0 /\ router = 0 /\ stopChan = 0 /\ listening = FALSE
  /\ routes = [x \in Ids |-> IF x = 0 THEN Table(0) ELSE {}]
  /\ closedChans = {}
  /\ reload = [r \in Reloads |-> NoReload]
  /\ server = [x \in Ids |-> IF x = 0 THEN [NotSpawned EXCEPT !.pc = "mark"] ELSE NotSpawned]
  /\ stopping = FALSE /\ panicked = FALSE /\ overlapped = FALSE
  /\ refused = {} /\ age = [x \in Ids |-> 0]

Active(r)  == reload[r].pc \notin {"idle", "done"}
Goto(r, l) == reload' = [reload EXCEPT ![r].pc = l]

(* Stop, under cs.mu from beginning to end.                                 *)
StopBody ==
  \/ /\ ~listening
     /\ UNCHANGED <<listening, closedChans, panicked>>
  \/ /\ listening /\ stopChan \notin closedChans
     /\ closedChans' = closedChans \union {stopChan}
     /\ listening' = FALSE
     /\ UNCHANGED panicked
  \/ /\ listening /\ stopChan \in closedChans
     /\ panicked' = TRUE
     /\ UNCHANGED <<listening, closedChans>>

MainStop ==
  /\ ~stopping
  /\ stopping' = TRUE
  /\ StopBody
  /\ UNCHANGED <<config, router, stopChan, routes, reload, server, overlapped, refused, age>>

(* Reload, one access of a shared field at a time.                          *)
ReloadStop(r) ==
  /\ reload[r].pc = "idle"
  /\ overlapped' = (overlapped \/ \E q \in Reloads : Active(q))
  /\ StopBody
  /\ Goto(r, "config")
  /\ UNCHANGED <<config, router, stopChan, routes, server, stopping, refused, age>>

Bug_NextConfig(r) == r + 1
NewConfig(r) == r
SetConfig(r) ==
  /\ reload[r].pc = "config"
  /\ config' = NewConfig(r)
  /\ Goto(r, "router")
  /\ UNCHANGED <<router, stopChan, listening, routes, closedChans, server, ghost>>

Bug_ReuseRouter(r) == router
EmptyRouter(r) == r
NewRouter(r) ==
  /\ reload[r].pc = "router"
  /\ router' = EmptyRouter(r)
  /\ age' = [age EXCEPT ![r] = age[router] + 1]
  /\ Goto(r, "range")
  /\ UNCHANGED <<config, stopChan, listening, routes, closedChans, server, calls, refused>>

(* setupRoutes ranges over the endpoints cs.config has when the loop begins *)
SetupRoutes(r) ==
  /\ reload[r].pc = "range"
  /\ reload' = [reload EXCEPT ![r] = [pc |-> "routes", from |-> config, next |-> 1]]
  /\ UNCHANGED <<fields, routes, closedChans, server, ghost>>

(* addRoute adds the next one to the router cs.router has by then.          *)
AddRoute(r) ==
  LET c == reload[r].from
      i == reload[r].next IN
  /\ reload[r].pc = "routes" /\ i <= Len(Endpoints[c])
  /\ routes' = [routes EXCEPT ![router] = HandleFunc(@, Route(c, i))]
  /\ reload' = [reload EXCEPT ![r].next = i + 1]
  /\ UNCHANGED <<fields, closedChans, server, ghost>>

Bug_ReuseStopChan(r) == stopChan
OpenChan(r) == r
MakeStopChan(r) ==
  /\ reload[r].pc = "routes" /\ reload[r].next > Len(Endpoints[reload[r].from])
  /\ stopChan' = OpenChan(r)
  /\ Goto(r, "start")
  /\ UNCHANGED <<config, router, listening, routes, closedChans, server, ghost>>

(* The address start listens on.                                            *)
Bug_BootAddress(c) == AddrOf[0]
ListenAddr(c) == AddrOf[c]

(* start reads the address, then spawns the goroutine that serves.          *)
start(r) ==
  /\ reload[r].pc = "start"
  /\ server' = [server EXCEPT ![r] = [@ EXCEPT !.pc = "mark", !.addr = ListenAddr(config)]]
  /\ Goto(r, "done")
  /\ UNCHANGED <<fields, routes, closedChans, ghost>>

----------------------------------------------------------------------------
(* The goroutine of start.                                                  *)

MarkListening(x) ==
  /\ server[x].pc = "mark"
  /\ listening' = TRUE
  /\ server' = [server EXCEPT ![x].pc = "call"]
  /\ UNCHANGED <<config, router, stopChan, routes, closedChans, reload, ghost>>

(* The argument cs.router is read when ListenAndServe is called.            *)
Bug_BootRouter == 0
ServedRouter == router
ReadRouter(x) ==
  /\ server[x].pc = "call"
  /\ server' = [server EXCEPT ![x].pc = "bind", ![x].router = ServedRouter]
  /\ UNCHANGED <<fields, routes, closedChans, reload, ghost>>

(* An own server holds the address or one that overlaps it.                 *)
Clash(a, b) == a = b \/ {a, b} \in Overlapping
Bound(a) == \E y \in Ids : server[y].pc = "serving" /\ Clash(server[y].addr, a)

(* ListenAndServe returns an error (which is logged whichever way the       *)
(* select on stopChan goes) when the address is taken by an own server, and *)
(* perhaps when it is not: a port of another process, an address that this  *)
(* host does not have or this user may not bind.                            *)
ListenAndServe(x) ==
  /\ server[x].pc = "bind"
  /\ \/ /\ ~Bound(server[x].addr)
        /\ server' = [server EXCEPT ![x].pc = "serving"]
        /\ UNCHANGED refused
     \/ /\ server' = [server EXCEPT ![x].pc = "failed"]
        /\ refused' = IF Bound(server[x].addr) THEN refused ELSE refused \union {x}
  /\ UNCHANGED <<fields, routes, closedChans, reload, calls, age>>

(* The same call returns an error later on; the address is free again.      *)
ServingFails(x) ==
  /\ server[x].pc = "serving"
  /\ server' = [server EXCEPT ![x].pc = "failed"]
  /\ refused' = refused \union {x}
  /\ UNCHANGED <<fields, routes, closedChans, reload, calls, age>>

Bug_KeepFlag == listening
StoppedFlag  == FALSE
MarkStopped(x) ==
  /\ server[x].pc = "failed"
  /\ listening' = StoppedFlag
  /\ server' = [server EXCEPT ![x].pc = "exited"]
  /\ UNCHANGED <<config, router, stopChan, routes, closedChans, reload, ghost>>

----------------------------------------------------------------------------
Reload(r) ==
  \/ SetConfig(r) \/ NewRouter(r) \/ SetupRoutes(r)
  \/ AddRoute(r) \/ MakeStopChan(r) \/ start(r)
Server(x) == MarkListening(x) \/ ReadRouter(x) \/ ListenAndServe(x) \/ MarkStopped(x)

Next ==
  /\ ~panicked
  /\ \/ MainStop
     \/ \E r \in Reloads : ReloadStop(r) \/ Reload(r)
     \/ \E x \in Ids : Server(x) \/ ServingFails(x)

Spec == Init /\ [][Next]_vars

(* Go runs every goroutine that can run; nobody has to edit the file, and   *)
(* nothing says that the network fails, or lets a server bind.              *)
Fairness ==
  /\ \A r \in Reloads : WF_vars(~panicked /\ Reload(r))
  /\ \A x \in Ids : WF_vars(~panicked /\ Server(x))

FairSpec == Spec /\ Fairness

----------------------------------------------------------------------------
AllRoutes == UNION {{Route(c, i) : i \in DOMAIN Endpoints[c]} : c \in Ids}

ReloadCall == [pc   : {"idle", "config", "router", "range", "routes", "start", "done"},
               from : Ids, next : Nat \ {0}]
Goroutine == [pc     : {"none", "mark", "call", "bind", "serving", "failed", "exited"},
              addr   : {AddrOf[c] : c \in Ids}, router : Ids]

TypeOK ==
  /\ config \in Ids /\ router \in Ids /\ stopChan \in Ids /\ listening \in BOOLEAN
  /\ routes \in [Ids -> SUBSET AllRoutes]
  /\ closedChans \subseteq Ids
  /\ reload \in [Reloads -> ReloadCall]
  /\ \A r \in Reloads : reload[r].next <= Len(Endpoints[reload[r].from]) + 1
  /\ server \in [Ids -> Goroutine]
  /\ stopping \in BOOLEAN /\ panicked \in BOOLEAN /\ overlapped \in BOOLEAN
  /\ refused \subseteq Ids /\ age \in [Ids -> Nat]

Settled ==
  /\ ~panicked
  /\ \A r \in Reloads : ~Active(r)
  /\ \A x \in Ids : server[x].pc \in {"none", "serving", "exited"}

(* Stop closes a channel twice only when two callers of it race: reloads    *)
(* one after the other never do, however late their goroutines set          *)
(* listening.                                                               *)
PanicNeedsARace == panicked => overlapped \/ stopping

(* Reloads one after the other never mix: whatever goroutine serves it, a   *)
(* router only ever holds routes of the configuration it was made for, and  *)
(* all of them once no reload is running.                                   *)
RouterFromOneConfig ==
  ~overlapped =>
    \A x \in Ids :
      /\ \A q \in routes[x] : q.cfg = x
      /\ (x = router /\ \A r \in Reloads : ~Active(r)) => routes[x] = Table(x)

(* A serving goroutine reads cs.router without a lock and perhaps long      *)
(* after start spawned it: it may serve the routes of a later reload, never *)
(* those of an earlier one.                                                 *)
NoOlderRouter ==
  \A x \in Ids : server[x].pc \in {"bind", "serving"} => age[server[x].router] >= age[x]

(* Stop closes the channel only for a goroutine that serves or is about to: *)
(* listening never outlives the last of them, though several goroutines,    *)
(* Stop and failing binds all write it.  (The converse fails: a bind that   *)
(* fails clears listening while an older server still serves.)              *)
ListeningIsBacked ==
  listening => \E x \in Ids : server[x].pc \in {"call", "bind", "serving", "failed"}

(* A configuration that moves the server to an address no other one clashes *)
(* with is served there in the end, unless the world outside refuses it:    *)
(* every request, to a path of this or of an older configuration, is        *)
(* answered as this one alone would, unless another reload follows or two   *)
(* callers of Stop or Reload race.                                          *)
Fresh(c) == \A d \in Ids \ {c} : ~Clash(AddrOf[d], AddrOf[c])
AnswersAs(table, c) ==
  \A r \in AllRoutes, body \in Bodies :
    createHandler(table, r.path, r.method, body) = createHandler(Table(c), r.path, r.method, body)
Serves(c) ==
  \E x \in Ids : /\ server[x].pc = "serving" /\ server[x].addr = AddrOf[c]
                 /\ AnswersAs(routes[server[x].router], c)
NewAddressTakesEffect ==
  \A c \in Reloads :
    (config = c /\ Fresh(c)) ~> (Serves(c) \/ c \in refused \/ config # c \/ overlapped \/ panicked)

----------------------------------------------------------------------------
(* What the comments promise and the code does not keep.                    *)

(* "Reload restarts the CoAP server with the new configuration", at least   *)
(* where nothing outside the process stands in the way.                     *)
ReloadRestarts == Settled /\ ~overlapped /\ ~stopping /\ refused = {} => Serves(config)

(* "Stop gracefully stops the CoAP server": calling it does not kill the    *)
(* process.                                                                 *)
StopIsGraceful == ~panicked
=============================================================================
