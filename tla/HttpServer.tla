----------------------------- MODULE HttpServer -----------------------------
(***************************************************************************)
(* server/server.go: DynamicServer, its Reload under configMux, and the    *)
(* requests that net/http runs beside it.  Reload r brings configuration r *)
(* and router r; 0 is what NewDynamicServer built.  net/http reads         *)
(* server.Handler without a lock, once per request.  Of a request only     *)
(* what the code decides on is kept: path, method and the kind of body.    *)
(***************************************************************************)
EXTENDS Integers, Sequences

CONSTANTS
  NumReloads,   \* bound: the reloads that happen
  Endpoints,    \* Endpoints[c]: sequence of [path, method, body, validStatus]
  Templates,    \* the response bodies that contain "{{"
  BadTemplates, \* the ones of them template.Parse rejects
  SnmpPaths,    \* /api/snmp/get and /api/snmp/walk
  Requests,     \* bound: the requests that arrive
  Inputs        \* what they may carry: [path, method, body]

Reloads == 1..NumReloads
Ids     == 0..NumReloads

EndpointConfig == [path : STRING, method : STRING, body : STRING, validStatus : BOOLEAN]

ASSUME HttpAssumption ==
  /\ NumReloads \in Nat
  /\ Endpoints \in [Ids -> Seq(EndpointConfig)]
  /\ BadTemplates \subseteq Templates
  /\ Inputs \subseteq [path : STRING, method : STRING, body : STRING] /\ Inputs # {}

VARIABLES
  config, router,   \* ds.config and ds.router
  handler,          \* ds.server.Handler
  templates,        \* ds.templates: the cache, from its key to what was parsed
  configMux,        \* 0 when free, else the reload that holds it
  routes,           \* routes[x]: the routes of router x, in order
  reload,           \* the calls of Reload
  request,          \* the requests in flight and the answers of the past ones
  saves             \* the requests whose SaveToDBWithError goroutine was spawned

vars == <<config, router, handler, templates, configMux, routes, reload, request, saves>>

----------------------------------------------------------------------------
(* Routing (gorilla/mux).                                                   *)

EndpointRoute(c, i) == [cfg |-> c, idx |-> i,
                        path |-> Endpoints[c][i].path, method |-> Endpoints[c][i].method]
MetricsRoute(c) == [cfg |-> c, idx |-> 0, path |-> "/metrics", method |-> "GET"]

(* What setupRoutes makes of configuration c.                               *)
FullTable(c) ==
  Append([i \in DOMAIN Endpoints[c] |-> EndpointRoute(c, i)], MetricsRoute(c))

(* The first route that matches path and method; if only the path matches   *)
(* somewhere, 405.                                                          *)
Miss(status) == [cfg |-> 0, idx |-> -1, path |-> status, method |-> "none"]
Hits(table, in) == {i \in DOMAIN table : table[i].path = in.path /\ table[i].method = in.method}
ServeHTTP(table, in) ==
  LET hits == Hits(table, in)
  IN  CASE hits # {} -> table[CHOOSE i \in hits : \A j \in hits : i <= j]
        [] hits = {} /\ (\E i \in DOMAIN table : table[i].path = in.path) -> Miss("405")
        [] OTHER -> Miss("404")

----------------------------------------------------------------------------
NoReload  == [pc |-> "idle", from |-> 0, next |-> 1]
NoAnswer  == [status |-> "none", text |-> <<>>]
NoRequest == [pc |-> "idle", in |-> CHOOSE in \in Inputs : TRUE, router |-> 0,
              route |-> MetricsRoute(0), tmpl |-> "none", answer |-> NoAnswer]

Init ==
  /\ config = 0 /\ router = 0 /\ handler = 0
  /\ templates = [k \in {} |-> k]
  /\ configMux = 0
  /\ routes = [x \in Ids |-> IF x = 0 THEN FullTable(0) ELSE <<>>]
  /\ reload = [r \in Reloads |-> NoReload]
  /\ request = [q \in Requests |-> NoRequest]
  /\ saves = {}

----------------------------------------------------------------------------
(* Reload.                                                                  *)

Bug_NoLock == TRUE
CanLock == configMux = 0

ReloadCalled(r) ==
  /\ reload[r].pc = "idle"
  /\ reload' = [reload EXCEPT ![r].pc = "lock"]
  /\ UNCHANGED <<config, router, handler, templates, configMux, routes, request, saves>>

(* configMux is taken, the configuration and an empty router are installed. *)
Bug_PublishEarly(r) == r
HandlerMeanwhile(r) == handler
ReloadBegins(r) ==
  /\ reload[r].pc = "lock" /\ CanLock
  /\ configMux' = r /\ config' = r /\ router' = r /\ handler' = HandlerMeanwhile(r)
  /\ reload' = [reload EXCEPT ![r] = [pc |-> "routes", from |-> r, next |-> 1]]
  /\ UNCHANGED <<templates, routes, request, saves>>

(* setupRoutes: the endpoints in order, then /metrics.                      *)
addRoute(r) ==
  LET c == reload[r].from
      i == reload[r].next IN
  /\ reload[r].pc = "routes"
  /\ \/ /\ i <= Len(Endpoints[c])
        /\ routes' = [routes EXCEPT ![router] = Append(@, EndpointRoute(c, i))]
        /\ reload' = [reload EXCEPT ![r].next = i + 1]
     \/ /\ i > Len(Endpoints[c])
        /\ routes' = [routes EXCEPT ![router] = Append(@, MetricsRoute(c))]
        /\ reload' = [reload EXCEPT ![r].pc = "swap"]
  /\ UNCHANGED <<config, router, handler, templates, configMux, request, saves>>

SwapHandler(r) ==
  /\ reload[r].pc = "swap"
  /\ handler' = router
  /\ reload' = [reload EXCEPT ![r].pc = "cache"]
  /\ UNCHANGED <<config, router, templates, configMux, routes, request, saves>>

(* The cache is emptied under templateMux; Reload returns and unlocks.      *)
Bug_NoUnlock == configMux
Unlocked == 0
ResetTemplates(r) ==
  /\ reload[r].pc = "cache"
  /\ templates' = [k \in {} |-> k]
  /\ configMux' = Unlocked
  /\ reload' = [reload EXCEPT ![r].pc = "done"]
  /\ UNCHANGED <<config, router, handler, routes, request, saves>>

----------------------------------------------------------------------------
(* A request.                                                               *)

Endpoint(q) == Endpoints[request[q].route.cfg][request[q].route.idx]
Finish(q, status, text) ==
  request' = [request EXCEPT ![q].pc = "done", ![q].answer = [status |-> status, text |-> text]]
server == <<config, router, handler, configMux, routes, reload>>

Arrive(q, in) ==
  /\ request[q].pc = "idle"
  /\ request' = [request EXCEPT ![q] = [@ EXCEPT !.pc = "route", !.in = in, !.router = handler]]
  /\ UNCHANGED <<server, templates, saves>>

(* The router looks its routes up: 404, 405, /metrics or an endpoint.       *)
Bug_CurrentRouter(q) == router
RouterOf(q) == request[q].router
Dispatch(q) ==
  LET hit == ServeHTTP(routes[RouterOf(q)], request[q].in) IN
  /\ request[q].pc = "route"
  /\ \/ /\ hit.idx = -1 /\ Finish(q, hit.path, <<>>)
     \/ /\ hit.idx = 0 /\ Finish(q, "metrics", <<>>)
     \/ /\ hit.idx > 0
        /\ request' = [request EXCEPT ![q].pc = "handle", ![q].route = hit]
  /\ UNCHANGED <<server, templates, saves>>

(* The closure made by createHandler, up to WriteHeader: a body over the    *)
(* limit is refused, an SNMP endpoint handed on, a JSON object saved in the *)
(* background; a status outside 100..999 then panics in WriteHeader and     *)
(* net/http drops the connection.                                           *)
TooLarge(in)  == in.body = "toolarge"
IsSnmp(e, in) == e.path \in SnmpPaths /\ in.method = "POST"
SavesBody(in) == in.method = "POST" /\ in.body = "json"

Refuse(q) ==
  /\ request[q].pc = "handle" /\ TooLarge(request[q].in)
  /\ Finish(q, "413", <<>>)
  /\ UNCHANGED <<server, templates, saves>>

HandOnToSnmp(q) ==
  /\ request[q].pc = "handle" /\ ~TooLarge(request[q].in) /\ IsSnmp(Endpoint(q), request[q].in)
  /\ request' = [request EXCEPT ![q].pc = "snmp"]
  /\ UNCHANGED <<server, templates, saves>>

(* HandleSNMPRequest answers when the operation (SnmpClient) has returned,  *)
(* and that publishes to Kafka before it does: with the producer's buffer   *)
(* full nothing says when.                                                  *)
SnmpReturns(q) ==
  /\ request[q].pc = "snmp"
  /\ Finish(q, "snmp", <<>>)
  /\ UNCHANGED <<server, templates, saves>>

Handle(q) ==
  /\ request[q].pc = "handle" /\ ~TooLarge(request[q].in) /\ ~IsSnmp(Endpoint(q), request[q].in)
  /\ saves' = IF SavesBody(request[q].in) THEN saves \union {q} ELSE saves
  /\ \/ /\ ~Endpoint(q).validStatus
        /\ Finish(q, "dropped", <<>>)
     \/ /\ Endpoint(q).validStatus
        /\ request' = [request EXCEPT ![q].pc = "template"]
  /\ UNCHANGED <<server, templates>>

(* processTemplate: a plain body is returned as it is; otherwise the cache  *)
(* is consulted under the read lock.                                        *)
Bug_ByPath(e) == e.path
CacheKey(e) == e.body

LookUp(q) ==
  LET e == Endpoint(q) IN
  /\ request[q].pc = "template"
  /\ \/ /\ e.body \notin Templates
        /\ Finish(q, "ok", <<"raw", e.body>>)
     \/ /\ e.body \in Templates /\ CacheKey(e) \in DOMAIN templates
        /\ request' = [request EXCEPT ![q].pc = "execute", ![q].tmpl = templates[CacheKey(e)]]
     \/ /\ e.body \in Templates /\ CacheKey(e) \notin DOMAIN templates
        /\ request' = [request EXCEPT ![q].pc = "parse"]
  /\ UNCHANGED <<server, templates, saves>>

(* Parse, then store under the write lock: the cache may have been emptied  *)
(* or filled by others in between.                                          *)
Bug_ParseAnything(body) == TRUE
Parses(body) == body \notin BadTemplates
Bug_RetryParse(q) == UNCHANGED request
ParseError(q) == Finish(q, "ok", <<"raw", Endpoint(q).body>>)
ParseAndStore(q) ==
  LET e == Endpoint(q) IN
  /\ request[q].pc = "parse"
  /\ \/ /\ ~Parses(e.body) /\ ParseError(q)
        /\ UNCHANGED templates
     \/ /\ Parses(e.body)
        /\ templates' = [k \in DOMAIN templates \union {CacheKey(e)} |->
                           IF k = CacheKey(e) THEN e.body ELSE templates[k]]
        /\ request' = [request EXCEPT ![q].pc = "execute", ![q].tmpl = e.body]
  /\ UNCHANGED <<server, saves>>

(* Execution substitutes the variables, or fails and leaves the body raw.   *)
Execute(q) ==
  /\ request[q].pc = "execute"
  /\ \E mode \in {"rendered", "raw"} :
       Finish(q, "ok",
              <<mode, IF mode = "rendered" THEN request[q].tmpl ELSE Endpoint(q).body>>)
  /\ UNCHANGED <<server, templates, saves>>

----------------------------------------------------------------------------
Reload(r) == addRoute(r) \/ SwapHandler(r) \/ ResetTemplates(r)
Serve(q)  == \/ Dispatch(q) \/ Refuse(q) \/ HandOnToSnmp(q) \/ Handle(q)
             \/ LookUp(q) \/ ParseAndStore(q) \/ Execute(q)

Next ==
  \/ \E r \in Reloads : ReloadCalled(r) \/ ReloadBegins(r) \/ Reload(r)
  \/ \E q \in Requests : (\E in \in Inputs : Arrive(q, in)) \/ Serve(q) \/ SnmpReturns(q)

Spec == Init /\ [][Next]_vars

(* Go runs every goroutine that can run, and a sync.RWMutex is eventually   *)
(* granted to the goroutine that waits for it.  Nothing is assumed of       *)
(* SnmpReturns.                                                             *)
Fairness ==
  /\ \A r \in Reloads : SF_vars(ReloadBegins(r)) /\ WF_vars(Reload(r))
  /\ \A q \in Requests : WF_vars(Serve(q))

FairSpec == Spec /\ Fairness

----------------------------------------------------------------------------
Done(q) == request[q].pc = "done"

Route == UNION {{MetricsRoute(c)} \union {EndpointRoute(c, i) : i \in DOMAIN Endpoints[c]} : c \in Ids}
Body  == UNION {{Endpoints[c][i].body : i \in DOMAIN Endpoints[c]} : c \in Ids}

ReloadCall == [pc   : {"idle", "lock", "routes", "swap", "cache", "done"},
               from : Ids, next : Nat \ {0}]
Answer     == [status : {"none", "404", "405", "metrics", "413", "snmp", "dropped", "ok"},
               text   : {<<>>} \union ({"raw", "rendered"} \X (Body \union Templates))]
Exchange   == [pc   : {"idle", "route", "handle", "snmp", "template", "parse", "execute", "done"},
               in   : Inputs, router : Ids, route : Route,
               tmpl : Templates \union {"none"}, answer : Answer]

TypeOK ==
  /\ config \in Ids /\ router \in Ids /\ handler \in Ids /\ configMux \in Ids
  /\ \A k \in DOMAIN templates : templates[k] \in Templates \ BadTemplates
  /\ routes \in [Ids -> Seq(Route)]
  /\ \A x \in Ids : Len(routes[x]) <= Len(FullTable(x))
  /\ reload \in [Reloads -> ReloadCall]
  /\ \A r \in Reloads : reload[r].next <= Len(Endpoints[reload[r].from]) + 1
  /\ request \in [Requests -> Exchange]
  /\ saves \subseteq Requests

(* No request ever runs on a router that is still being filled: the one in  *)
(* server.Handler, and every one a request still holds, has all its routes. *)
PublishedRoutersAreComplete ==
  /\ routes[handler] = FullTable(handler)
  /\ \A q \in Requests : request[q].pc # "idle" => routes[request[q].router] = FullTable(request[q].router)

(* Whenever no reload is running, the handler net/http uses is the router   *)
(* of the configuration the server says it has, whatever reloads overlapped *)
HandlerMatchesConfig ==
  configMux = 0 => handler = router /\ router = config

(* The reference answers of configuration c to an input, and whether its    *)
(* body is saved: what one would get if the whole server never changed.     *)
ReferenceStatus(c, in) ==
  LET hit == ServeHTTP(FullTable(c), in)
      e   == Endpoints[c][hit.idx]
  IN  IF hit.idx = -1 THEN hit.path
      ELSE IF hit.idx = 0 THEN "metrics"
      ELSE IF TooLarge(in) THEN "413"
      ELSE IF IsSnmp(e, in) THEN "snmp"
      ELSE IF e.validStatus THEN "ok" ELSE "dropped"
ReferenceTexts(c, in) ==
  LET body == Endpoints[c][ServeHTTP(FullTable(c), in).idx].body
  IN  IF ReferenceStatus(c, in) # "ok" THEN {<<>>}
      ELSE {<<"raw", body>>} \union {<<"rendered", b>> : b \in {body} \intersect (Templates \ BadTemplates)}
Reference(c, in) ==
  [answers |-> {[status |-> ReferenceStatus(c, in), text |-> t] : t \in ReferenceTexts(c, in)},
   saved   |-> ReferenceStatus(c, in) \in {"ok", "dropped"} /\ SavesBody(in)]

(* A request is answered, and its body saved or not, as if the              *)
(* configuration current at its arrival were the only one: reloads and the  *)
(* shared template cache, emptied and refilled meanwhile, never show.       *)
AnswersFromOneConfig ==
  \A q \in Requests : Done(q) =>
    LET ref == Reference(request[q].router, request[q].in)
    IN  request[q].answer \in ref.answers /\ (q \in saves <=> ref.saved)

(* To its clients the server is one that has a configuration in force, the  *)
(* one of the router in server.Handler, and answers every request, once,    *)
(* from the configuration in force when it arrived.                         *)
Served == INSTANCE ServedConfig WITH
  Configs <- Ids,
  None    <- <<>>,
  Legal   <- [a \in Ids \X Inputs |-> Reference(a[1], a[2]).answers \X {Reference(a[1], a[2]).saved}],
  inForce <- handler,
  arrived <- [q \in Requests |-> IF request[q].pc = "idle" THEN <<>>
                                 ELSE <<request[q].router, request[q].in>>],
  reply   <- [q \in Requests |-> IF Done(q) THEN <<request[q].answer, q \in saves>> ELSE <<>>]
ImplementsServedConfig == Served!Spec

(* Every reload finishes, also when several come at once.                   *)
ReloadsFinish == \A r \in Reloads : reload[r].pc = "lock" ~> reload[r].pc = "done"

(* Every request is answered, whatever reloads run, or is an SNMP operation *)
(* that has not returned: only Kafka can keep a client waiting, and only    *)
(* the SNMP paths wait for Kafka.                                           *)
RequestsFinish ==
  \A q \in Requests : request[q].pc = "route" ~> Done(q) \/ request[q].pc = "snmp"
=============================================================================
