-------------------------- MODULE HttpServerProofs --------------------------
(***************************************************************************)
(* Proofs about HttpServer, for every number of reloads and of requests,   *)
(* every configuration and every set of templates.                         *)
(***************************************************************************)
EXTENDS HttpServer, SequenceTheorems, WellFoundedInduction, TLAPS

(* Configuration 0 is the one the server starts with, the others come with  *)
(* their reloads.                                                           *)
LEMMA IdsProperties ==
  0 \in Ids /\ 0 \notin Reloads /\ Ids = Reloads \union {0} /\ Ids \subseteq Nat
BY HttpAssumption DEF Reloads, Ids

USE HttpAssumption, IdsProperties

Holds(r)     == reload[r].pc \in {"routes", "swap", "cache"}
Published(x) == x = 0 \/ reload[x].pc \in {"cache", "done"}

(* configMux is held by the one reload between ReloadBegins and             *)
(* ResetTemplates, whose configuration and router are then the current ones *)
MuxInv ==
  /\ \A r \in Reloads : Holds(r) <=> configMux = r
  /\ \A r \in Reloads : Holds(r) => config = r /\ router = r /\ reload[r].from = r
  /\ configMux = 0 => handler = router /\ router = config
  /\ \A r \in Reloads : reload[r].pc = "cache" => handler = r

(* The router of reload r holds what setupRoutes has added so far.          *)
FillInv(r) ==
  /\ reload[r].pc \in {"idle", "lock"} => routes[r] = <<>>
  /\ reload[r].pc = "routes" =>
       /\ Len(routes[r]) = reload[r].next - 1
       /\ \A i \in 1..Len(routes[r]) : routes[r][i] = EndpointRoute(r, i)
  /\ reload[r].pc \in {"swap", "cache", "done"} => routes[r] = FullTable(r)

(* Requests only ever get hold of published routers.                        *)
PubInv ==
  /\ routes[0] = FullTable(0)
  /\ Published(handler)
  /\ \A q \in Requests : request[q].pc # "idle" => Published(request[q].router)

CacheInv == \A k \in DOMAIN templates : templates[k] = k

(* What a request has established on its way through createHandler.         *)
ReqInv(q) ==
  LET req == request[q] IN
  /\ req.pc \in {"idle", "route", "handle", "snmp"} => q \notin saves
  /\ req.pc \in {"handle", "snmp", "template", "parse", "execute"} =>
       req.route = ServeHTTP(FullTable(req.router), req.in) /\ req.route.idx > 0
  /\ req.pc = "snmp" => ~TooLarge(req.in) /\ IsSnmp(Endpoint(q), req.in)
  /\ req.pc \in {"template", "parse", "execute"} =>
       /\ ~TooLarge(req.in) /\ ~IsSnmp(Endpoint(q), req.in) /\ Endpoint(q).validStatus
       /\ q \in saves <=> SavesBody(req.in)
  /\ req.pc = "parse" => Endpoint(q).body \in Templates
  /\ req.pc = "execute" =>
       Endpoint(q).body \in Templates \ BadTemplates /\ req.tmpl = Endpoint(q).body
  /\ req.pc = "done" =>
       LET ref == Reference(req.router, req.in)
       IN  req.answer \in ref.answers /\ (q \in saves <=> ref.saved)

IInv == /\ TypeOK /\ MuxInv /\ PubInv /\ CacheInv
        /\ \A r \in Reloads : FillInv(r)
        /\ \A q \in Requests : ReqInv(q)

----------------------------------------------------------------------------
(* The operators.                                                           *)

(* A table that setupRoutes makes: one route per endpoint, then /metrics.   *)
LEMMA TableProperties ==
  ASSUME NEW c \in Ids
  PROVE  /\ Endpoints[c] \in Seq(EndpointConfig) /\ Len(Endpoints[c]) \in Nat
         /\ \A i \in 1..Len(Endpoints[c]) : Endpoints[c][i] \in EndpointConfig
         /\ FullTable(c) \in Seq(Route) /\ Len(FullTable(c)) = Len(Endpoints[c]) + 1
         /\ \A i \in 1..Len(Endpoints[c]) : FullTable(c)[i] = EndpointRoute(c, i)
         /\ FullTable(c)[Len(Endpoints[c]) + 1] = MetricsRoute(c)
         /\ MetricsRoute(c) \in Route
         /\ \A i \in 1..Len(Endpoints[c]) : EndpointRoute(c, i) \in Route
<1> DEFINE n == Len(Endpoints[c])
           t == [i \in 1..n |-> EndpointRoute(c, i)]
<1>1. Endpoints[c] \in Seq(EndpointConfig)
  OBVIOUS
<1>2. n \in Nat /\ DOMAIN Endpoints[c] = 1..n
  BY <1>1, LenProperties
<1>3. \A i \in 1..n : Endpoints[c][i] \in EndpointConfig
  BY <1>1, ElementOfSeq
<1>4. \A i \in 1..n : EndpointRoute(c, i) \in Route
  BY <1>2 DEF Route
<1>5. t \in Seq(Route) /\ Len(t) = n
  <2>1. t \in [1..n -> Route]
    BY <1>4
  <2> HIDE DEF t, n
  <2> QED
    BY <1>2, <2>1
<1>6. MetricsRoute(c) \in Route
  BY DEF Route
<1>7. FullTable(c) = Append(t, MetricsRoute(c))
  BY <1>2 DEF FullTable
<1>8. /\ FullTable(c) \in Seq(Route) /\ Len(FullTable(c)) = n + 1
      /\ \A i \in 1..n : FullTable(c)[i] = t[i]
      /\ FullTable(c)[n + 1] = MetricsRoute(c)
  BY <1>2, <1>5, <1>6, <1>7, AppendProperties
<1> QED
  BY <1>1, <1>2, <1>3, <1>4, <1>6, <1>8

(* The first of several matches exists.                                     *)
LEMMA FirstExists ==
  ASSUME NEW S, S \subseteq Nat, S # {}
  PROVE  \E i \in S : \A j \in S : i <= j
<1> DEFINE R == {ss \in Nat \X Nat : ss[1] < ss[2]}
<1>1. IsWellFoundedOn(R, Nat)
  BY NatLessThanWellFounded, Zenon DEF OpToRel
<1>2. PICK i \in S : \A j \in S : ~(<<j, i>> \in R)
  BY <1>1, WFMin
<1>3. \A m, k \in Nat : m < k => <<m, k>> \in R
  OBVIOUS
<1>4. ASSUME NEW j \in S PROVE i <= j
  <2>1. i \in Nat /\ j \in Nat /\ <<j, i>> \notin R
    BY <1>2
  <2> QED
    BY <1>3, <2>1
<1> QED
  BY <1>4

(* What the router of configuration c finds for a request.                  *)
LEMMA RoutingProperties ==
  ASSUME NEW c \in Ids, NEW in
  PROVE  LET hit == ServeHTTP(FullTable(c), in)
         IN  \/ hit \in {Miss("404"), Miss("405"), MetricsRoute(c)}
             \/ \E i \in 1..Len(Endpoints[c]) : hit = EndpointRoute(c, i)
<1> DEFINE t    == FullTable(c)
           hits == Hits(t, in)
<1>1. DOMAIN t = 1..(Len(Endpoints[c]) + 1) /\ Len(Endpoints[c]) \in Nat
  BY TableProperties, LenProperties
<1>2. CASE hits # {}
  <2> DEFINE i == CHOOSE i \in hits : \A j \in hits : i <= j
  <2>1. hits \subseteq Nat /\ hits \subseteq DOMAIN t
    BY <1>1 DEF Hits
  <2>2. i \in DOMAIN t
    BY <1>2, <2>1, FirstExists
  <2>3. ServeHTTP(t, in) = t[i]
    BY <1>2 DEF ServeHTTP
  <2> HIDE DEF i
  <2>4. i \in 1..Len(Endpoints[c]) \/ i = Len(Endpoints[c]) + 1
    BY <1>1, <2>2
  <2> QED
    BY <2>3, <2>4, TableProperties
<1>3. CASE hits = {}
  BY <1>3 DEF ServeHTTP
<1> QED
  BY <1>2, <1>3

(* A match with an index belongs to an endpoint of that configuration.      *)
LEMMA HitIsAnEndpoint ==
  ASSUME NEW c \in Ids, NEW in, ServeHTTP(FullTable(c), in).idx > 0
  PROVE  LET hit == ServeHTTP(FullTable(c), in)
         IN  /\ hit.cfg = c /\ hit.idx \in 1..Len(Endpoints[c])
             /\ hit \in Route /\ Endpoints[c][hit.idx] \in EndpointConfig
<1> DEFINE hit == ServeHTTP(FullTable(c), in)
<1>1. \E i \in 1..Len(Endpoints[c]) : hit = EndpointRoute(c, i)
  BY RoutingProperties DEF Miss, MetricsRoute
<1> QED
  BY <1>1, TableProperties DEF EndpointRoute

----------------------------------------------------------------------------
(* The inductive invariant.                                                 *)

LEMMA InitIInv == Init => IInv
<1> SUFFICES ASSUME Init PROVE IInv
  OBVIOUS
<1>1. NoRequest.in \in Inputs /\ 0 \in Ids /\ MetricsRoute(0) \in Route
  BY TableProperties DEF NoRequest
<1>2. TypeOK
  <2>1. routes \in [Ids -> Seq(Route)] /\ \A x \in Ids : Len(routes[x]) <= Len(FullTable(x))
    BY TableProperties, EmptySeq DEF Init
  <2>2. \A r \in Reloads : reload[r].next <= Len(Endpoints[reload[r].from]) + 1
    BY <1>1, TableProperties DEF Init, NoReload
  <2>3. NoRequest \in [pc     : {"idle"}, in : Inputs, router : Ids, route : Route,
                       tmpl : {"none"}, answer : [status : {"none"}, text : {<<>>}]]
    BY <1>1 DEF NoRequest, NoAnswer
  <2>4. request \in
          [Requests -> [pc     : {"idle"}, in : Inputs, router : Ids, route : Route,
                        tmpl : {"none"}, answer : [status : {"none"}, text : {<<>>}]]]
    BY <2>3 DEF Init
  <2> QED
    BY <1>1, <2>1, <2>2, <2>4 DEF Init, TypeOK, NoReload, ReloadCall, Exchange, Answer
<1>3. MuxInv
  BY DEF Init, MuxInv, Holds, NoReload
<1>4. PubInv /\ CacheInv
  BY DEF Init, PubInv, CacheInv, Published, NoRequest
<1>5. \A r \in Reloads : FillInv(r)
  BY DEF Init, FillInv, NoReload
<1>6. \A q \in Requests : ReqInv(q)
  BY DEF Init, ReqInv, NoRequest
<1> QED
  BY <1>2, <1>3, <1>4, <1>5, <1>6 DEF IInv

(* Reloads leave the requests alone.                                        *)
LEMMA RequestsUntouched ==
  ASSUME \A q \in Requests : ReqInv(q), UNCHANGED <<request, saves>>
  PROVE  \A q \in Requests : ReqInv(q)'
BY DEF ReqInv, Endpoint

LEMMA ReloadCalledStep ==
  ASSUME IInv, NEW r \in Reloads, ReloadCalled(r)
  PROVE  IInv'
<1>1. /\ reload[r].pc = "idle" /\ reload' = [reload EXCEPT ![r].pc = "lock"]
      /\ UNCHANGED <<config, router, handler, templates, configMux, routes, request, saves>>
  BY DEF ReloadCalled
<1>2. TypeOK /\ MuxInv /\ PubInv /\ CacheInv /\ \A s \in Reloads : FillInv(s)
  BY DEF IInv
<1>3. /\ reload'[r].pc = "lock" /\ reload'[r].from = reload[r].from /\ reload'[r].next = reload[r].next
      /\ \A s \in Reloads \ {r} : reload'[s] = reload[s]
  BY <1>1, <1>2 DEF TypeOK
<1>4. TypeOK'
  BY <1>1, <1>2, <1>3 DEF TypeOK, ReloadCall
<1>5. MuxInv'
  BY <1>1, <1>2, <1>3 DEF MuxInv, Holds
<1>6. PubInv' /\ CacheInv'
  <2>1. \A x \in Ids : Published(x) => Published(x)'
    BY <1>1, <1>3 DEF Published
  <2> QED
    BY <1>1, <1>2, <2>1 DEF TypeOK, Exchange, PubInv, CacheInv
<1>7. \A s \in Reloads : FillInv(s)'
  BY <1>1, <1>2, <1>3 DEF FillInv
<1> QED
  BY <1>1, <1>4, <1>5, <1>6, <1>7, RequestsUntouched DEF IInv

LEMMA ReloadBeginsStep ==
  ASSUME IInv, NEW r \in Reloads, ReloadBegins(r)
  PROVE  IInv'
<1>1. /\ reload[r].pc = "lock" /\ configMux = 0 /\ r \in Ids
      /\ configMux' = r /\ config' = r /\ router' = r
      /\ reload' = [reload EXCEPT ![r] = [pc |-> "routes", from |-> r, next |-> 1]]
      /\ UNCHANGED <<handler, templates, routes, request, saves>>
  BY DEF ReloadBegins, CanLock, HandlerMeanwhile
<1>2. TypeOK /\ MuxInv /\ PubInv /\ CacheInv /\ \A s \in Reloads : FillInv(s)
  BY DEF IInv
<1>3. /\ reload'[r].pc = "routes" /\ reload'[r].from = r /\ reload'[r].next = 1
      /\ \A s \in Reloads \ {r} : reload'[s] = reload[s]
  BY <1>1, <1>2 DEF TypeOK
<1>4. TypeOK'
  <2>1. reload' \in [Reloads -> ReloadCall]
    BY <1>1, <1>2 DEF TypeOK, ReloadCall
  <2>2. \A s \in Reloads : reload'[s].next <= Len(Endpoints[reload'[s].from]) + 1
    <3>1. Len(Endpoints[r]) \in Nat
      BY TableProperties
    <3>2. reload'[r].next <= Len(Endpoints[reload'[r].from]) + 1
      BY <1>3, <3>1
    <3> QED
      BY <1>2, <1>3, <3>2 DEF TypeOK
  <2> QED
    BY <1>1, <1>2, <2>1, <2>2 DEF TypeOK
<1>5. MuxInv'
  BY <1>1, <1>2, <1>3 DEF MuxInv, Holds
<1>6. PubInv' /\ CacheInv'
  <2>1. \A x \in Ids : Published(x) => Published(x)'
    BY <1>1, <1>3 DEF Published
  <2> QED
    BY <1>1, <1>2, <2>1 DEF TypeOK, Exchange, PubInv, CacheInv
<1>7. \A s \in Reloads : FillInv(s)'
  BY <1>1, <1>2, <1>3, EmptySeq DEF FillInv
<1> QED
  BY <1>1, <1>4, <1>5, <1>6, <1>7, RequestsUntouched DEF IInv

LEMMA addRouteStep ==
  ASSUME IInv, NEW r \in Reloads, addRoute(r)
  PROVE  IInv'
<1> DEFINE i == reload[r].next
           n == Len(Endpoints[r])
<1>1. TypeOK /\ MuxInv /\ PubInv /\ CacheInv /\ \A s \in Reloads : FillInv(s)
  BY DEF IInv
<1>2. /\ reload[r].pc = "routes" /\ router = r /\ reload[r].from = r
      /\ UNCHANGED <<config, router, handler, templates, configMux, request, saves>>
  BY <1>1 DEF addRoute, MuxInv, Holds
<1>3. /\ n \in Nat /\ i \in 1..(n + 1) /\ r \in Ids
      /\ routes[r] \in Seq(Route) /\ Len(routes[r]) = i - 1
      /\ \A j \in 1..(i - 1) : routes[r][j] = EndpointRoute(r, j)
  <2>1. n \in Nat /\ r \in Ids
    BY TableProperties
  <2>2. i \in Nat \ {0} /\ i <= n + 1 /\ routes[r] \in Seq(Route)
    BY <1>1, <1>2, <2>1 DEF TypeOK, ReloadCall
  <2>3. Len(routes[r]) = i - 1 /\ \A j \in 1..Len(routes[r]) : routes[r][j] = EndpointRoute(r, j)
    BY <1>1, <1>2 DEF FillInv
  <2> HIDE DEF i, n
  <2> QED
    BY <2>1, <2>2, <2>3
<1> HIDE DEF i, n
<1>4. \A s \in Reloads \ {r} : reload'[s] = reload[s]
  BY <1>1 DEF TypeOK, addRoute
<1>5. \A x \in Ids \ {r} : routes'[x] = routes[x]
  BY <1>1, <1>2 DEF TypeOK, addRoute
<1>6. /\ routes' \in [Ids -> Seq(Route)] /\ Len(routes'[r]) <= n + 1
      /\ reload'[r].from = r /\ reload'[r].next \in 1..(n + 1) /\ reload'[r].pc \in {"routes", "swap"}
      /\ reload' \in [Reloads -> ReloadCall]
      /\ FillInv(r)'
  <2>1. CASE /\ i <= n /\ routes' = [routes EXCEPT ![r] = Append(@, EndpointRoute(r, i))]
             /\ reload' = [reload EXCEPT ![r].next = i + 1]
    <3>1. EndpointRoute(r, i) \in Route
      BY <1>3, <2>1, TableProperties DEF n
    <3>2. /\ routes'[r] \in Seq(Route) /\ Len(routes'[r]) = i
          /\ \A j \in 1..i : routes'[r][j] = EndpointRoute(r, j)
      <4>1. routes'[r] = Append(routes[r], EndpointRoute(r, i))
        BY <1>1, <1>3, <2>1 DEF TypeOK
      <4>2. /\ routes'[r] \in Seq(Route) /\ Len(routes'[r]) = Len(routes[r]) + 1
            /\ \A j \in 1..Len(routes[r]) : routes'[r][j] = routes[r][j]
            /\ routes'[r][Len(routes[r]) + 1] = EndpointRoute(r, i)
        BY <1>3, <3>1, <4>1, AppendProperties
      <4> HIDE DEF i
      <4>3. i \in Nat /\ i >= 1 /\ Len(routes[r]) = i - 1
        BY <1>3
      <4>4. ASSUME NEW j \in 1..i PROVE routes'[r][j] = EndpointRoute(r, j)
        <5>1. CASE j \in 1..(i - 1)
          <6>1. routes'[r][j] = routes[r][j]
            BY <4>2, <4>3, <5>1
          <6> QED
            BY <1>3, <5>1, <6>1
        <5>2. CASE j = Len(routes[r]) + 1
          BY <4>2, <4>3, <5>2
        <5> QED
          BY <4>3, <5>1, <5>2
      <4> QED
        BY <4>2, <4>3, <4>4
    <3>3. routes' \in [Ids -> Seq(Route)]
      BY <1>1, <1>3, <2>1, <3>2 DEF TypeOK
    <3>4. /\ reload'[r].pc = "routes" /\ reload'[r].next = i + 1 /\ reload'[r].from = r
          /\ reload' \in [Reloads -> ReloadCall]
      <4>1. i + 1 \in Nat \ {0}
        BY <1>3
      <4>2. reload'[r] = [reload[r] EXCEPT !.next = i + 1] /\ DOMAIN reload' = Reloads
        BY <1>1, <2>1 DEF TypeOK
      <4>3. reload[r] \in [pc : {"routes"}, from : {r}, next : Nat \ {0}]
        BY <1>1, <1>2 DEF TypeOK, ReloadCall
      <4>4. reload'[r] \in ReloadCall
        BY <1>3, <4>1, <4>2, <4>3 DEF ReloadCall
      <4>5. reload' = [reload EXCEPT ![r] = reload'[r]]
        BY <1>1, <2>1 DEF TypeOK
      <4> QED
        BY <1>1, <4>2, <4>3, <4>4, <4>5 DEF TypeOK
    <3>5. Len(routes'[r]) = reload'[r].next - 1
      BY <1>3, <3>2, <3>4
    <3>6. FillInv(r)'
      BY <3>2, <3>4, <3>5 DEF FillInv
    <3> QED
      BY <1>3, <2>1, <3>2, <3>3, <3>4, <3>6
  <2>2. CASE /\ i > n /\ routes' = [routes EXCEPT ![r] = Append(@, MetricsRoute(r))]
             /\ reload' = [reload EXCEPT ![r].pc = "swap"]
    <3>1. MetricsRoute(r) \in Route /\ i = n + 1
      BY <1>3, <2>2, TableProperties
    <3>2. /\ routes'[r] \in Seq(Route) /\ Len(routes'[r]) = n + 1
          /\ \A j \in 1..n : routes'[r][j] = EndpointRoute(r, j)
          /\ routes'[r][n + 1] = MetricsRoute(r)
      <4>1. routes'[r] = Append(routes[r], MetricsRoute(r))
        BY <1>1, <1>3, <2>2 DEF TypeOK
      <4>2. /\ routes'[r] \in Seq(Route) /\ Len(routes'[r]) = Len(routes[r]) + 1
            /\ \A j \in 1..Len(routes[r]) : routes'[r][j] = routes[r][j]
            /\ routes'[r][Len(routes[r]) + 1] = MetricsRoute(r)
        BY <1>3, <3>1, <4>1, AppendProperties
      <4>3. n \in Nat /\ Len(routes[r]) = n
        BY <1>3, <3>1
      <4>4. \A j \in 1..n : routes[r][j] = EndpointRoute(r, j)
        BY <1>3, <3>1, <4>3
      <4> QED
        BY <4>2, <4>3, <4>4
    <3>3. routes'[r] = FullTable(r)
      <4>1. /\ FullTable(r) \in Seq(Route) /\ Len(FullTable(r)) = n + 1
            /\ \A j \in 1..n : FullTable(r)[j] = EndpointRoute(r, j)
            /\ FullTable(r)[n + 1] = MetricsRoute(r)
        BY <1>3, TableProperties DEF n
      <4>2. \A j \in 1..(n + 1) : routes'[r][j] = FullTable(r)[j]
        <5> SUFFICES ASSUME NEW j \in 1..(n + 1)
                     PROVE  routes'[r][j] = FullTable(r)[j]
          OBVIOUS
        <5>1. CASE j = n + 1
          BY <3>2, <4>1, <5>1
        <5>2. CASE j \in 1..n
          BY <3>2, <4>1, <5>2
        <5>3. n \in Nat
          BY <1>3
        <5> QED
          BY <5>1, <5>2, <5>3
      <4> QED
        BY <3>2, <4>1, <4>2, SeqEqual
    <3>4. routes' \in [Ids -> Seq(Route)]
      BY <1>1, <1>3, <2>2, <3>2 DEF TypeOK
    <3>5. /\ reload'[r].pc = "swap" /\ reload'[r].next = i /\ reload'[r].from = r
          /\ reload' \in [Reloads -> ReloadCall]
      <4>1. reload'[r] = [reload[r] EXCEPT !.pc = "swap"]
        BY <1>1, <2>2 DEF TypeOK
      <4>2. reload[r] \in [pc : {"routes"}, from : {r}, next : Nat \ {0}]
        BY <1>1, <1>2 DEF TypeOK, ReloadCall
      <4>3. reload'[r] \in ReloadCall
        BY <1>3, <4>1, <4>2 DEF ReloadCall
      <4>4. reload' = [reload EXCEPT ![r] = reload'[r]]
        BY <1>1, <2>2 DEF TypeOK
      <4> QED
        BY <1>1, <4>1, <4>2, <4>3, <4>4 DEF TypeOK, i
    <3> QED
      BY <1>3, <3>1, <3>2, <3>3, <3>4, <3>5 DEF FillInv
  <2> QED
    BY <1>2, <2>1, <2>2 DEF addRoute, i, n
<1>7. TypeOK'
  <2>1. Len(FullTable(r)) = n + 1
    BY <1>3, TableProperties DEF n
  <2>2. \A x \in Ids : Len(routes'[x]) <= Len(FullTable(x))
    BY <1>1, <1>5, <1>6, <2>1 DEF TypeOK
  <2>3. \A s \in Reloads : reload'[s].next <= Len(Endpoints[reload'[s].from]) + 1
    <3>1. reload'[r].next <= Len(Endpoints[reload'[r].from]) + 1
      BY <1>3, <1>6 DEF n
    <3> QED
      BY <1>1, <1>4, <3>1 DEF TypeOK
  <2> QED
    BY <1>1, <1>2, <1>6, <2>2, <2>3 DEF TypeOK
<1>8. MuxInv'
  BY <1>1, <1>2, <1>4, <1>6 DEF MuxInv, Holds
<1>9. PubInv' /\ CacheInv'
  <2>1. \A x \in Ids : Published(x) <=> Published(x)'
    BY <1>2, <1>4, <1>6 DEF Published
  <2> QED
    BY <1>1, <1>2, <1>3, <1>5, <2>1 DEF TypeOK, Exchange, PubInv, CacheInv
<1>10. \A s \in Reloads : FillInv(s)'
  <2>1. ASSUME NEW s \in Reloads \ {r} PROVE FillInv(s)'
    BY <1>1, <1>4, <1>5 DEF FillInv
  <2> QED
    BY <1>6, <2>1
<1> QED
  BY <1>2, <1>7, <1>8, <1>9, <1>10, RequestsUntouched DEF IInv

LEMMA SwapHandlerStep ==
  ASSUME IInv, NEW r \in Reloads, SwapHandler(r)
  PROVE  IInv'
<1>1. TypeOK /\ MuxInv /\ PubInv /\ CacheInv /\ \A s \in Reloads : FillInv(s)
  BY DEF IInv
<1>2. /\ reload[r].pc = "swap" /\ router = r
      /\ handler' = r /\ reload' = [reload EXCEPT ![r].pc = "cache"]
      /\ UNCHANGED <<config, router, templates, configMux, routes, request, saves>>
  BY <1>1 DEF SwapHandler, MuxInv, Holds
<1>3. /\ reload'[r].pc = "cache" /\ reload'[r].from = reload[r].from /\ reload'[r].next = reload[r].next
      /\ \A s \in Reloads \ {r} : reload'[s] = reload[s]
  BY <1>1, <1>2 DEF TypeOK, ReloadCall
<1>4. TypeOK'
  BY <1>1, <1>2, <1>3 DEF TypeOK, ReloadCall
<1>5. MuxInv'
  BY <1>1, <1>2, <1>3 DEF MuxInv, Holds
<1>6. PubInv' /\ CacheInv'
  <2>1. \A x \in Ids : Published(x) => Published(x)'
    BY <1>2, <1>3 DEF Published
  <2>2. Published(handler)'
    BY <1>2, <1>3 DEF Published
  <2> QED
    BY <1>1, <1>2, <2>1, <2>2 DEF TypeOK, Exchange, PubInv, CacheInv
<1>7. \A s \in Reloads : FillInv(s)'
  BY <1>1, <1>2, <1>3 DEF FillInv
<1> QED
  BY <1>1, <1>2, <1>4, <1>5, <1>6, <1>7, RequestsUntouched DEF IInv

LEMMA ResetTemplatesStep ==
  ASSUME IInv, NEW r \in Reloads, ResetTemplates(r)
  PROVE  IInv'
<1>1. TypeOK /\ MuxInv /\ PubInv /\ CacheInv /\ \A s \in Reloads : FillInv(s)
  BY DEF IInv
<1>2. /\ reload[r].pc = "cache" /\ configMux = r /\ router = r /\ config = r /\ handler = r
      /\ templates' = [k \in {} |-> k] /\ configMux' = 0
      /\ reload' = [reload EXCEPT ![r].pc = "done"]
      /\ UNCHANGED <<config, router, handler, routes, request, saves>>
  BY <1>1 DEF ResetTemplates, MuxInv, Holds, Unlocked
<1>3. /\ reload'[r].pc = "done" /\ reload'[r].from = reload[r].from /\ reload'[r].next = reload[r].next
      /\ \A s \in Reloads \ {r} : reload'[s] = reload[s]
  BY <1>1, <1>2 DEF TypeOK, ReloadCall
<1>4. TypeOK'
  BY <1>1, <1>2, <1>3 DEF TypeOK, ReloadCall
<1>5. MuxInv'
  BY <1>1, <1>2, <1>3 DEF MuxInv, Holds
<1>6. PubInv' /\ CacheInv'
  <2>1. \A x \in Ids : Published(x) => Published(x)'
    BY <1>2, <1>3 DEF Published
  <2> QED
    BY <1>1, <1>2, <2>1 DEF TypeOK, Exchange, PubInv, CacheInv
<1>7. \A s \in Reloads : FillInv(s)'
  BY <1>1, <1>2, <1>3 DEF FillInv
<1> QED
  BY <1>1, <1>2, <1>4, <1>5, <1>6, <1>7, RequestsUntouched DEF IInv

----------------------------------------------------------------------------
(* Requests.                                                                *)

(* What holds of the server and of the requests other than q stays as it    *)
(* was when only q moves.                                                   *)
LEMMA OnlyThisRequest ==
  ASSUME IInv, NEW q \in Requests, UNCHANGED server, CacheInv',
         \A k \in DOMAIN templates' : templates'[k] \in Templates \ BadTemplates,
         request' = [request EXCEPT ![q] = request'[q]], request'[q] \in Exchange,
         saves' \ {q} = saves \ {q}, saves' \subseteq Requests,
         Published(request'[q].router), ReqInv(q)'
  PROVE  IInv'
<1>1. TypeOK /\ MuxInv /\ PubInv /\ CacheInv /\ \A s \in Reloads : FillInv(s)
  BY DEF IInv
<1>2. UNCHANGED <<config, router, handler, configMux, routes, reload>>
  BY DEF server
<1>3. \A p \in Requests \ {q} : request'[p] = request[p] /\ (p \in saves' <=> p \in saves)
  BY <1>1 DEF TypeOK
<1>4. TypeOK'
  BY <1>1, <1>2 DEF TypeOK
<1>5. MuxInv' /\ \A s \in Reloads : FillInv(s)'
  BY <1>1, <1>2 DEF MuxInv, Holds, FillInv
<1>6. PubInv'
  BY <1>1, <1>2, <1>3 DEF PubInv, Published
<1>7. ASSUME NEW p \in Requests \ {q} PROVE ReqInv(p)'
  <2>1. request'[p] = request[p] /\ (p \in saves' <=> p \in saves)
    BY <1>3
  <2>2. Endpoint(p)' = Endpoint(p)
    BY <2>1 DEF Endpoint
  <2>3. ReqInv(p)
    BY DEF IInv
  <2> QED
    BY <2>1, <2>2, <2>3 DEF ReqInv
<1> QED
  BY <1>4, <1>5, <1>6, <1>7 DEF IInv

LEMMA ArriveStep ==
  ASSUME IInv, NEW q \in Requests, NEW in \in Inputs, Arrive(q, in)
  PROVE  IInv'
<1>1. TypeOK /\ PubInv /\ CacheInv /\ ReqInv(q)
  BY DEF IInv
<1>2. /\ request[q].pc = "idle" /\ UNCHANGED <<server, templates, saves>> /\ handler \in Ids
      /\ request'[q] = [request[q] EXCEPT !.pc = "route", !.in = in, !.router = handler]
      /\ request' = [request EXCEPT ![q] = request'[q]]
  BY <1>1 DEF Arrive, TypeOK
<1>3. request'[q] \in Exchange /\ request'[q].pc = "route" /\ request'[q].router = handler
  <2>1. request[q] \in Exchange
    BY <1>1 DEF TypeOK
  <2> QED
    BY <1>2, <2>1 DEF Exchange
<1>4. ReqInv(q)'
  BY <1>1, <1>2, <1>3 DEF ReqInv
<1>5. Published(handler) /\ CacheInv'
  BY <1>1, <1>2 DEF PubInv, CacheInv
<1>6. saves' \ {q} = saves \ {q} /\ saves' \subseteq Requests
  BY <1>1, <1>2 DEF TypeOK
<1>7. \A k \in DOMAIN templates' : templates'[k] \in Templates \ BadTemplates
  BY <1>1, <1>2 DEF TypeOK
<1> QED
  BY <1>2, <1>3, <1>4, <1>5, <1>6, <1>7, OnlyThisRequest

(* A request that reached createHandler runs an endpoint of the             *)
(* configuration it arrived under.                                          *)
LEMMA AtEndpoint ==
  ASSUME TypeOK, NEW q \in Requests, ReqInv(q),
         request[q].pc \in {"handle", "snmp", "template", "parse", "execute"}
  PROVE  LET hit == ServeHTTP(FullTable(request[q].router), request[q].in)
         IN  /\ request[q].router \in Ids /\ hit.idx > 0
             /\ Endpoint(q) = Endpoints[request[q].router][hit.idx]
             /\ Endpoint(q) \in EndpointConfig /\ Endpoint(q).body \in Body
<1> DEFINE c   == request[q].router
           hit == ServeHTTP(FullTable(c), request[q].in)
<1>1. c \in Ids
  BY DEF TypeOK, Exchange
<1>2. request[q].route = hit /\ hit.idx > 0
  BY DEF ReqInv
<1>3. hit.cfg = c /\ hit.idx \in 1..Len(Endpoints[c]) /\ Endpoints[c][hit.idx] \in EndpointConfig
  BY <1>1, <1>2, HitIsAnEndpoint
<1>4. Endpoint(q) = Endpoints[c][hit.idx]
  BY <1>2, <1>3 DEF Endpoint
<1>5. Endpoints[c][hit.idx].body \in Body
  <2>1. DOMAIN Endpoints[c] = 1..Len(Endpoints[c])
    BY <1>1, TableProperties, LenProperties
  <2> HIDE DEF hit
  <2>2. Endpoints[c][hit.idx].body \in {Endpoints[c][i].body : i \in DOMAIN Endpoints[c]}
    BY <1>3, <2>1
  <2> HIDE DEF c
  <2> QED
    BY <1>1, <2>2 DEF Body
<1> QED
  BY <1>1, <1>2, <1>3, <1>4, <1>5

LEMMA ReferenceMembers ==
  ASSUME NEW c, NEW in
  PROVE  /\ \A t \in ReferenceTexts(c, in) :
              [status |-> ReferenceStatus(c, in), text |-> t] \in Reference(c, in).answers
         /\ Reference(c, in).saved <=> ReferenceStatus(c, in) \in {"ok", "dropped"} /\ SavesBody(in)
BY DEF Reference

(* The cases of Reference for an input that matches an endpoint.            *)
LEMMA ReferenceOfEndpoint ==
  ASSUME NEW c \in Ids, NEW in, NEW e, ServeHTTP(FullTable(c), in).idx > 0,
         e = Endpoints[c][ServeHTTP(FullTable(c), in).idx]
  PROVE  LET ref == Reference(c, in)
             An(status, text) == [status |-> status, text |-> text]
         IN  /\ TooLarge(in) => An("413", <<>>) \in ref.answers /\ ~ref.saved
             /\ ~TooLarge(in) /\ IsSnmp(e, in) => An("snmp", <<>>) \in ref.answers /\ ~ref.saved
             /\ ~TooLarge(in) /\ ~IsSnmp(e, in) => (ref.saved <=> SavesBody(in))
             /\ ~TooLarge(in) /\ ~IsSnmp(e, in) /\ ~e.validStatus => An("dropped", <<>>) \in ref.answers
             /\ ~TooLarge(in) /\ ~IsSnmp(e, in) /\ e.validStatus =>
                  /\ An("ok", <<"raw", e.body>>) \in ref.answers
                  /\ e.body \in Templates \ BadTemplates =>
                       An("ok", <<"rendered", e.body>>) \in ref.answers
<1>1. ServeHTTP(FullTable(c), in).idx \in Int
  BY HitIsAnEndpoint, TableProperties
<1>2. ReferenceStatus(c, in) = IF TooLarge(in) THEN "413"
                               ELSE IF IsSnmp(e, in) THEN "snmp"
                               ELSE IF e.validStatus THEN "ok" ELSE "dropped"
  BY <1>1 DEF ReferenceStatus
<1>3. /\ ReferenceStatus(c, in) # "ok" => <<>> \in ReferenceTexts(c, in)
      /\ ReferenceStatus(c, in) = "ok" =>
           /\ <<"raw", e.body>> \in ReferenceTexts(c, in)
           /\ e.body \in Templates \ BadTemplates => <<"rendered", e.body>> \in ReferenceTexts(c, in)
  BY DEF ReferenceTexts
<1> QED
  BY <1>2, <1>3, ReferenceMembers

(* Reference for an input that matches no endpoint.                         *)
LEMMA ReferenceElsewhere ==
  ASSUME NEW c \in Ids, NEW in
  PROVE  LET hit == ServeHTTP(FullTable(c), in)
             ref == Reference(c, in)
         IN  /\ hit.idx = -1 => /\ hit.path \in {"404", "405"} /\ ~ref.saved
                                /\ [status |-> hit.path, text |-> <<>>] \in ref.answers
             /\ hit.idx = 0  => /\ [status |-> "metrics", text |-> <<>>] \in ref.answers
                                /\ ~ref.saved
<1> DEFINE hit == ServeHTTP(FullTable(c), in)
<1>1. CASE hit.idx = -1
  <2>1. hit \in {Miss("404"), Miss("405")}
    BY <1>1, RoutingProperties DEF MetricsRoute, EndpointRoute
  <2>2. hit.path \in {"404", "405"}
    BY <2>1 DEF Miss
  <2> QED
    BY <1>1, <2>2, ReferenceMembers DEF ReferenceStatus, ReferenceTexts
<1>2. CASE hit.idx = 0
  BY <1>2, ReferenceMembers DEF ReferenceStatus, ReferenceTexts
<1> QED
  BY <1>1, <1>2

(* A request finishes with an answer of its own configuration.              *)
LEMMA FinishStep ==
  ASSUME IInv, NEW q \in Requests, request[q].pc # "idle", NEW status, NEW text,
         Finish(q, status, text), UNCHANGED <<server, templates>>,
         [status |-> status, text |-> text] \in Answer,
         saves' \ {q} = saves \ {q}, saves' \subseteq Requests,
         LET ref == Reference(request[q].router, request[q].in)
         IN  [status |-> status, text |-> text] \in ref.answers /\ (q \in saves' <=> ref.saved)
  PROVE  IInv'
<1>1. TypeOK /\ PubInv /\ CacheInv /\ request[q] \in Exchange
  BY DEF IInv, TypeOK
<1>2. /\ request' = [request EXCEPT ![q] = request'[q]]
      /\ request'[q] = [request[q] EXCEPT !.pc = "done", !.answer = [status |-> status, text |-> text]]
  BY <1>1 DEF Finish, TypeOK
<1>3. /\ request'[q] \in Exchange /\ request'[q].pc = "done"
      /\ request'[q].router = request[q].router /\ request'[q].in = request[q].in
      /\ request'[q].answer = [status |-> status, text |-> text]
  <2>1. request[q] \in Exchange /\ [status |-> status, text |-> text] \in Answer
    BY <1>1
  <2>2. [request[q] EXCEPT !.pc = "done"] \in Exchange
    BY <2>1 DEF Exchange
  <2>3. [request[q] EXCEPT !.pc = "done", !.answer = [status |-> status, text |-> text]] \in Exchange
    BY <2>1, <2>2 DEF Exchange
  <2>4. /\ request'[q].pc = "done" /\ request'[q].answer = [status |-> status, text |-> text]
        /\ request'[q].router = request[q].router /\ request'[q].in = request[q].in
    BY <1>2, <2>1 DEF Exchange
  <2> QED
    BY <1>2, <2>3, <2>4
<1>4. ReqInv(q)'
  BY <1>3 DEF ReqInv
<1>5. Published(request'[q].router)
  BY <1>1, <1>3 DEF PubInv
<1>6. CacheInv' /\ \A k \in DOMAIN templates' : templates'[k] \in Templates \ BadTemplates
  BY <1>1 DEF CacheInv, TypeOK
<1>7. UNCHANGED server
  OBVIOUS
<1> QED
  BY <1>2, <1>3, <1>4, <1>5, <1>6, <1>7, OnlyThisRequest

(* A request advances by a step that changes at most its pc, its route and  *)
(* its template.                                                            *)
Advanced(q, pc, route, tmpl) ==
  [pc |-> pc, in |-> request[q].in, router |-> request[q].router, route |-> route, tmpl |-> tmpl,
   answer |-> request[q].answer]

LEMMA AdvanceStep ==
  ASSUME IInv, NEW q \in Requests, request[q].pc # "idle", UNCHANGED server, CacheInv',
         \A k \in DOMAIN templates' : templates'[k] \in Templates \ BadTemplates,
         NEW pc \in {"handle", "snmp", "template", "parse", "execute"}, NEW route \in Route,
         NEW tmpl \in Templates \union {"none"},
         request' = [request EXCEPT ![q] = Advanced(q, pc, route, tmpl)],
         saves' \ {q} = saves \ {q}, saves' \subseteq Requests, ReqInv(q)'
  PROVE  IInv'
<1>1. TypeOK /\ PubInv /\ request[q] \in Exchange
  BY DEF IInv, TypeOK
<1>2. /\ request' = [request EXCEPT ![q] = request'[q]]
      /\ request'[q] = Advanced(q, pc, route, tmpl)
  BY <1>1 DEF TypeOK
<1>3. request'[q] \in Exchange /\ request'[q].router = request[q].router
  BY <1>1, <1>2 DEF Exchange, Advanced
<1>4. Published(request'[q].router)
  BY <1>1, <1>3 DEF PubInv
<1> QED
  BY <1>2, <1>3, <1>4, OnlyThisRequest

LEMMA DispatchStep ==
  ASSUME IInv, NEW q \in Requests, Dispatch(q)
  PROVE  IInv'
<1> DEFINE c   == request[q].router
           in  == request[q].in
           hit == ServeHTTP(FullTable(c), in)
<1>1. /\ TypeOK /\ PubInv /\ CacheInv /\ ReqInv(q) /\ \A s \in Reloads : FillInv(s)
      /\ request[q] \in Exchange
  BY DEF IInv, TypeOK
<1>2. /\ c \in Ids /\ request[q].pc = "route" /\ UNCHANGED server /\ UNCHANGED <<templates, saves>>
      /\ CacheInv' /\ saves' \subseteq Requests /\ saves' \ {q} = saves \ {q} /\ q \notin saves'
      /\ \A k \in DOMAIN templates' : templates'[k] \in Templates \ BadTemplates
  BY <1>1 DEF Dispatch, TypeOK, Exchange, CacheInv, ReqInv
<1>3. routes[c] = FullTable(c)
  BY <1>1, <1>2 DEF PubInv, Published, FillInv
<1>4. CASE hit.idx = -1 /\ Finish(q, hit.path, <<>>)
  <2>1. /\ hit.path \in {"404", "405"} /\ ~Reference(c, in).saved
        /\ [status |-> hit.path, text |-> <<>>] \in Reference(c, in).answers
    BY <1>2, <1>4, ReferenceElsewhere
  <2>2. [status |-> hit.path, text |-> <<>>] \in Answer
    BY <2>1 DEF Answer
  <2> QED
    BY <1>2, <1>4, <2>1, <2>2, FinishStep
<1>5. CASE hit.idx = 0 /\ Finish(q, "metrics", <<>>)
  <2>1. ~Reference(c, in).saved /\ [status |-> "metrics", text |-> <<>>] \in Reference(c, in).answers
    BY <1>2, <1>5, ReferenceElsewhere
  <2>2. [status |-> "metrics", text |-> <<>>] \in Answer
    BY DEF Answer
  <2> QED
    BY <1>2, <1>5, <2>1, <2>2, FinishStep
<1>6. CASE hit.idx > 0 /\ request' = [request EXCEPT ![q].pc = "handle", ![q].route = hit]
  <2>1. hit \in Route
    BY <1>2, <1>6, HitIsAnEndpoint
  <2>2. request[q].tmpl \in Templates \union {"none"}
    BY <1>1 DEF Exchange
  <2>3. request'[q] = Advanced(q, "handle", hit, request[q].tmpl)
    BY <1>1, <1>6 DEF TypeOK, Exchange, Advanced
  <2>4. request' = [request EXCEPT ![q] = Advanced(q, "handle", hit, request[q].tmpl)]
    BY <1>1, <1>6, <2>3 DEF TypeOK
  <2>5. ReqInv(q)'
    BY <1>2, <1>6, <2>3 DEF ReqInv, Advanced
  <2> QED
    BY <1>2, <2>1, <2>2, <2>4, <2>5, AdvanceStep
<1> QED
  BY <1>3, <1>4, <1>5, <1>6 DEF Dispatch, RouterOf

(* createHandler, up to WriteHeader.                                        *)
LEMMA HandlerStep ==
  ASSUME IInv, NEW q \in Requests, Refuse(q) \/ HandOnToSnmp(q) \/ Handle(q)
  PROVE  IInv'
<1> DEFINE c   == request[q].router
           in  == request[q].in
           e   == Endpoint(q)
           ref == Reference(c, in)
<1>1. TypeOK /\ CacheInv /\ ReqInv(q) /\ request[q] \in Exchange
  BY DEF IInv, TypeOK
<1>2. /\ request[q].pc = "handle" /\ UNCHANGED server /\ UNCHANGED templates /\ CacheInv'
      /\ \A k \in DOMAIN templates' : templates'[k] \in Templates \ BadTemplates
      /\ q \notin saves
  BY <1>1 DEF Refuse, HandOnToSnmp, Handle, TypeOK, CacheInv, ReqInv
<1>3. /\ c \in Ids /\ ServeHTTP(FullTable(c), in).idx > 0 /\ e \in EndpointConfig
      /\ e = Endpoints[c][ServeHTTP(FullTable(c), in).idx]
  BY <1>1, <1>2, AtEndpoint
<1> HIDE DEF c, in, e
<1>4. CASE Refuse(q)
  <2>1. TooLarge(in) /\ Finish(q, "413", <<>>) /\ saves' = saves
    BY <1>4 DEF Refuse, in
  <2>2. [status |-> "413", text |-> <<>>] \in ref.answers /\ ~ref.saved
    BY <1>3, <2>1, ReferenceOfEndpoint
  <2>3. [status |-> "413", text |-> <<>>] \in Answer
    BY DEF Answer
  <2> QED
    BY <1>1, <1>2, <2>1, <2>2, <2>3, FinishStep DEF TypeOK, c, in
<1>5. CASE HandOnToSnmp(q)
  <2>1. ~TooLarge(in) /\ IsSnmp(e, in) /\ request' = [request EXCEPT ![q].pc = "snmp"] /\ saves' = saves
    BY <1>5 DEF HandOnToSnmp, in, e
  <2>2. request[q].tmpl \in Templates \union {"none"} /\ request[q].route \in Route
    BY <1>1 DEF Exchange
  <2>3. request'[q] = Advanced(q, "snmp", request[q].route, request[q].tmpl)
    BY <1>1, <2>1 DEF TypeOK, Exchange, Advanced
  <2>4. request' = [request EXCEPT ![q] = Advanced(q, "snmp", request[q].route, request[q].tmpl)]
    BY <1>1, <2>1, <2>3 DEF TypeOK
  <2>5. /\ request'[q].pc = "snmp" /\ request'[q].in = in
        /\ request'[q].router = c /\ request'[q].route = request[q].route
        /\ Endpoint(q)' = e
    BY <2>3 DEF Advanced, c, in, e, Endpoint
  <2>6. request[q].route = ServeHTTP(FullTable(c), in) /\ request[q].route.idx > 0
    BY <1>1, <1>2 DEF ReqInv, c, in
  <2>7. ReqInv(q)'
    BY <1>2, <2>1, <2>5, <2>6 DEF ReqInv
  <2>8. saves' \ {q} = saves \ {q} /\ saves' \subseteq Requests
    BY <1>1, <2>1 DEF TypeOK
  <2> QED
    BY <1>2, <2>2, <2>4, <2>7, <2>8, AdvanceStep
<1>6. CASE Handle(q)
  <2>1. /\ ~TooLarge(in) /\ ~IsSnmp(e, in)
        /\ saves' = IF SavesBody(in) THEN saves \union {q} ELSE saves
        /\ \/ ~e.validStatus /\ Finish(q, "dropped", <<>>)
           \/ e.validStatus /\ request' = [request EXCEPT ![q].pc = "template"]
    BY <1>6 DEF Handle, in, e
  <2>2. /\ saves' \ {q} = saves \ {q} /\ saves' \subseteq Requests
        /\ q \in saves' <=> SavesBody(in)
    BY <1>1, <1>2, <2>1 DEF TypeOK
  <2>3. CASE ~e.validStatus /\ Finish(q, "dropped", <<>>)
    <3>1. [status |-> "dropped", text |-> <<>>] \in ref.answers /\ (q \in saves' <=> ref.saved)
      BY <1>3, <2>1, <2>2, <2>3, ReferenceOfEndpoint
    <3>2. [status |-> "dropped", text |-> <<>>] \in Answer
      BY DEF Answer
    <3> QED
      BY <1>2, <2>2, <2>3, <3>1, <3>2, FinishStep DEF c, in
  <2>4. CASE e.validStatus /\ request' = [request EXCEPT ![q].pc = "template"]
    <3>1. request[q].tmpl \in Templates \union {"none"} /\ request[q].route \in Route
      BY <1>1 DEF Exchange
    <3>2. request'[q] = Advanced(q, "template", request[q].route, request[q].tmpl)
      BY <1>1, <2>4 DEF TypeOK, Exchange, Advanced
    <3>3. request' = [request EXCEPT ![q] = Advanced(q, "template", request[q].route, request[q].tmpl)]
      BY <1>1, <2>4, <3>2 DEF TypeOK
    <3>4. /\ request'[q].pc = "template" /\ request'[q].in = in
          /\ request'[q].router = c /\ request'[q].route = request[q].route
          /\ Endpoint(q)' = e
      BY <3>2 DEF Advanced, c, in, e, Endpoint
    <3>5. request[q].route = ServeHTTP(FullTable(c), in) /\ request[q].route.idx > 0
      BY <1>1, <1>2 DEF ReqInv, c, in
    <3>6. ReqInv(q)'
      BY <2>1, <2>2, <2>4, <3>4, <3>5 DEF ReqInv
    <3> QED
      BY <1>2, <2>2, <3>1, <3>3, <3>6, AdvanceStep
  <2> QED
    BY <2>1, <2>3, <2>4
<1> QED
  BY <1>4, <1>5, <1>6

(* HandleSNMPRequest answers.                                               *)
LEMMA SnmpReturnsStep ==
  ASSUME IInv, NEW q \in Requests, SnmpReturns(q)
  PROVE  IInv'
<1> DEFINE c   == request[q].router
           in  == request[q].in
           e   == Endpoint(q)
           ref == Reference(c, in)
<1>1. TypeOK /\ ReqInv(q)
  BY DEF IInv
<1>2. /\ request[q].pc = "snmp" /\ Finish(q, "snmp", <<>>)
      /\ UNCHANGED server /\ UNCHANGED <<templates, saves>>
  BY DEF SnmpReturns
<1>3. /\ c \in Ids /\ ServeHTTP(FullTable(c), in).idx > 0 /\ e \in EndpointConfig
      /\ e = Endpoints[c][ServeHTTP(FullTable(c), in).idx]
  BY <1>1, <1>2, AtEndpoint
<1>4. ~TooLarge(in) /\ IsSnmp(e, in) /\ q \notin saves' /\ saves' = saves /\ saves \subseteq Requests
  BY <1>1, <1>2 DEF ReqInv, TypeOK
<1> HIDE DEF c, in, e
<1>5. [status |-> "snmp", text |-> <<>>] \in ref.answers /\ ~ref.saved
  BY <1>3, <1>4, ReferenceOfEndpoint
<1>6. [status |-> "snmp", text |-> <<>>] \in Answer
  BY DEF Answer
<1> QED
  BY <1>2, <1>4, <1>5, <1>6, FinishStep DEF c, in

(* What a request past WriteHeader knows, in the form the next lemmas need. *)
LEMMA PastWriteHeader ==
  ASSUME IInv, NEW q \in Requests, request[q].pc \in {"template", "parse", "execute"}
  PROVE  LET e   == Endpoint(q)
             ref == Reference(request[q].router, request[q].in)
         IN  /\ e \in EndpointConfig /\ e.body \in Body /\ (q \in saves <=> ref.saved)
             /\ [status |-> "ok", text |-> <<"raw", e.body>>] \in ref.answers
             /\ e.body \in Templates \ BadTemplates =>
                  [status |-> "ok", text |-> <<"rendered", e.body>>] \in ref.answers
<1> DEFINE c  == request[q].router
           in == request[q].in
           e  == Endpoint(q)
<1>1. TypeOK /\ ReqInv(q)
  BY DEF IInv
<1>2. /\ c \in Ids /\ ServeHTTP(FullTable(c), in).idx > 0
      /\ e = Endpoints[c][ServeHTTP(FullTable(c), in).idx]
      /\ e \in EndpointConfig /\ e.body \in Body
  BY <1>1, AtEndpoint
<1>3. ~TooLarge(in) /\ ~IsSnmp(e, in) /\ e.validStatus /\ (q \in saves <=> SavesBody(in))
  BY <1>1 DEF ReqInv
<1> HIDE DEF c, in, e
<1>4. /\ q \in saves <=> Reference(c, in).saved
      /\ [status |-> "ok", text |-> <<"raw", e.body>>] \in Reference(c, in).answers
      /\ e.body \in Templates \ BadTemplates =>
           [status |-> "ok", text |-> <<"rendered", e.body>>] \in Reference(c, in).answers
  BY <1>2, <1>3, ReferenceOfEndpoint
<1> QED
  BY <1>2, <1>4 DEF c, in, e

(* An answer 200 with the body as configured, or the rendered template.     *)
LEMMA AnswerOk ==
  ASSUME IInv, NEW q \in Requests, request[q].pc \in {"template", "parse", "execute"},
         UNCHANGED <<server, templates, saves>>,
         NEW mode \in {"raw", "rendered"},
         mode = "rendered" => Endpoint(q).body \in Templates \ BadTemplates,
         Finish(q, "ok", <<mode, Endpoint(q).body>>)
  PROVE  IInv'
<1> DEFINE ref == Reference(request[q].router, request[q].in)
           e   == Endpoint(q)
<1>1. /\ e.body \in Body /\ (q \in saves <=> ref.saved)
      /\ [status |-> "ok", text |-> <<mode, e.body>>] \in ref.answers
  BY PastWriteHeader
<1> HIDE DEF ref, e
<1>2. [status |-> "ok", text |-> <<mode, e.body>>] \in Answer
  BY <1>1 DEF Answer
<1>3. saves' \ {q} = saves \ {q} /\ saves' \subseteq Requests /\ saves' = saves
  BY DEF IInv, TypeOK
<1>4. Finish(q, "ok", <<mode, e.body>>) /\ UNCHANGED <<server, templates>>
  BY DEF e
<1> QED
  BY <1>1, <1>2, <1>3, <1>4, FinishStep DEF ref

(* A step of processTemplate that goes on: only pc and tmpl change.         *)
LEMMA TemplateStep ==
  ASSUME IInv, NEW q \in Requests, request[q].pc \in {"template", "parse"}, UNCHANGED server,
         UNCHANGED saves, CacheInv',
         \A k \in DOMAIN templates' : templates'[k] \in Templates \ BadTemplates,
         NEW pc \in {"parse", "execute"}, NEW tmpl \in Templates \union {"none"},
         request'[q] = Advanced(q, pc, request[q].route, tmpl),
         request' = [request EXCEPT ![q] = request'[q]],
         Endpoint(q).body \in Templates,
         pc = "execute" => Endpoint(q).body \in Templates \ BadTemplates /\ tmpl = Endpoint(q).body
  PROVE  IInv'
<1>1. TypeOK /\ ReqInv(q) /\ request[q] \in Exchange
  BY DEF IInv, TypeOK
<1>2. /\ request'[q].pc = pc /\ request'[q].in = request[q].in /\ request'[q].tmpl = tmpl
      /\ request'[q].router = request[q].router /\ request'[q].route = request[q].route
      /\ Endpoint(q)' = Endpoint(q)
  <2>1. /\ request'[q].pc = pc /\ request'[q].in = request[q].in /\ request'[q].tmpl = tmpl
        /\ request'[q].router = request[q].router /\ request'[q].route = request[q].route
    BY DEF Advanced
  <2>2. Endpoint(q)' = Endpoint(q)
    BY <2>1 DEF Endpoint
  <2> QED
    BY <2>1, <2>2
<1>3. ReqInv(q)'
  BY <1>1, <1>2 DEF ReqInv
<1>4. request[q].route \in Route
  BY <1>1 DEF Exchange
<1>5. saves' \ {q} = saves \ {q} /\ saves' \subseteq Requests
  BY <1>1 DEF TypeOK
<1>6. request' = [request EXCEPT ![q] = Advanced(q, pc, request[q].route, tmpl)]
  OBVIOUS
<1> QED
  BY <1>3, <1>4, <1>5, <1>6, AdvanceStep

LEMMA LookUpStep ==
  ASSUME IInv, NEW q \in Requests, LookUp(q)
  PROVE  IInv'
<1> DEFINE e == Endpoint(q)
<1>1. TypeOK /\ CacheInv /\ request[q] \in Exchange
  BY DEF IInv, TypeOK
<1>2. /\ request[q].pc = "template" /\ UNCHANGED <<server, templates, saves>> /\ CacheInv'
      /\ \A k \in DOMAIN templates' : templates'[k] \in Templates \ BadTemplates
  BY <1>1 DEF LookUp, TypeOK, CacheInv
<1>3. CASE e.body \notin Templates /\ Finish(q, "ok", <<"raw", e.body>>)
  BY <1>2, <1>3, AnswerOk
<1>4. CASE /\ e.body \in Templates /\ e.body \in DOMAIN templates
           /\ request' = [request EXCEPT ![q].pc = "execute", ![q].tmpl = templates[e.body]]
  <2>1. templates[e.body] = e.body /\ e.body \in Templates \ BadTemplates
    BY <1>1, <1>4 DEF CacheInv, TypeOK
  <2>2. request'[q] = Advanced(q, "execute", request[q].route, e.body)
    BY <1>1, <1>4, <2>1 DEF TypeOK, Exchange, Advanced
  <2>3. request' = [request EXCEPT ![q] = request'[q]]
    BY <1>1, <1>4 DEF TypeOK
  <2> QED
    BY <1>2, <2>1, <2>2, <2>3, TemplateStep
<1>5. CASE e.body \in Templates /\ request' = [request EXCEPT ![q].pc = "parse"]
  <2>1. request[q].tmpl \in Templates \union {"none"}
    BY <1>1 DEF Exchange
  <2>2. request'[q] = Advanced(q, "parse", request[q].route, request[q].tmpl)
    BY <1>1, <1>5 DEF TypeOK, Exchange, Advanced
  <2>3. request' = [request EXCEPT ![q] = request'[q]]
    BY <1>1, <1>5 DEF TypeOK
  <2> QED
    BY <1>2, <1>5, <2>1, <2>2, <2>3, TemplateStep
<1> QED
  BY <1>3, <1>4, <1>5 DEF LookUp, CacheKey

LEMMA ParseAndStoreStep ==
  ASSUME IInv, NEW q \in Requests, ParseAndStore(q)
  PROVE  IInv'
<1> DEFINE e == Endpoint(q)
<1>1. TypeOK /\ CacheInv /\ request[q] \in Exchange
  BY DEF IInv, TypeOK
<1>2. request[q].pc = "parse" /\ UNCHANGED server /\ UNCHANGED saves
      /\ e.body \in Templates
  BY DEF ParseAndStore, IInv, ReqInv
<1>3. CASE ParseError(q) /\ UNCHANGED templates
  <2>1. Finish(q, "ok", <<"raw", e.body>>) /\ UNCHANGED <<server, templates, saves>>
    BY <1>2, <1>3 DEF ParseError
  <2> QED
    BY <1>2, <2>1, AnswerOk
<1>4. CASE /\ Parses(e.body)
           /\ templates' = [k \in DOMAIN templates \union {e.body} |->
                              IF k = e.body THEN e.body ELSE templates[k]]
           /\ request' = [request EXCEPT ![q].pc = "execute", ![q].tmpl = e.body]
  <2>1. e.body \in Templates \ BadTemplates
    BY <1>2, <1>4 DEF Parses
  <2>2. request'[q] = Advanced(q, "execute", request[q].route, e.body)
    BY <1>1, <1>4 DEF TypeOK, Exchange, Advanced
  <2>3. request' = [request EXCEPT ![q] = request'[q]]
    BY <1>1, <1>4 DEF TypeOK
  <2> HIDE DEF e
  <2>4. CacheInv' /\ \A k \in DOMAIN templates' : templates'[k] \in Templates \ BadTemplates
    BY <1>1, <1>4, <2>1 DEF CacheInv, TypeOK
  <2> QED
    BY <1>2, <2>1, <2>2, <2>3, <2>4, TemplateStep DEF e
<1> QED
  BY <1>3, <1>4 DEF ParseAndStore, CacheKey

LEMMA ExecuteStep ==
  ASSUME IInv, NEW q \in Requests, Execute(q)
  PROVE  IInv'
<1>1. /\ request[q].pc = "execute" /\ request[q].tmpl = Endpoint(q).body
      /\ Endpoint(q).body \in Templates \ BadTemplates /\ UNCHANGED <<server, templates, saves>>
  BY DEF IInv, ReqInv, Execute
<1>2. PICK mode \in {"rendered", "raw"} : Finish(q, "ok", <<mode, Endpoint(q).body>>)
  BY <1>1 DEF Execute
<1> QED
  BY <1>1, <1>2, AnswerOk

----------------------------------------------------------------------------
LEMMA ServeStep ==
  ASSUME IInv, NEW q \in Requests, Serve(q)
  PROVE  IInv'
BY DispatchStep, HandlerStep, LookUpStep, ParseAndStoreStep, ExecuteStep DEF Serve

LEMMA HttpInductive ==
  ASSUME IInv, [Next]_vars
  PROVE  IInv'
<1>1. ASSUME NEW r \in Reloads, ReloadCalled(r) \/ ReloadBegins(r) \/ Reload(r)
      PROVE  IInv'
  BY <1>1, ReloadCalledStep, ReloadBeginsStep, addRouteStep, SwapHandlerStep, ResetTemplatesStep
     DEF Reload
<1>2. ASSUME NEW q \in Requests, (\E in \in Inputs : Arrive(q, in)) \/ Serve(q) \/ SnmpReturns(q)
      PROVE  IInv'
  BY <1>2, ArriveStep, ServeStep, SnmpReturnsStep
<1>3. CASE UNCHANGED vars
  <2>1. TypeOK' /\ MuxInv' /\ CacheInv' /\ PubInv'
    BY <1>3 DEF vars, IInv, TypeOK, MuxInv, Holds, CacheInv, PubInv, Published
  <2>2. \A r \in Reloads : FillInv(r)'
    BY <1>3 DEF vars, IInv, FillInv
  <2>3. \A q \in Requests : ReqInv(q)'
    BY <1>3, RequestsUntouched DEF vars, IInv
  <2> QED
    BY <2>1, <2>2, <2>3 DEF IInv
<1> QED
  BY <1>1, <1>2, <1>3 DEF Next

(* IInv holds throughout.                                                   *)
THEOREM Invariance == Spec => []IInv
<1>1. IInv /\ [Next]_vars => IInv'
  BY HttpInductive
<1> QED
  BY <1>1, InitIInv, PTL DEF Spec

(* The type invariant, with IInv.                                           *)
THEOREM TypeCorrect == Spec => []TypeOK
<1>1. IInv => TypeOK
  BY DEF IInv
<1> QED
  BY <1>1, Invariance, PTL

(* A router that is published has all its routes: no request is ever served *)
(* by one that setupRoutes is still filling.                                *)
THEOREM RoutersComplete == Spec => []PublishedRoutersAreComplete
<1>1. ASSUME IInv PROVE PublishedRoutersAreComplete
  <2>1. ASSUME NEW x \in Ids, Published(x) PROVE routes[x] = FullTable(x)
    BY <1>1, <2>1 DEF IInv, PubInv, Published, FillInv
  <2>2. handler \in Ids /\ \A q \in Requests : request[q].router \in Ids
    BY <1>1 DEF IInv, TypeOK, Exchange
  <2> QED
    BY <1>1, <2>1, <2>2 DEF IInv, PubInv, PublishedRoutersAreComplete
<1> QED
  BY <1>1, Invariance, PTL

(* Between reloads the handler, the router and the configuration agree.     *)
THEOREM HandlerAgrees == Spec => []HandlerMatchesConfig
<1>1. IInv => HandlerMatchesConfig
  BY DEF IInv, MuxInv, HandlerMatchesConfig
<1> QED
  BY <1>1, Invariance, PTL

(* Every answer, and whether the body was saved, is that of the one         *)
(* configuration in force when the request arrived.                         *)
THEOREM AnswersConsistent == Spec => []AnswersFromOneConfig
<1>1. IInv => AnswersFromOneConfig
  BY DEF IInv, ReqInv, AnswersFromOneConfig, Done
<1> QED
  BY <1>1, Invariance, PTL

----------------------------------------------------------------------------
(* HttpServer implements ServedConfig.                                      *)

(* The refinement mapping.                                                  *)
LegalBar   == [a \in Ids \X Inputs |-> Reference(a[1], a[2]).answers \X {Reference(a[1], a[2]).saved}]
ArrivedBar == [q \in Requests |-> IF request[q].pc = "idle" THEN <<>>
                                  ELSE <<request[q].router, request[q].in>>]
ReplyBar   == [q \in Requests |-> IF Done(q) THEN <<request[q].answer, q \in saves>> ELSE <<>>]

LEMMA InitMaps == Init => Served!Init
<1> SUFFICES ASSUME Init PROVE Served!Init
  OBVIOUS
<1>1. \A q \in Requests : request[q].pc = "idle"
  BY DEF Init, NoRequest
<1> QED
  BY <1>1 DEF Init, Served!Init, Done

(* A step of request q, between its arrival and its answer, is an arrival,  *)
(* a reply or nothing to the abstract server.                               *)
Moves(q) ==
  /\ UNCHANGED server /\ DOMAIN request' = Requests
  /\ \A p \in Requests \ {q} : request'[p] = request[p] /\ (p \in saves') = (p \in saves)
  /\ \/ /\ request[q].pc = "idle"
        /\ request'[q].pc = "route" /\ request'[q].router = handler /\ request'[q].in \in Inputs
     \/ /\ request[q].pc \notin {"idle", "done"} /\ request'[q].pc # "idle"
        /\ request'[q].router = request[q].router /\ request'[q].in = request[q].in

LEMMA MovesMaps ==
  ASSUME IInv, IInv', NEW q \in Requests, Moves(q)
  PROVE  [Served!Next]_(Served!vars)
<1>1. UNCHANGED handler
  BY DEF Moves, server
<1>2. /\ DOMAIN ArrivedBar = Requests /\ DOMAIN ArrivedBar' = Requests
      /\ DOMAIN ReplyBar = Requests /\ DOMAIN ReplyBar' = Requests
  BY DEF ArrivedBar, ReplyBar
<1>3. \A p \in Requests \ {q} : ArrivedBar'[p] = ArrivedBar[p] /\ ReplyBar'[p] = ReplyBar[p]
  BY DEF Moves, ArrivedBar, ReplyBar, Done
<1>4. CASE request[q].pc = "idle"
  <2> DEFINE in == request'[q].in
  <2>1. /\ ArrivedBar[q] = <<>> /\ ArrivedBar'[q] = <<handler, in>> /\ in \in Inputs
        /\ ReplyBar'[q] = <<>> /\ ReplyBar[q] = <<>>
    BY <1>4 DEF Moves, ArrivedBar, ReplyBar, Done
  <2>2. ReplyBar' = ReplyBar
    BY <1>2, <1>3, <2>1 DEF ReplyBar
  <2>3. ArrivedBar' = [ArrivedBar EXCEPT ![q] = <<handler, in>>]
    BY <1>2, <1>3, <2>1 DEF ArrivedBar
  <2> HIDE DEF in
  <2>4. Served!Arrive(q)
    BY <1>1, <2>1, <2>2, <2>3 DEF Served!Arrive, ArrivedBar, ReplyBar
  <2> QED
    BY <2>4 DEF Served!Next
<1>5. CASE request[q].pc # "idle" /\ request'[q].pc # "done"
  <2>1. ArrivedBar'[q] = ArrivedBar[q] /\ ReplyBar'[q] = ReplyBar[q]
    BY <1>5 DEF Moves, ArrivedBar, ReplyBar, Done
  <2>2. ArrivedBar' = ArrivedBar /\ ReplyBar' = ReplyBar
    BY <1>2, <1>3, <2>1 DEF ArrivedBar, ReplyBar
  <2> QED
    BY <1>1, <2>2 DEF Served!vars, ArrivedBar, ReplyBar
<1>6. CASE request[q].pc # "idle" /\ request'[q].pc = "done"
  <2> DEFINE c  == request[q].router
             in == request[q].in
             a  == <<request'[q].answer, q \in saves'>>
  <2>1. /\ ArrivedBar'[q] = ArrivedBar[q] /\ ArrivedBar[q] = <<c, in>> /\ ReplyBar[q] = <<>>
        /\ ReplyBar'[q] = a
    BY <1>6 DEF Moves, ArrivedBar, ReplyBar, Done
  <2>2. ArrivedBar' = ArrivedBar
    BY <1>2, <1>3, <2>1 DEF ArrivedBar
  <2>3. ReplyBar' = [ReplyBar EXCEPT ![q] = a]
    BY <1>2, <1>3, <2>1 DEF ReplyBar
  <2>4. c \in Ids /\ in \in Inputs
    BY DEF IInv, TypeOK, Exchange
  <2>5. request'[q].router = c /\ request'[q].in = in
    BY <1>6 DEF Moves
  <2>6. request'[q].answer \in Reference(c, in).answers /\ (q \in saves' <=> Reference(c, in).saved)
    BY <1>6, <2>5 DEF IInv, ReqInv
  <2>7. a \in LegalBar[ArrivedBar[q]]
    <3>1. LegalBar[<<c, in>>] = Reference(c, in).answers \X {Reference(c, in).saved}
      BY <2>4 DEF LegalBar
    <3>2. Reference(c, in).saved \in BOOLEAN
      BY DEF Reference
    <3>3. (q \in saves') = Reference(c, in).saved
      BY <2>6, <3>2
    <3> QED
      BY <2>1, <2>6, <3>1, <3>3
  <2>8. ArrivedBar[q] # <<>>
    BY <2>1
  <2> HIDE DEF a, c, in
  <2>9. Served!Reply(q)
    BY <1>1, <2>1, <2>2, <2>3, <2>7, <2>8 DEF Served!Reply, ArrivedBar, ReplyBar, LegalBar
  <2> QED
    BY <2>9 DEF Served!Next
<1> QED
  BY <1>4, <1>5, <1>6

LEMMA FinishMoves ==
  ASSUME IInv, NEW q \in Requests, request[q].pc \notin {"idle", "done"}, NEW status, NEW text,
         Finish(q, status, text), UNCHANGED server,
         \A p \in Requests \ {q} : (p \in saves') = (p \in saves)
  PROVE  Moves(q)
<1>1. request \in [Requests -> Exchange] /\ request[q] \in Exchange
  BY DEF IInv, TypeOK
<1>2. /\ DOMAIN request' = Requests /\ \A p \in Requests \ {q} : request'[p] = request[p]
      /\ request'[q] = [request[q] EXCEPT !.pc = "done", !.answer = [status |-> status, text |-> text]]
  BY <1>1 DEF Finish
<1>3. request'[q].pc = "done" /\ request'[q].router = request[q].router /\ request'[q].in = request[q].in
  BY <1>1, <1>2 DEF Exchange
<1> QED
  BY <1>2, <1>3 DEF Moves

LEMMA RequestMoves ==
  ASSUME IInv, NEW q \in Requests, (\E in \in Inputs : Arrive(q, in)) \/ Serve(q) \/ SnmpReturns(q)
  PROVE  Moves(q)
<1>1. request \in [Requests -> Exchange] /\ request[q] \in Exchange
  BY DEF IInv, TypeOK
<1>2. ASSUME NEW in \in Inputs, Arrive(q, in) PROVE Moves(q)
  BY <1>1, <1>2 DEF Arrive, Moves, Exchange
<1>3. ASSUME Serve(q) \/ SnmpReturns(q)
      PROVE  /\ \A p \in Requests \ {q} : (p \in saves') = (p \in saves)
             /\ UNCHANGED server /\ request[q].pc \notin {"idle", "done"}
  <2>1. CASE Handle(q)
    BY <2>1 DEF Handle
  <2>2. CASE \/ Dispatch(q) \/ Refuse(q) \/ HandOnToSnmp(q) \/ SnmpReturns(q)
             \/ LookUp(q) \/ ParseAndStore(q) \/ Execute(q)
    BY <2>2 DEF Dispatch, Refuse, HandOnToSnmp, SnmpReturns, LookUp, ParseAndStore, Execute
  <2> QED
    BY <1>3, <2>1, <2>2 DEF Serve
<1>4. ASSUME Serve(q), NEW pc \in {"handle", "snmp", "template", "parse", "execute"},
             /\ DOMAIN request' = Requests
             /\ \A p \in Requests \ {q} : request'[p] = request[p]
             /\ request'[q].pc = pc
             /\ request'[q].router = request[q].router /\ request'[q].in = request[q].in
      PROVE  Moves(q)
  BY <1>3, <1>4 DEF Moves
<1>5. CASE Dispatch(q)
  <2> DEFINE hit == ServeHTTP(routes[RouterOf(q)], request[q].in)
  <2>1. Serve(q)
    BY <1>5 DEF Serve
  <2>2. CASE Finish(q, hit.path, <<>>) \/ Finish(q, "metrics", <<>>)
    BY <1>3, <2>1, <2>2, FinishMoves
  <2>3. CASE request' = [request EXCEPT ![q].pc = "handle", ![q].route = hit]
    <3> HIDE DEF hit
    <3> QED
      BY <1>1, <1>4, <2>1, <2>3 DEF Exchange
  <2> QED
    BY <1>5, <2>2, <2>3 DEF Dispatch
<1>6. CASE Refuse(q) \/ HandOnToSnmp(q) \/ SnmpReturns(q)
  <2>1. CASE Refuse(q) \/ SnmpReturns(q)
    BY <1>3, <2>1, FinishMoves DEF Refuse, SnmpReturns, Serve
  <2>2. CASE HandOnToSnmp(q)
    <3>1. Serve(q) /\ request' = [request EXCEPT ![q].pc = "snmp"]
      BY <2>2 DEF Serve, HandOnToSnmp
    <3> QED
      BY <1>1, <1>4, <3>1 DEF Exchange
  <2> QED
    BY <1>6, <2>1, <2>2
<1>7. CASE Handle(q)
  <2>1. Serve(q)
    BY <1>7 DEF Serve
  <2>2. CASE Finish(q, "dropped", <<>>)
    BY <1>3, <2>1, <2>2, FinishMoves
  <2>3. CASE request' = [request EXCEPT ![q].pc = "template"]
    BY <1>1, <1>4, <2>1, <2>3 DEF Exchange
  <2> QED
    BY <1>7, <2>2, <2>3 DEF Handle
<1>8. CASE LookUp(q)
  <2> DEFINE e == Endpoint(q)
  <2>1. Serve(q)
    BY <1>8 DEF Serve
  <2>2. CASE Finish(q, "ok", <<"raw", e.body>>)
    BY <1>3, <2>1, <2>2, FinishMoves
  <2>3. CASE request' = [request EXCEPT ![q].pc = "execute", ![q].tmpl = templates[CacheKey(e)]]
    BY <1>1, <1>4, <2>1, <2>3 DEF Exchange
  <2>4. CASE request' = [request EXCEPT ![q].pc = "parse"]
    BY <1>1, <1>4, <2>1, <2>4 DEF Exchange
  <2> QED
    BY <1>8, <2>2, <2>3, <2>4 DEF LookUp
<1>9. CASE ParseAndStore(q)
  <2> DEFINE e == Endpoint(q)
  <2>1. Serve(q)
    BY <1>9 DEF Serve
  <2>2. CASE Finish(q, "ok", <<"raw", e.body>>)
    BY <1>3, <2>1, <2>2, FinishMoves
  <2>3. CASE request' = [request EXCEPT ![q].pc = "execute", ![q].tmpl = e.body]
    BY <1>1, <1>4, <2>1, <2>3 DEF Exchange
  <2> QED
    BY <1>9, <2>2, <2>3 DEF ParseAndStore, ParseError
<1>10. CASE Execute(q)
  BY <1>3, <1>10, FinishMoves DEF Execute, Serve
<1> QED
  BY <1>2, <1>5, <1>6, <1>7, <1>8, <1>9, <1>10 DEF Serve

LEMMA StepMaps ==
  ASSUME IInv, IInv', [Next]_vars
  PROVE  [Served!Next]_(Served!vars)
<1>1. ASSUME UNCHANGED <<handler, request, saves>> PROVE UNCHANGED Served!vars
  BY <1>1 DEF Served!vars, Done
<1>2. ASSUME NEW r \in Reloads, ReloadCalled(r) \/ ReloadBegins(r) \/ addRoute(r) \/ ResetTemplates(r)
      PROVE  UNCHANGED Served!vars
  BY <1>1, <1>2 DEF ReloadCalled, ReloadBegins, HandlerMeanwhile, addRoute, ResetTemplates
<1>3. ASSUME NEW r \in Reloads, SwapHandler(r) PROVE Served!Next
  <2>1. handler' \in Ids /\ UNCHANGED <<request, saves>>
    BY <1>3 DEF IInv, TypeOK, SwapHandler
  <2> QED
    BY <2>1 DEF Served!Next, Served!Reconfigure, Done
<1>4. ASSUME NEW q \in Requests, (\E in \in Inputs : Arrive(q, in)) \/ Serve(q) \/ SnmpReturns(q)
      PROVE  [Served!Next]_(Served!vars)
  BY <1>4, RequestMoves, MovesMaps
<1>5. CASE UNCHANGED vars
  BY <1>1, <1>5 DEF vars
<1> QED
  BY <1>2, <1>3, <1>4, <1>5 DEF Next, Reload

(* To its clients the server is one that has a configuration in force and   *)
(* answers every request, once, from the one in force when it arrived.      *)
THEOREM Refinement == Spec => ImplementsServedConfig
<1>1. IInv /\ IInv' /\ [Next]_vars => [Served!Next]_(Served!vars)
  BY StepMaps
<1> QED
  BY <1>1, InitMaps, Invariance, PTL DEF Spec, ImplementsServedConfig, Served!Spec
=============================================================================
