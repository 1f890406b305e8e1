-------------------------- MODULE CoapServerProofs --------------------------
(***************************************************************************)
(* Proofs about CoapServer, for every number of reloads, every list of     *)
(* endpoints and every address.                                            *)
(***************************************************************************)
EXTENDS CoapServer, TLAPS

(* The stop channel of a reload that has not opened it yet is nobody's.     *)
NotOpened == {"idle", "config", "router", "range", "routes"}
ChanInv ==
  \A r \in Reloads : reload[r].pc \in NotOpened => r \notin closedChans /\ stopChan # r

(* Without a race the current channel is closed only between a reload's own *)
(* Stop and its make, and there nobody calls Stop.                          *)
Replacing(r) == reload[r].pc \in NotOpened \ {"idle"}
StopInv ==
  ~overlapped /\ ~stopping /\ stopChan \in closedChans => \E r \in Reloads : Replacing(r)

(* No router is younger than the current one, and a router is in place      *)
(* before start spawns the goroutine that is to serve it.                   *)
RouterInv ==
  /\ \A r \in Reloads : reload[r].pc # "done" => server[r].pc = "none"
  /\ \A x \in Ids : age[x] <= age[router]
  /\ NoOlderRouter

(* What the routes of a configuration are after its first n endpoints.      *)
Filled(c, n) ==
  {Route(c, i) : i \in {j \in 1..n :
     \A k \in 1..n : Endpoints[c][k].path = Endpoints[c][j].path => k <= j}}

(* What a reload that nobody disturbs has set when it is at pc.             *)
Undisturbed(r) ==
  /\ reload[r].pc \in {"idle", "config", "router", "range"} => routes[r] = {}
  /\ reload[r].pc \in {"router", "range", "routes", "start"} => config = r
  /\ reload[r].pc \in {"range", "routes", "start"} => router = r
  /\ reload[r].pc = "routes" => reload[r].from = r /\ routes[r] = Filled(r, reload[r].next - 1)
  /\ reload[r].pc = "start" => routes[r] = Table(r)

(* Reloads one after the other.                                             *)
Idle == \A r \in Reloads : ~Active(r)
SerialInv ==
  /\ \A r, q \in Reloads : Active(r) /\ Active(q) => r = q
  /\ Idle => routes[router] = Table(router)
  /\ \A x \in Ids : \A q \in routes[x] : q.cfg = x
  /\ \A r \in Reloads : Undisturbed(r)

IInv ==
  /\ TypeOK /\ ChanInv /\ StopInv /\ PanicNeedsARace /\ RouterInv /\ ListeningIsBacked
  /\ ~overlapped => SerialInv

----------------------------------------------------------------------------
LEMMA IdFacts == NumReloads \in Nat /\ 0 \in Ids /\ \A r \in Reloads : r \in Ids /\ r # 0
  BY CoapAssumption DEF Ids, Reloads

LEMMA EndpointFacts ==
  ASSUME NEW c \in Ids
  PROVE  /\ Len(Endpoints[c]) \in Nat /\ DOMAIN Endpoints[c] = 1..Len(Endpoints[c])
         /\ \A i \in DOMAIN Endpoints[c] : Route(c, i) \in AllRoutes
<1>1. Endpoints[c] \in Seq(EndpointConfig)
  BY CoapAssumption
<1> QED
  BY <1>1 DEF AllRoutes

(* setupRoutes leaves in an empty router what Table says: the last endpoint *)
(* of every path.                                                           *)
LEMMA FillsTheTable ==
  ASSUME NEW c \in Ids
  PROVE  /\ Filled(c, 0) = {} /\ Filled(c, Len(Endpoints[c])) = Table(c)
         /\ \A n \in 1..Len(Endpoints[c]) : HandleFunc(Filled(c, n - 1), Route(c, n)) = Filled(c, n)
<1>1. Filled(c, 0) = {}
  BY DEF Filled
<1>2. Filled(c, Len(Endpoints[c])) = Table(c)
  BY EndpointFacts DEF Filled, Table
<1>3. ASSUME NEW n \in 1..Len(Endpoints[c])
      PROVE  HandleFunc(Filled(c, n - 1), Route(c, n)) = Filled(c, n)
  <2> DEFINE path(i) == Endpoints[c][i].path
             Latest(m, i) == i \in 1..m /\ \A k \in 1..m : path(k) = path(i) => k <= i
  <2>1. n \in Nat /\ n >= 1
    BY <1>3, EndpointFacts
  <2>2. \A m : \A q : q \in Filled(c, m) <=> \E i : Latest(m, i) /\ q = Route(c, i)
    BY DEF Filled
  <2>3. \A i : Route(c, i).path = path(i)
    BY DEF Route
  <2> HIDE DEF path
  <2>4. Latest(n, n)
    BY <2>1
  <2>5. \A i : Latest(n - 1, i) /\ path(i) # path(n) <=> Latest(n, i) /\ i # n
    BY <2>1
  <2>6. \A q : q \in HandleFunc(Filled(c, n - 1), Route(c, n))
               <=> \/ q \in Filled(c, n - 1) /\ q.path # path(n)
                   \/ q = Route(c, n)
    BY <2>3 DEF HandleFunc
  <2> HIDE DEF Latest
  <2>7. \A q : q \in HandleFunc(Filled(c, n - 1), Route(c, n)) <=> q \in Filled(c, n)
    BY <2>2, <2>3, <2>4, <2>5, <2>6
  <2>8. HandleFunc(Filled(c, n - 1), Route(c, n)) = {q \in Filled(c, n - 1) : q.path # Route(c, n).path} \union {Route(c, n)}
    BY DEF HandleFunc
  <2> QED
    BY <2>7, <2>8
<1> QED
  BY <1>1, <1>2, <1>3

(* What one call of Stop does, whoever makes it.                            *)
LEMMA StopBodyFacts ==
  ASSUME TypeOK, StopBody
  PROVE  /\ listening' \in BOOLEAN /\ panicked' \in BOOLEAN
         /\ closedChans' \subseteq Ids
         /\ closedChans' \subseteq closedChans \union {stopChan}
         /\ panicked' => panicked \/ stopChan \in closedChans
<1> USE DEF TypeOK
<1>1. CASE UNCHANGED <<listening, closedChans, panicked>>
  BY <1>1
<1>2. CASE closedChans' = closedChans \union {stopChan} /\ listening' = FALSE /\ UNCHANGED panicked
  BY <1>2
<1>3. CASE stopChan \in closedChans /\ panicked' = TRUE /\ UNCHANGED <<listening, closedChans>>
  BY <1>3
<1> QED
  BY <1>1, <1>2, <1>3 DEF StopBody

----------------------------------------------------------------------------
LEMMA TypeStep ==
  ASSUME TypeOK, [Next]_vars
  PROVE  TypeOK'
<1> USE IdFacts DEF fields, calls, ghost
<1>1. CASE MainStop
  BY <1>1, StopBodyFacts DEF TypeOK, MainStop
<1>2. ASSUME NEW r \in Reloads, ReloadStop(r)
      PROVE  TypeOK'
  <2>1. reload' = [reload EXCEPT ![r].pc = "config"] /\ UNCHANGED <<config, router, stopChan, routes, server, stopping, refused, age>>
    BY <1>2 DEF ReloadStop, Goto
  <2>2. overlapped' \in BOOLEAN
    BY <1>2 DEF ReloadStop, TypeOK
  <2>3. StopBody
    BY <1>2 DEF ReloadStop
  <2>4. reload' \in [Reloads -> ReloadCall] /\ \A q \in Reloads : reload'[q].from = reload[q].from /\ reload'[q].next = reload[q].next
    BY <2>1 DEF TypeOK, ReloadCall
  <2> QED
    BY <2>1, <2>2, <2>3, <2>4, StopBodyFacts DEF TypeOK
<1>3. ASSUME NEW r \in Reloads, SetConfig(r) \/ NewRouter(r) \/ MakeStopChan(r)
      PROVE  TypeOK'
  <2>1. PICK l \in {"router", "range", "start"} : reload' = [reload EXCEPT ![r].pc = l]
    BY <1>3 DEF SetConfig, NewRouter, MakeStopChan, Goto
  <2>2. reload' \in [Reloads -> ReloadCall] /\ \A q \in Reloads : reload'[q].from = reload[q].from /\ reload'[q].next = reload[q].next
    BY <2>1 DEF TypeOK, ReloadCall
  <2>3. /\ config' \in Ids /\ router' \in Ids /\ stopChan' \in Ids
        /\ UNCHANGED <<listening, routes, closedChans, server, calls, refused>>
    BY <1>3 DEF TypeOK, SetConfig, NewRouter, MakeStopChan, NewConfig, EmptyRouter, OpenChan
  <2>4. age' \in [Ids -> Nat]
    BY <1>3 DEF TypeOK, SetConfig, NewRouter, MakeStopChan
  <2> QED
    BY <2>2, <2>3, <2>4 DEF TypeOK
<1>4. ASSUME NEW r \in Reloads, SetupRoutes(r)
      PROVE  TypeOK'
  <2>1. reload' = [reload EXCEPT ![r] = [pc |-> "routes", from |-> config, next |-> 1]] /\ UNCHANGED <<fields, routes, closedChans, server, ghost>>
    BY <1>4 DEF SetupRoutes
  <2>2. 1 <= Len(Endpoints[config]) + 1
    BY EndpointFacts DEF TypeOK
  <2>3. [pc |-> "routes", from |-> config, next |-> 1] \in ReloadCall
    BY DEF TypeOK, ReloadCall
  <2> QED
    BY <2>1, <2>2, <2>3 DEF TypeOK
<1>5. ASSUME NEW r \in Reloads, AddRoute(r)
      PROVE  TypeOK'
  <2> DEFINE c == reload[r].from
             i == reload[r].next
  <2>1. c \in Ids /\ i \in Nat \ {0} /\ i <= Len(Endpoints[c])
    BY <1>5 DEF AddRoute, TypeOK, ReloadCall
  <2>2. Route(c, i) \in AllRoutes /\ Len(Endpoints[c]) \in Nat
    BY <2>1, EndpointFacts
  <2>3. /\ routes' = [routes EXCEPT ![router] = HandleFunc(@, Route(c, i))]
        /\ reload' = [reload EXCEPT ![r].next = i + 1]
        /\ UNCHANGED <<fields, closedChans, server, ghost>>
    BY <1>5 DEF AddRoute
  <2> HIDE DEF c, i
  <2>4. HandleFunc(routes[router], Route(c, i)) \subseteq AllRoutes
    BY <2>2 DEF HandleFunc, TypeOK
  <2>5. routes' \in [Ids -> SUBSET AllRoutes]
    BY <2>3, <2>4 DEF TypeOK
  <2>6. reload' \in [Reloads -> ReloadCall]
    <3>1. reload[r] \in ReloadCall /\ i + 1 \in Nat \ {0}
      BY <2>1 DEF TypeOK
    <3>2. [reload[r] EXCEPT !.next = i + 1] \in ReloadCall
      BY <3>1 DEF ReloadCall
    <3> QED
      BY <2>3, <3>2 DEF TypeOK
  <2>7. \A q \in Reloads : reload'[q].next <= Len(Endpoints[reload'[q].from]) + 1
    <3>1. reload'[r].next = i + 1 /\ reload'[r].from = c
      BY <2>3 DEF TypeOK, ReloadCall, c
    <3>2. \A q \in Reloads \ {r} : reload'[q] = reload[q]
      BY <2>3 DEF TypeOK
    <3>3. i + 1 <= Len(Endpoints[c]) + 1
      BY <2>1, <2>2
    <3>4. \A q \in Reloads : reload[q].next <= Len(Endpoints[reload[q].from]) + 1
      BY DEF TypeOK
    <3>5. ASSUME NEW q \in Reloads
          PROVE  reload'[q].next <= Len(Endpoints[reload'[q].from]) + 1
      BY <3>1, <3>2, <3>3, <3>4
    <3> QED
      BY <3>5
  <2> QED
    BY <2>3, <2>5, <2>6, <2>7 DEF TypeOK
<1>6. ASSUME NEW r \in Reloads, start(r)
      PROVE  TypeOK'
  <2>1. /\ server' = [server EXCEPT ![r] = [@ EXCEPT !.pc = "mark", !.addr = AddrOf[config]]]
        /\ reload' = [reload EXCEPT ![r].pc = "done"]
        /\ UNCHANGED <<fields, routes, closedChans, ghost>>
    BY <1>6 DEF start, ListenAddr, Goto
  <2>2. reload' \in [Reloads -> ReloadCall] /\ \A q \in Reloads : reload'[q].from = reload[q].from /\ reload'[q].next = reload[q].next
    BY <2>1 DEF TypeOK, ReloadCall
  <2>3. server' \in [Ids -> Goroutine]
    <3>1. server[r] \in Goroutine /\ AddrOf[config] \in {AddrOf[c] : c \in Ids}
      BY DEF TypeOK
    <3>2. [server[r] EXCEPT !.pc = "mark"] \in Goroutine
      BY <3>1 DEF Goroutine
    <3>3. [server[r] EXCEPT !.pc = "mark", !.addr = AddrOf[config]] \in Goroutine
      BY <3>1, <3>2 DEF Goroutine
    <3> QED
      BY <2>1, <3>3 DEF TypeOK
  <2> QED
    BY <2>1, <2>2, <2>3 DEF TypeOK
<1>7. ASSUME NEW x \in Ids, Server(x) \/ ServingFails(x)
      PROVE  TypeOK'
  <2>1. server' \in [Ids -> Goroutine]
    <3>1. server[x] \in Goroutine /\ router \in Ids
      BY DEF TypeOK
    <3>2. \A l \in {"call", "bind", "serving", "failed", "exited"} : [server[x] EXCEPT !.pc = l] \in Goroutine
      BY <3>1 DEF Goroutine
    <3>3. [server[x] EXCEPT !.pc = "bind", !.router = router] \in Goroutine
      BY <3>1 DEF Goroutine
    <3>4. \/ \E l \in {"call", "bind", "serving", "failed", "exited"} : server' = [server EXCEPT ![x] = [@ EXCEPT !.pc = l]]
          \/ server' = [server EXCEPT ![x] = [@ EXCEPT !.pc = "bind", !.router = router]]
      <4>1. CASE ReadRouter(x)
        BY <4>1, <3>1 DEF ReadRouter, ServedRouter, TypeOK, Goroutine
      <4>2. CASE MarkListening(x) \/ ListenAndServe(x) \/ ServingFails(x) \/ MarkStopped(x)
        BY <4>2 DEF MarkListening, ListenAndServe, ServingFails, MarkStopped
      <4> QED
        BY <1>7, <4>1, <4>2 DEF Server
    <3> QED
      BY <3>2, <3>3, <3>4 DEF TypeOK
  <2>2. /\ listening' \in BOOLEAN /\ refused' \subseteq Ids
        /\ UNCHANGED <<config, router, stopChan, routes, closedChans, reload, calls, age>>
    BY <1>7 DEF Server, MarkListening, ReadRouter, ListenAndServe, ServingFails, MarkStopped, StoppedFlag, TypeOK
  <2> QED
    BY <2>1, <2>2 DEF TypeOK
<1>8. CASE UNCHANGED vars
  BY <1>8 DEF vars, TypeOK
<1> QED
  BY <1>1, <1>2, <1>3, <1>4, <1>5, <1>6, <1>7, <1>8 DEF Next, Reload

----------------------------------------------------------------------------
(* The steps of a reload, in their order; the other reloads stay.           *)
LEMMA Moves ==
  ASSUME TypeOK, NEW r \in Reloads, ReloadStop(r) \/ Reload(r)
  PROVE  /\ \A q \in Reloads : q # r => reload'[q] = reload[q]
         /\ \/ ReloadStop(r)   /\ reload[r].pc = "idle"   /\ reload'[r].pc = "config"
            \/ SetConfig(r)    /\ reload[r].pc = "config" /\ reload'[r].pc = "router"
            \/ NewRouter(r)    /\ reload[r].pc = "router" /\ reload'[r].pc = "range"
            \/ SetupRoutes(r)  /\ reload[r].pc = "range"  /\ reload'[r].pc = "routes"
            \/ AddRoute(r)     /\ reload[r].pc = "routes" /\ reload'[r].pc = "routes"
            \/ MakeStopChan(r) /\ reload[r].pc = "routes" /\ reload'[r].pc = "start"
            \/ start(r)        /\ reload[r].pc = "start"  /\ reload'[r].pc = "done"
<1> USE DEF TypeOK, ReloadCall, Goto
<1>1. CASE ReloadStop(r) \/ SetConfig(r) \/ NewRouter(r)
  BY <1>1 DEF ReloadStop, SetConfig, NewRouter
<1>2. CASE SetupRoutes(r) \/ AddRoute(r)
  BY <1>2 DEF SetupRoutes, AddRoute
<1>3. CASE MakeStopChan(r) \/ start(r)
  BY <1>3 DEF MakeStopChan, start
<1> QED
  BY <1>1, <1>2, <1>3 DEF Reload

LEMMA ChanStep ==
  ASSUME TypeOK, ChanInv, [Next]_vars
  PROVE  ChanInv'
<1> USE DEF ChanInv, NotOpened
<1>1. CASE MainStop
  <2>1. UNCHANGED <<reload, stopChan>> /\ closedChans' \subseteq closedChans \union {stopChan}
    BY <1>1, StopBodyFacts DEF MainStop
  <2> QED
    BY <2>1
<1>2. ASSUME NEW r \in Reloads, ReloadStop(r)
      PROVE  ChanInv'
  <2>1. stopChan' = stopChan /\ closedChans' \subseteq closedChans \union {stopChan}
    BY <1>2, StopBodyFacts DEF ReloadStop
  <2>2. reload[r].pc = "idle" /\ \A q \in Reloads : q # r => reload'[q] = reload[q]
    BY <1>2, Moves DEF ReloadStop
  <2> QED
    BY <2>1, <2>2
<1>3. ASSUME NEW r \in Reloads, Reload(r)
      PROVE  ChanInv'
  <2>1. /\ closedChans' = closedChans
        /\ stopChan' = stopChan \/ (stopChan' = r /\ reload'[r].pc = "start")
    BY <1>3, Moves DEF Reload, SetConfig, NewRouter, SetupRoutes, AddRoute, MakeStopChan, start, OpenChan, fields
  <2>2. /\ \A q \in Reloads : q # r => reload'[q] = reload[q]
        /\ reload'[r].pc \in NotOpened => reload[r].pc \in NotOpened
    BY <1>3, Moves
  <2> QED
    BY <2>1, <2>2
<1>4. ASSUME NEW x \in Ids, Server(x) \/ ServingFails(x)
      PROVE  ChanInv'
  BY <1>4 DEF Server, MarkListening, ReadRouter, ListenAndServe, ServingFails, MarkStopped, fields
<1>5. CASE UNCHANGED vars
  BY <1>5 DEF vars
<1> QED
  BY <1>1, <1>2, <1>3, <1>4, <1>5 DEF Next

(* Only a second caller of Stop finds the channel closed.                   *)
LEMMA StopStep ==
  ASSUME TypeOK, ChanInv, StopInv, PanicNeedsARace, [Next]_vars
  PROVE  StopInv' /\ PanicNeedsARace'
<1> USE DEF StopInv, PanicNeedsARace
<1>1. CASE MainStop
  BY <1>1 DEF MainStop
<1>2. ASSUME NEW r \in Reloads, ReloadStop(r)
      PROVE  StopInv' /\ PanicNeedsARace'
  <2>1. /\ stopping' = stopping
        /\ overlapped' <=> overlapped \/ \E q \in Reloads : Active(q)
        /\ panicked' => panicked \/ stopChan \in closedChans
    BY <1>2, StopBodyFacts DEF ReloadStop, TypeOK
  <2>2. Replacing(r)'
    BY <1>2, Moves DEF ReloadStop, Replacing, NotOpened
  <2>3. \A q \in Reloads : Replacing(q) => Active(q)
    BY DEF Replacing, Active, NotOpened
  <2> QED
    BY <2>1, <2>2, <2>3
<1>3. ASSUME NEW r \in Reloads, Reload(r)
      PROVE  StopInv' /\ PanicNeedsARace'
  <2>1. UNCHANGED <<closedChans, calls>>
    BY <1>3 DEF ghost, Reload, SetConfig, NewRouter, SetupRoutes, AddRoute, MakeStopChan, start
  <2>2. CASE MakeStopChan(r)
    <3>1. stopChan' = r /\ r \notin closedChans
      BY <2>2 DEF MakeStopChan, OpenChan, ChanInv, NotOpened
    <3> QED
      BY <2>1, <3>1 DEF calls
  <2>3. CASE ~MakeStopChan(r)
    <3>1. stopChan' = stopChan
      BY <1>3, <2>3 DEF Reload, SetConfig, NewRouter, SetupRoutes, AddRoute, start, fields
    <3>2. \A q \in Reloads : Replacing(q) => Replacing(q)'
      BY <1>3, <2>3, Moves DEF Replacing, NotOpened, ReloadStop
    <3> QED
      BY <2>1, <3>1, <3>2 DEF calls
  <2> QED
    BY <2>2, <2>3
<1>4. ASSUME NEW x \in Ids, Server(x) \/ ServingFails(x)
      PROVE  StopInv' /\ PanicNeedsARace'
  <2>1. UNCHANGED <<closedChans, stopChan, reload, stopping, panicked, overlapped>>
    BY <1>4 DEF Server, MarkListening, ReadRouter, ListenAndServe, ServingFails, MarkStopped, fields, calls, ghost
  <2> QED
    BY <2>1 DEF Replacing
<1>5. CASE UNCHANGED vars
  BY <1>5 DEF vars, Replacing
<1> QED
  BY <1>1, <1>2, <1>3, <1>4, <1>5 DEF Next

(* NewRouter is the only step that changes a router's age, of a router that *)
(* no goroutine has been spawned for, and makes it the greatest.            *)
LEMMA RouterStep ==
  ASSUME TypeOK, RouterInv, [Next]_vars
  PROVE  RouterInv'
<1> USE DEF RouterInv, NoOlderRouter
<1>1. CASE MainStop \/ UNCHANGED vars
  <2>1. UNCHANGED <<router, reload, server, age>>
    BY <1>1 DEF MainStop, vars
  <2> QED
    BY <2>1
<1>2. ASSUME NEW r \in Reloads, (ReloadStop(r) \/ Reload(r)) /\ ~NewRouter(r) /\ ~start(r)
      PROVE  RouterInv'
  <2>1. UNCHANGED <<router, server, age>>
    BY <1>2 DEF ReloadStop, Reload, SetConfig, SetupRoutes, AddRoute, MakeStopChan, fields, ghost
  <2>2. \A q \in Reloads : reload'[q].pc # "done" => reload[q].pc # "done"
    BY <1>2, Moves
  <2> QED
    BY <2>1, <2>2
<1>3. ASSUME NEW r \in Reloads, NewRouter(r)
      PROVE  RouterInv'
  <2>1. router' = r /\ age' = [age EXCEPT ![r] = age[router] + 1] /\ server' = server /\ reload[r].pc = "router"
    BY <1>3 DEF NewRouter, EmptyRouter
  <2>2. \A x \in Ids : age[x] \in Nat /\ router \in Ids /\ server[x].router \in Ids
    BY DEF TypeOK, Goroutine
  <2>3. \A x \in Ids : age[x] <= age'[x] /\ age'[x] <= age'[router']
    BY <2>1, <2>2, IdFacts DEF TypeOK
  <2>4. server[r].pc = "none"
    BY <2>1
  <2>5. ASSUME NEW x \in Ids, server[x].pc \in {"bind", "serving"}
        PROVE  age'[server[x].router] >= age'[x]
    <3>1. x # r /\ age'[x] = age[x] /\ age[server[x].router] >= age[x]
      BY <2>1, <2>4, <2>5 DEF TypeOK
    <3>2. age'[server[x].router] >= age[server[x].router] /\ age'[server[x].router] \in Nat
      BY <2>1, <2>2, <2>3, IdFacts DEF TypeOK
    <3> QED
      BY <2>2, <3>1, <3>2
  <2>6. \A q \in Reloads : reload'[q].pc # "done" => reload[q].pc # "done"
    BY <1>3, Moves DEF Reload
  <2> QED
    BY <2>1, <2>3, <2>5, <2>6
<1>4. ASSUME NEW r \in Reloads, start(r)
      PROVE  RouterInv'
  <2>1. /\ reload[r].pc = "start" /\ UNCHANGED <<router, age>>
        /\ server' = [server EXCEPT ![r] = [@ EXCEPT !.pc = "mark", !.addr = AddrOf[config]]]
    BY <1>4 DEF start, ListenAddr, fields, ghost
  <2>2. server'[r].pc = "mark" /\ \A x \in Ids : x # r => server'[x] = server[x]
    BY <2>1, IdFacts DEF TypeOK, Goroutine
  <2>3. reload'[r].pc = "done" /\ \A q \in Reloads : q # r => reload'[q] = reload[q]
    BY <1>4, <2>1, Moves DEF Reload
  <2> QED
    BY <2>1, <2>2, <2>3, IdFacts
<1>5. ASSUME NEW x \in Ids, Server(x) \/ ServingFails(x)
      PROVE  RouterInv'
  <2>1. /\ UNCHANGED <<router, reload, age>> /\ server[x].pc # "none"
        /\ \A y \in Ids : y # x => server'[y] = server[y]
    BY <1>5 DEF Server, MarkListening, ReadRouter, ListenAndServe, ServingFails, MarkStopped, TypeOK, fields, ghost
  <2>2. \/ server'[x].router = router
        \/ server'[x].router = server[x].router /\ (server'[x].pc \in {"bind", "serving"} => server[x].pc = "bind")
    BY <1>5 DEF Server, MarkListening, ReadRouter, ServedRouter, ListenAndServe, ServingFails, MarkStopped, TypeOK, Goroutine
  <2>3. age[router] \in Nat /\ age[x] \in Nat
    BY DEF TypeOK
  <2>4. server'[x].pc \in {"bind", "serving"} => age[server'[x].router] >= age[x]
    BY <2>2, <2>3
  <2> QED
    BY <2>1, <2>4, IdFacts
<1> QED
  BY <1>1, <1>2, <1>3, <1>4, <1>5 DEF Next, Reload

(* A goroutine sets listening before it counts and clears it as it leaves.  *)
LEMMA ListeningStep ==
  ASSUME TypeOK, RouterInv, ListeningIsBacked, [Next]_vars
  PROVE  ListeningIsBacked'
<1> DEFINE Backs(x) == server[x].pc \in {"call", "bind", "serving", "failed"}
<1>1. CASE MainStop \/ UNCHANGED vars \/ \E r \in Reloads : ReloadStop(r)
  <2>1. server' = server /\ (listening' => listening)
    BY <1>1 DEF MainStop, ReloadStop, StopBody, vars, TypeOK
  <2> QED
    BY <2>1 DEF ListeningIsBacked
<1>2. ASSUME NEW r \in Reloads, Reload(r)
      PROVE  ListeningIsBacked'
  <2>1. listening' = listening
    BY <1>2 DEF Reload, SetConfig, NewRouter, SetupRoutes, AddRoute, MakeStopChan, start, fields
  <2>2. \A x \in Ids : Backs(x) => Backs(x)'
    <3>1. CASE ~start(r)
      BY <1>2, <3>1 DEF Reload, SetConfig, NewRouter, SetupRoutes, AddRoute, MakeStopChan
    <3>2. CASE start(r)
      <4>1. server[r].pc = "none"
        BY <3>2 DEF start, RouterInv
      <4>2. \A x \in Ids : x # r => server'[x] = server[x]
        BY <3>2 DEF start, TypeOK
      <4> QED
        BY <4>1, <4>2
    <3> QED
      BY <3>1, <3>2
  <2> QED
    BY <2>1, <2>2 DEF ListeningIsBacked
<1>3. ASSUME NEW x \in Ids, Server(x) \/ ServingFails(x)
      PROVE  ListeningIsBacked'
  <2>1. \A y \in Ids : y # x => server'[y] = server[y]
    BY <1>3 DEF Server, MarkListening, ReadRouter, ListenAndServe, ServingFails, MarkStopped, TypeOK
  <2>2. \/ ~listening'
        \/ Backs(x)'
    BY <1>3 DEF Server, MarkListening, ReadRouter, ListenAndServe, ServingFails, MarkStopped, StoppedFlag, TypeOK, Goroutine
  <2> QED
    BY <2>2 DEF ListeningIsBacked
<1> QED
  BY <1>1, <1>2, <1>3 DEF Next

----------------------------------------------------------------------------
(* While reloads come one after the other, the one that runs finds the      *)
(* fields as it left them.                                                  *)
LEMMA SerialStep ==
  ASSUME TypeOK, ~overlapped => SerialInv, [Next]_vars, ~overlapped'
  PROVE  SerialInv'
<1>1. ~overlapped /\ SerialInv
  <2>1. overlapped' = overlapped \/ \E r \in Reloads : ReloadStop(r)
    BY DEF Next, MainStop, Reload, Server, SetConfig, NewRouter, SetupRoutes, AddRoute, MakeStopChan,
           start, MarkListening, ReadRouter, ListenAndServe, ServingFails, MarkStopped, calls, ghost, vars
  <2>2. ~overlapped
    BY <2>1 DEF ReloadStop
  <2> QED
    BY <2>2
<1>2. CASE MainStop \/ UNCHANGED vars
  <2>1. UNCHANGED <<config, router, routes, reload>>
    BY <1>2 DEF MainStop, vars
  <2> QED
    BY <1>1, <2>1 DEF SerialInv, Undisturbed, Idle, Active
<1>3. ASSUME NEW r \in Reloads, ReloadStop(r)
      PROVE  SerialInv'
  <2>1. UNCHANGED <<config, router, routes, server>> /\ \A q \in Reloads : ~Active(q)
    BY <1>1, <1>3 DEF ReloadStop
  <2>2. reload[r].pc = "idle" /\ reload'[r].pc = "config" /\ \A q \in Reloads : q # r => reload'[q] = reload[q]
    BY <1>3, Moves DEF ReloadStop
  <2>3. Undisturbed(r)'
    BY <1>1, <2>1, <2>2 DEF SerialInv, Undisturbed
  <2>4. \A q \in Reloads : Undisturbed(q)'
    BY <1>1, <2>1, <2>2, <2>3 DEF SerialInv, Undisturbed
  <2>5. Active(r)' /\ \A q \in Reloads : q # r => ~Active(q)'
    BY <2>1, <2>2 DEF Active
  <2> QED
    BY <1>1, <2>1, <2>4, <2>5 DEF SerialInv, Idle
<1>4. ASSUME NEW r \in Reloads, Reload(r)
      PROVE  SerialInv'
  <2>1. Active(r) /\ \A q \in Reloads : q # r => reload'[q] = reload[q]
    BY <1>4, Moves DEF Active, ReloadStop, Reload, SetConfig, NewRouter, SetupRoutes, AddRoute, MakeStopChan, start
  <2>2. \A q \in Reloads : q # r => ~Active(q) /\ ~Active(q)'
    BY <1>1, <2>1 DEF SerialInv, Active
  <2>3. /\ Undisturbed(r) /\ r \in Ids /\ r # 0
        /\ \A x \in Ids : \A q \in routes[x] : q.cfg = x
    BY <1>1, IdFacts DEF SerialInv
  <2>4. /\ Undisturbed(r)'
        /\ \A x \in Ids : x # r => routes'[x] = routes[x]
        /\ \A q \in routes'[r] : q.cfg = r
        /\ reload'[r].pc = "done" => router' = r /\ routes'[r] = Table(r)
    <3> USE DEF Undisturbed
    <3>1. CASE SetConfig(r)
      BY <2>3, <3>1, <1>4, Moves DEF SetConfig, NewConfig
    <3>2. CASE NewRouter(r)
      BY <2>3, <3>2, <1>4, Moves DEF NewRouter, EmptyRouter
    <3>3. CASE SetupRoutes(r)
      <4>1. reload[r].pc = "range" /\ reload'[r] = [pc |-> "routes", from |-> config, next |-> 1]
        BY <3>3 DEF SetupRoutes, TypeOK
      <4>2. routes[r] = Filled(r, 0)
        BY <2>3, <4>1, FillsTheTable
      <4> QED
        BY <2>3, <3>3, <4>1, <4>2 DEF SetupRoutes, fields
    <3>4. CASE AddRoute(r)
      <4> DEFINE n == reload[r].next
      <4>1. /\ reload[r].pc = "routes" /\ reload[r].from = r /\ config = r /\ router = r
            /\ n \in 1..Len(Endpoints[r]) /\ routes[r] = Filled(r, n - 1)
        BY <2>3, <3>4, EndpointFacts DEF AddRoute, TypeOK, ReloadCall
      <4>2. /\ routes' = [routes EXCEPT ![r] = HandleFunc(@, Route(r, n))]
            /\ reload' = [reload EXCEPT ![r].next = n + 1]
            /\ UNCHANGED <<fields, server>>
        BY <3>4, <4>1 DEF AddRoute
      <4>3. routes'[r] = Filled(r, n)
        BY <2>3, <4>1, <4>2, FillsTheTable DEF TypeOK
      <4>4. reload'[r].pc = "routes" /\ reload'[r].from = r /\ reload'[r].next - 1 = n
        BY <4>1, <4>2, EndpointFacts, <2>3 DEF TypeOK, ReloadCall
      <4>5. \A q \in Filled(r, n) : q.cfg = r
        BY DEF Filled, Route
      <4>6. \A x \in Ids : x # r => routes'[x] = routes[x]
        BY <4>2 DEF TypeOK
      <4> QED
        BY <4>1, <4>2, <4>3, <4>4, <4>5, <4>6 DEF fields
    <3>5. CASE MakeStopChan(r)
      <4>1. /\ reload[r].pc = "routes" /\ reload[r].from = r /\ config = r /\ router = r
            /\ reload[r].next = Len(Endpoints[r]) + 1 /\ routes[r] = Filled(r, reload[r].next - 1)
        BY <2>3, <3>5, EndpointFacts DEF MakeStopChan, TypeOK, ReloadCall
      <4>2. routes[r] = Table(r)
        BY <2>3, <4>1, FillsTheTable, EndpointFacts
      <4>3. reload'[r].pc = "start" /\ UNCHANGED <<config, router, routes, server>>
        BY <3>5 DEF MakeStopChan, Goto, TypeOK, ReloadCall
      <4> QED
        BY <2>3, <4>1, <4>2, <4>3
    <3>6. CASE start(r)
      <4>1. /\ reload[r].pc = "start" /\ config = r /\ router = r /\ routes[r] = Table(r)
            /\ UNCHANGED <<config, router, routes>>
        BY <2>3, <3>6 DEF start, fields
      <4>2. reload'[r].pc = "done"
        BY <3>6 DEF start, Goto, TypeOK, ReloadCall
      <4> QED
        BY <2>3, <4>1, <4>2
    <3> QED
      BY <1>4, <3>1, <3>2, <3>3, <3>4, <3>5, <3>6 DEF Reload
  <2>5. \A q \in Reloads : Undisturbed(q)'
    <3> SUFFICES ASSUME NEW q \in Reloads, q # r
                 PROVE  Undisturbed(q)'
      BY <2>4
    <3>1. reload'[q] = reload[q] /\ reload[q].pc \in {"idle", "done"}
      BY <2>1, <2>2 DEF Active
    <3>2. routes'[q] = routes[q] /\ Undisturbed(q)
      BY <1>1, <2>4, IdFacts DEF SerialInv
    <3> QED
      BY <3>1, <3>2 DEF Undisturbed
  <2>6. Idle' => routes'[router'] = Table(router')
    <3>1. Idle' => reload'[r].pc = "done"
      BY <1>4, Moves DEF Idle, Active, ReloadStop, Reload, SetConfig, NewRouter, SetupRoutes, AddRoute, MakeStopChan, start
    <3> QED
      BY <2>4, <3>1
  <2>7. \A x \in Ids : \A q \in routes'[x] : q.cfg = x
    BY <2>3, <2>4
  <2> QED
    BY <2>2, <2>5, <2>6, <2>7 DEF SerialInv
<1>5. ASSUME NEW x \in Ids, Server(x) \/ ServingFails(x)
      PROVE  SerialInv'
  <2>1. UNCHANGED <<config, router, routes, reload>>
    BY <1>5 DEF Server, MarkListening, ReadRouter, ListenAndServe, ServingFails, MarkStopped, fields
  <2>2. \A q \in Reloads : Undisturbed(q)'
    BY <1>1, <2>1, IdFacts DEF SerialInv, Undisturbed
  <2> QED
    BY <1>1, <2>1, <2>2, IdFacts DEF SerialInv, Idle, Active
<1> QED
  BY <1>2, <1>3, <1>4, <1>5 DEF Next

LEMMA Initially ==
  ASSUME Init
  PROVE  IInv
<1> USE IdFacts
<1>1. TypeOK
  <2>1. NoReload \in ReloadCall /\ \A r \in Reloads : 1 <= Len(Endpoints[NoReload.from]) + 1
    BY EndpointFacts DEF NoReload, ReloadCall
  <2>2. NotSpawned \in Goroutine /\ [NotSpawned EXCEPT !.pc = "mark"] \in Goroutine
    BY DEF NotSpawned, Goroutine
  <2>3. Table(0) \subseteq AllRoutes
    BY EndpointFacts DEF Table
  <2>4. reload \in [Reloads -> ReloadCall] /\ \A r \in Reloads : reload[r].next <= Len(Endpoints[reload[r].from]) + 1
    BY <2>1 DEF Init, NoReload
  <2>5. server \in [Ids -> Goroutine]
    BY <2>2 DEF Init
  <2>6. routes \in [Ids -> SUBSET AllRoutes]
    BY <2>3 DEF Init
  <2> QED
    BY <2>4, <2>5, <2>6 DEF Init, TypeOK
<1>2. /\ \A r \in Reloads : reload[r].pc = "idle" /\ server[r].pc = "none" /\ routes[r] = {}
      /\ routes[0] = Table(0)
      /\ \A x \in Ids : server[x].pc \in {"none", "mark"} /\ age[x] = 0
      /\ \A x \in Ids : x # 0 => routes[x] = {}
  BY DEF Init, NoReload, NotSpawned
<1>3. ChanInv /\ StopInv /\ PanicNeedsARace /\ RouterInv /\ ListeningIsBacked
  BY <1>2 DEF Init, ChanInv, StopInv, PanicNeedsARace, RouterInv, NoOlderRouter, ListeningIsBacked
<1>4. SerialInv
  <2>1. \A q \in Table(0) : q.cfg = 0
    BY DEF Table, Route
  <2>2. \A x \in Ids : \A q \in routes[x] : q.cfg = x
    BY <1>2, <2>1
  <2> QED
    BY <1>2, <2>2 DEF Init, SerialInv, Undisturbed, Idle, Active
<1> QED
  BY <1>1, <1>3, <1>4 DEF IInv

(* The strengthened invariant holds in every reachable state.               *)
THEOREM Invariance == Spec => []IInv
<1>1. Init => IInv
  BY Initially
<1>2. IInv /\ [Next]_vars => IInv'
  BY TypeStep, ChanStep, StopStep, RouterStep, ListeningStep, SerialStep DEF IInv
<1> QED
  BY <1>1, <1>2, PTL DEF Spec

(* The type invariant: every field of CoapServer keeps its range.           *)
THEOREM TypeCorrect == Spec => []TypeOK
  BY Invariance, PTL DEF IInv

(* Stop closes no channel twice unless two of its callers race.             *)
THEOREM NoPanicAlone == Spec => []PanicNeedsARace
  BY Invariance, PTL DEF IInv

(* A router never mixes configurations while reloads do not overlap.        *)
THEOREM RoutersDoNotMix == Spec => []RouterFromOneConfig
<1>1. IInv => RouterFromOneConfig
  BY DEF IInv, SerialInv, Idle, RouterFromOneConfig
<1> QED
  BY <1>1, Invariance, PTL

(* Whenever a goroutine gets to read cs.router, it serves no router older   *)
(* than the one it was spawned for.                                         *)
THEOREM NoStaleRouter == Spec => []NoOlderRouter
  BY Invariance, PTL DEF IInv, RouterInv

(* listening is set only while a goroutine serves or is about to.           *)
THEOREM FlagIsBacked == Spec => []ListeningIsBacked
  BY Invariance, PTL DEF IInv
=============================================================================
