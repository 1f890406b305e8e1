------------------------ MODULE ConfigWatcherProofs ------------------------
(***************************************************************************)
(* Proofs about ConfigWatcher, for every number of servers, of concurrent  *)
(* reloads, of queued events and of edits.                                 *)
(***************************************************************************)
EXTENDS ConfigWatcher, TLAPS

----------------------------------------------------------------------------
(* The kernel's queue.                                                      *)

LEMMA SeqTail ==
  ASSUME NEW S, NEW s \in Seq(S), s # <<>>
  PROVE  Head(s) \in S /\ Tail(s) \in Seq(S) /\ Len(Tail(s)) < Len(s)
  OBVIOUS

LEMMA SeqAppend ==
  ASSUME NEW S, NEW s \in Seq(S), NEW e \in S
  PROVE  Append(s, e) \in Seq(S) /\ Len(Append(s, e)) = Len(s) + 1
  OBVIOUS

(* Notify keeps the queue within its bound.                                 *)
LEMMA NotifyType ==
  ASSUME TypeOK, NEW e \in {"write", "other"}, Notify(e)
  PROVE  events' \in Seq(Event) /\ Len(events') <= QueueCap + 1 /\ missed' \in BOOLEAN
<1>1. events \in Seq(Event) /\ Len(events) <= QueueCap + 1 /\ missed \in BOOLEAN
      /\ QueueCap \in Nat /\ Len(events) \in Nat
  BY WatcherAssumption DEF TypeOK
<1>2. e \in Event /\ "overflow" \in Event
  BY DEF Event
<1>3. /\ Append(events, e) \in Seq(Event) /\ Len(Append(events, e)) = Len(events) + 1
      /\ Append(events, "overflow") \in Seq(Event)
      /\ Len(Append(events, "overflow")) = Len(events) + 1
  BY <1>1, <1>2, SeqAppend
<1>4. missed' \in BOOLEAN
  <2>1. Queued \in BOOLEAN /\ missed' = IF e = "write" THEN ~Queued ELSE missed
    BY DEF Queued, Notify
  <2> QED
    BY <1>1, <2>1, Zenon
<1>5. CASE Queued
  <2>1. events' = Append(events, e) /\ Len(events) < QueueCap
    BY <1>5 DEF Notify, Queued
  <2> QED
    BY <1>1, <1>3, <1>4, <2>1
<1>6. CASE ~Queued /\ watching = "on" /\ Len(events) = QueueCap
  <2>1. events' = Append(events, "overflow")
    BY <1>6 DEF Notify
  <2> QED
    BY <1>1, <1>3, <1>4, <1>6, <2>1
<1>7. CASE ~Queued /\ ~(watching = "on" /\ Len(events) = QueueCap)
  <2>1. events' = events
    BY <1>7 DEF Notify
  <2> QED
    BY <1>1, <1>4, <2>1
<1> QED
  BY <1>5, <1>6, <1>7

(* A write that is not missed is in the queue afterwards, and Notify never  *)
(* takes a write out of it.                                                 *)
LEMMA NotifyKeepsWrites ==
  ASSUME TypeOK, NEW e \in {"write", "other"}, Notify(e)
  PROVE  /\ (\E i \in DOMAIN events : events[i] = "write")
              => \E i \in DOMAIN events' : events'[i] = "write"
         /\ (e = "write" /\ ~missed')
              => \E i \in DOMAIN events' : events'[i] = "write"
<1>1. events \in Seq(Event)
  BY DEF TypeOK
<1>2. ASSUME NEW d \in Event, events' = Append(events, d)
      PROVE  /\ \A i \in DOMAIN events : i \in DOMAIN events' /\ events'[i] = events[i]
             /\ Len(events) + 1 \in DOMAIN events' /\ events'[Len(events) + 1] = d
  BY <1>1, <1>2
<1>3. e \in Event /\ "overflow" \in Event
  BY DEF Event
<1>4. CASE Queued
  <2>1. events' = Append(events, e)
    BY <1>4 DEF Notify
  <2> QED
    BY <1>2, <1>3, <2>1
<1>5. CASE ~Queued
  <2>1. events' = Append(events, "overflow") \/ events' = events
    BY <1>5 DEF Notify
  <2>2. ~(e = "write" /\ ~missed')
    BY <1>5 DEF Notify
  <2>3. \A i \in DOMAIN events : i \in DOMAIN events' /\ events'[i] = events[i]
    BY <1>2, <1>3, <2>1
  <2> QED
    BY <2>2, <2>3
<1> QED
  BY <1>4, <1>5

----------------------------------------------------------------------------
(* The type invariant: fields, goroutines and history keep their ranges.    *)
THEOREM TypeCorrect == Spec => []TypeOK
<1>1. Init => TypeOK
  <2> SUFFICES ASSUME Init PROVE TypeOK
    OBVIOUS
  <2>1. Boot \in Config /\ Boot.rev = 0
    BY DEF Boot, Config
  <2>2. Idle \in [pc : {"idle", "load", "apply"}, cfg : Config, next : 1..(NumServers + 1)]
    BY <2>1, WatcherAssumption DEF Idle
  <2>3. events \in Seq(Event) /\ Len(events) = 0
    BY DEF Init
  <2>4. reload \in [Workers -> [pc : {"idle", "load", "apply"}, cfg : Config,
                                next : 1..(NumServers + 1)]]
    BY <2>2 DEF Init
  <2>5. applied \in [Servers -> Config] /\ file \in Config /\ loaded \in Config
        /\ lastGood \in Config /\ file.rev = 0
    BY <2>1 DEF Init
  <2>6. missed \in BOOLEAN /\ overlapped \in BOOLEAN /\ watching = "off" /\ loop = "none"
        /\ debouncer = "nil"
    BY DEF Init
  <2>7. 0 <= MaxRev /\ 0 <= QueueCap + 1 /\ 0 \in Nat
    BY WatcherAssumption
  <2> QED
    BY <2>3, <2>4, <2>5, <2>6, <2>7 DEF TypeOK
<1>2. TypeOK /\ [Next]_vars => TypeOK'
  <2> SUFFICES ASSUME TypeOK, [Next]_vars
               PROVE  TypeOK'
    OBVIOUS
  <2> USE DEF world, history
  <2>0. NumServers \in Nat /\ QueueCap \in Nat /\ MaxRev \in Nat
    BY WatcherAssumption
  <2>1. CASE \E ok \in BOOLEAN : WriteFile(ok)
    <3>1. PICK ok \in BOOLEAN : WriteFile(ok)
      BY <2>1
    <3>2. Notify("write")
      BY <3>1 DEF WriteFile
    <3>3. events' \in Seq(Event) /\ Len(events') <= QueueCap + 1 /\ missed' \in BOOLEAN
      BY <3>2, NotifyType
    <3>4. file' \in Config /\ file'.rev <= MaxRev
      BY <2>0, <3>1 DEF WriteFile, TypeOK, Config
    <3> QED
      BY <3>1, <3>3, <3>4 DEF WriteFile, TypeOK
  <2>2. CASE RemoveFile
    <3>1. Notify("other")
      BY <2>2 DEF RemoveFile
    <3>2. events' \in Seq(Event) /\ Len(events') <= QueueCap + 1 /\ missed' \in BOOLEAN
      BY <3>1, NotifyType
    <3>3. file' \in Config /\ file'.rev <= MaxRev
      BY <2>0, <2>2 DEF RemoveFile, TypeOK, Config
    <3> QED
      BY <2>2, <3>2, <3>3 DEF RemoveFile, TypeOK
  <2>3. CASE OtherFile
    <3>1. Notify("other")
      BY <2>3 DEF OtherFile
    <3>2. events' \in Seq(Event) /\ Len(events') <= QueueCap + 1 /\ missed' \in BOOLEAN
      BY <3>1, NotifyType
    <3> QED
      BY <2>3, <3>2 DEF OtherFile, TypeOK
  <2>4. CASE Start
    BY <2>4 DEF Start, TypeOK
  <2>5. CASE ReceiveEvent
    <3>1. Tail(events) \in Seq(Event) /\ Len(Tail(events)) < Len(events)
      BY <2>5, SeqTail DEF ReceiveEvent, TypeOK
    <3>2. Len(Tail(events)) \in Nat /\ Len(events) \in Nat
      BY <3>1 DEF TypeOK
    <3> QED
      BY <2>0, <2>5, <3>1, <3>2 DEF ReceiveEvent, TypeOK
  <2>6. CASE scheduleReload \/ WatchLoopReturns
    BY <2>6 DEF scheduleReload, Rearmed, WatchLoopReturns, AfterClose, TypeOK
  <2>7. ASSUME NEW g \in Workers, TimerFires(g)
        PROVE  TypeOK'
    <3>1. [pc |-> "load", cfg |-> Boot, next |-> 1]
            \in [pc : {"idle", "load", "apply"}, cfg : Config, next : 1..(NumServers + 1)]
      BY <2>0 DEF Boot, Config
    <3>2. overlapped' \in BOOLEAN
      BY <2>7 DEF TimerFires, TypeOK, AnyRunning, Running
    <3> QED
      BY <2>7, <3>1, <3>2 DEF TimerFires, TypeOK
  <2>8. ASSUME NEW g \in Workers, reloadConfigLoad(g)
        PROVE  TypeOK'
    <3>1. /\ [pc |-> "apply", cfg |-> file, next |-> 1]
               \in [pc : {"idle", "load", "apply"}, cfg : Config, next : 1..(NumServers + 1)]
          /\ Idle \in [pc : {"idle", "load", "apply"}, cfg : Config, next : 1..(NumServers + 1)]
      BY <2>0 DEF Boot, Config, Idle, TypeOK
    <3> QED
      BY <2>8, <3>1 DEF reloadConfigLoad, FirstServer, TypeOK
  <2>9. ASSUME NEW g \in Workers, reloadConfigApply(g)
        PROVE  TypeOK'
    <3>1. reload[g].next \in 1..(NumServers + 1) /\ reload[g].cfg \in Config
      BY DEF TypeOK
    <3>2. reload[g].next + 1 \in 1..(NumServers + 1)
      BY <2>0, <2>9, <3>1 DEF reloadConfigApply, InList
    <3>3. applied' \in [Servers -> Config]
      BY <2>9, <3>1 DEF reloadConfigApply, TypeOK
    <3>4. reload' \in [Workers -> [pc : {"idle", "load", "apply"}, cfg : Config,
                                   next : 1..(NumServers + 1)]]
      BY <2>9, <3>2 DEF reloadConfigApply, TypeOK
    <3> QED
      BY <2>9, <3>3, <3>4 DEF reloadConfigApply, TypeOK
  <2>10. ASSUME NEW g \in Workers, reloadConfigReturn(g)
         PROVE  TypeOK'
    <3>1. Idle \in [pc : {"idle", "load", "apply"}, cfg : Config, next : 1..(NumServers + 1)]
      BY <2>0 DEF Boot, Config, Idle
    <3> QED
      BY <2>10, <3>1 DEF reloadConfigReturn, TypeOK
  <2>11. CASE Stop
    BY <2>0, <2>11 DEF Stop, TypeOK
  <2>12. CASE UNCHANGED vars
    BY <2>12 DEF vars, TypeOK
  <2> QED
    BY <2>1, <2>2, <2>3, <2>4, <2>5, <2>6, <2>7, <2>8, <2>9, <2>10, <2>11, <2>12
       DEF Next, Environment, WatchLoop, Reload
<1> QED
  BY <1>1, <1>2, PTL DEF Spec

----------------------------------------------------------------------------
(* watchLoop is started with the watch, never before.                       *)
LoopNeedsWatch == watching = "off" => loop = "none"

LEMMA LoopAfterWatch == Spec => []LoopNeedsWatch
<1>1. Init => LoopNeedsWatch
  BY DEF Init, LoopNeedsWatch
<1>2. LoopNeedsWatch /\ [Next]_vars => LoopNeedsWatch'
  BY DEF LoopNeedsWatch, Next, vars, history, world, Environment, WriteFile, RemoveFile,
         OtherFile, Start, WatchLoop, ReceiveEvent, scheduleReload, WatchLoopReturns,
         TimerFires, Reload, reloadConfigLoad, reloadConfigApply, reloadConfigReturn, Stop
<1> QED
  BY <1>1, <1>2, PTL DEF Spec

(* One step never swallows an edit: a write that is still to be read moves  *)
(* from the queue to watchLoop, to the timer and to a loading goroutine.    *)
LEMMA NoEditLostStep ==
  ASSUME TypeOK, LoopNeedsWatch, NoEditLost, [Next]_vars
  PROVE  NoEditLost'
<1> USE DEF NoEditLost, SeenEdit, LoadPending, world, history
<1>1. CASE \E ok \in BOOLEAN : WriteFile(ok)
  <2>1. PICK ok \in BOOLEAN : WriteFile(ok)
    BY <1>1
  <2>2. Notify("write")
    BY <2>1 DEF WriteFile
  <2>3. ~missed' => \E i \in DOMAIN events' : events'[i] = "write"
    BY <2>2, NotifyKeepsWrites
  <2> QED
    BY <2>2, <2>3
<1>2. CASE RemoveFile
  BY <1>2 DEF RemoveFile
<1>3. CASE OtherFile
  <2>1. Notify("other")
    BY <1>3 DEF OtherFile
  <2>2. /\ missed' = missed
        /\ (\E i \in DOMAIN events : events[i] = "write")
             => \E i \in DOMAIN events' : events'[i] = "write"
    BY <2>1, NotifyKeepsWrites DEF Notify
  <2> QED
    BY <1>3, <2>2 DEF OtherFile
<1>4. CASE Start
  BY <1>4 DEF Start, LoopNeedsWatch
<1>5. CASE ReceiveEvent
  <2>1. events \in Seq(Event) /\ events # <<>>
    BY <1>5 DEF ReceiveEvent, TypeOK
  <2>2. CASE Head(events) = "write"
    BY <1>5, <2>2 DEF ReceiveEvent, IsConfigEvent
  <2>3. CASE Head(events) # "write"
    <3>1. ASSUME NEW i \in DOMAIN events, events[i] = "write"
          PROVE  \E j \in DOMAIN Tail(events) : Tail(events)[j] = "write"
      <4>1. i # 1
        BY <2>1, <2>3, <3>1
      <4>2. i - 1 \in DOMAIN Tail(events) /\ Tail(events)[i - 1] = events[i]
        BY <2>1, <4>1
      <4> QED
        BY <3>1, <4>2
    <3>2. UNCHANGED <<file, missed, watching, debouncer, reload, loaded>>
          /\ events' = Tail(events) /\ loop = "select"
      BY <1>5 DEF ReceiveEvent
    <3> QED
      BY <3>1, <3>2
  <2> QED
    BY <2>2, <2>3
<1>6. CASE scheduleReload
  BY <1>6 DEF scheduleReload, Rearmed
<1>7. CASE WatchLoopReturns
  BY <1>7 DEF WatchLoopReturns
<1>8. ASSUME NEW g \in Workers, TimerFires(g)
      PROVE  NoEditLost'
  <2>1. reload'[g].pc = "load"
    BY <1>8 DEF TimerFires, TypeOK
  <2> QED
    BY <2>1
<1>9. ASSUME NEW g \in Workers, reloadConfigLoad(g)
      PROVE  NoEditLost'
  BY <1>9 DEF reloadConfigLoad
<1>10. ASSUME NEW g \in Workers, reloadConfigApply(g) \/ reloadConfigReturn(g)
       PROVE  NoEditLost'
  <2>1. \A h \in Workers : reload[h].pc = "load" => reload'[h].pc = "load"
    BY <1>10 DEF reloadConfigApply, reloadConfigReturn, TypeOK
  <2>2. UNCHANGED <<file, missed, events, watching, loop, debouncer, loaded>>
    BY <1>10 DEF reloadConfigApply, reloadConfigReturn
  <2> QED
    BY <2>1, <2>2
<1>11. CASE Stop
  BY <1>11 DEF Stop
<1>12. CASE UNCHANGED vars
  BY <1>12 DEF vars
<1> QED
  BY <1>1, <1>2, <1>3, <1>4, <1>5, <1>6, <1>7, <1>8, <1>9, <1>10, <1>11, <1>12
     DEF Next, Environment, WatchLoop, Reload

(* The debouncer loses no edit, for any number of edits and events.         *)
THEOREM EditsAreKept == Spec => []NoEditLost
<1>1. Init => NoEditLost
  BY DEF Init, NoEditLost
<1>2. TypeOK /\ LoopNeedsWatch /\ NoEditLost /\ [Next]_vars => NoEditLost'
  BY NoEditLostStep
<1> QED
  BY <1>1, <1>2, TypeCorrect, LoopAfterWatch, PTL DEF Spec

----------------------------------------------------------------------------
(* What a reload is about to hand out was accepted by LoadConfig.           *)
ParsedInv ==
  /\ \A g \in Workers : reload[g].cfg.ok
  /\ \A s \in Servers : applied[s].ok
  /\ lastGood.ok

LEMMA ParsedStep ==
  ASSUME TypeOK, ParsedInv, [Next]_vars
  PROVE  ParsedInv'
<1> USE DEF ParsedInv, world, history
<1>0. Boot.ok /\ Idle.cfg.ok
  BY DEF Boot, Idle
<1>1. CASE Environment
  BY <1>1 DEF Environment, WriteFile, RemoveFile, OtherFile
<1>2. CASE Start \/ Stop \/ WatchLoop
  BY <1>2 DEF Start, Stop, WatchLoop, ReceiveEvent, scheduleReload, WatchLoopReturns
<1>3. ASSUME NEW g \in Workers, TimerFires(g)
      PROVE  ParsedInv'
  BY <1>0, <1>3 DEF TimerFires, TypeOK
<1>4. ASSUME NEW g \in Workers, reloadConfigLoad(g)
      PROVE  ParsedInv'
  <2>1. reload'[g].cfg.ok /\ \A h \in Workers \ {g} : reload'[h] = reload[h]
    BY <1>0, <1>4 DEF reloadConfigLoad, LoadConfigOK, TypeOK
  <2> QED
    BY <1>4, <2>1 DEF reloadConfigLoad, LoadConfigOK
<1>5. ASSUME NEW g \in Workers, reloadConfigApply(g)
      PROVE  ParsedInv'
  <2>1. \A h \in Workers : reload'[h].cfg = reload[h].cfg
    BY <1>5 DEF reloadConfigApply, TypeOK
  <2>2. \A s \in Servers : applied'[s] = applied[s] \/ applied'[s] = reload[g].cfg
    BY <1>5 DEF reloadConfigApply, TypeOK
  <2> QED
    BY <1>5, <2>1, <2>2 DEF reloadConfigApply
<1>6. ASSUME NEW g \in Workers, reloadConfigReturn(g)
      PROVE  ParsedInv'
  BY <1>0, <1>6 DEF reloadConfigReturn, TypeOK
<1>7. CASE UNCHANGED vars
  BY <1>7 DEF vars
<1> QED
  BY <1>1, <1>2, <1>3, <1>4, <1>5, <1>6, <1>7 DEF Next, Reload

(* A file LoadConfig rejects never reaches a server.                        *)
THEOREM RejectedFilesStayOut == Spec => []OnlyParsedConfigs
<1>1. Init => ParsedInv
  BY DEF Init, ParsedInv, Boot, Idle
<1>2. TypeOK /\ ParsedInv /\ [Next]_vars => ParsedInv'
  BY ParsedStep
<1>3. ParsedInv => OnlyParsedConfigs
  BY DEF ParsedInv, OnlyParsedConfigs
<1> QED
  BY <1>1, <1>2, <1>3, TypeCorrect, PTL DEF Spec

----------------------------------------------------------------------------
(* While no two reloads have overlapped, at most one is running; one that   *)
(* is handing out hands out the newest accepted configuration, and has done *)
(* so up to its place in the list; otherwise every server has it already.   *)
OneAtATime == \A g, h \in Workers : Running(g) /\ Running(h) => g = h
HandsOutNewest ==
  \A g \in Workers : reload[g].pc = "apply" =>
    /\ reload[g].cfg = lastGood
    /\ \A s \in Servers \ NilServers : s < reload[g].next => applied[s] = lastGood
AllHaveNewest ==
  (\A g \in Workers : reload[g].pc # "apply") =>
    \A s \in Servers \ NilServers : applied[s] = lastGood

SerialInv ==
  /\ loaded.ok => lastGood = loaded
  /\ ~overlapped => OneAtATime /\ HandsOutNewest /\ AllHaveNewest

LEMMA SerialStep ==
  ASSUME TypeOK, SerialInv, [Next]_vars
  PROVE  SerialInv'
<1> USE DEF world, history
<1>0. (loaded.ok => lastGood = loaded) /\ NumServers \in Nat
  BY WatcherAssumption DEF SerialInv
<1>1. ASSUME UNCHANGED <<reload, applied, loaded, lastGood, overlapped>>
      PROVE  SerialInv'
  BY <1>1 DEF SerialInv, OneAtATime, HandsOutNewest, AllHaveNewest, Running
<1>2. CASE Environment \/ WatchLoop \/ Stop \/ Start
  <2>1. UNCHANGED <<reload, applied, loaded, lastGood, overlapped>>
    BY <1>2 DEF Environment, WriteFile, RemoveFile, OtherFile, WatchLoop, ReceiveEvent,
                scheduleReload, WatchLoopReturns, Stop, Start
  <2> QED
    BY <1>1, <2>1
<1>3. ASSUME NEW g \in Workers, TimerFires(g)
      PROVE  SerialInv'
  <2>1. /\ UNCHANGED <<applied, loaded, lastGood>>
        /\ reload'[g].pc = "load" /\ reload'[g].next = 1
        /\ \A h \in Workers \ {g} : reload'[h] = reload[h]
        /\ reload[g].pc = "idle"
        /\ overlapped' = (overlapped \/ AnyRunning)
    BY <1>3 DEF TimerFires, Running, TypeOK
  <2>2. ASSUME ~overlapped'
        PROVE  ~overlapped /\ \A h \in Workers : reload[h].pc = "idle"
    BY <2>1, <2>2 DEF AnyRunning, Running
  <2>3. ~overlapped' => (OneAtATime /\ HandsOutNewest /\ AllHaveNewest)'
    BY <2>1, <2>2 DEF SerialInv, OneAtATime, HandsOutNewest, AllHaveNewest, Running
  <2> QED
    BY <1>0, <2>1, <2>3 DEF SerialInv
<1>4. ASSUME NEW g \in Workers, reloadConfigLoad(g)
      PROVE  SerialInv'
  <2>1. /\ reload[g].pc = "load" /\ loaded' = file
        /\ UNCHANGED <<applied, overlapped>>
        /\ \A h \in Workers \ {g} : reload'[h] = reload[h]
    BY <1>4 DEF reloadConfigLoad, TypeOK
  <2>2. loaded'.ok => lastGood' = loaded'
    BY <1>4 DEF reloadConfigLoad, LoadConfigOK
  <2>3. ASSUME ~overlapped
        PROVE  /\ \A h \in Workers \ {g} : reload[h].pc = "idle"
               /\ \A s \in Servers \ NilServers : applied[s] = lastGood
    <3>1. \A h \in Workers \ {g} : reload[h].pc = "idle"
      BY <2>1, <2>3 DEF SerialInv, OneAtATime, Running
    <3> QED
      BY <2>1, <2>3, <3>1 DEF SerialInv, AllHaveNewest
  <2>4. CASE file.ok
    <3>1. /\ reload'[g] = [pc |-> "apply", cfg |-> file, next |-> 1]
          /\ lastGood' = file
      BY <1>4, <2>4 DEF reloadConfigLoad, FirstServer, LoadConfigOK, TypeOK
    <3>2. \A s \in Servers : ~(s < 1)
      BY <1>0 DEF Servers
    <3> QED
      BY <2>1, <2>2, <2>3, <3>1, <3>2
         DEF SerialInv, OneAtATime, HandsOutNewest, AllHaveNewest, Running
  <2>5. CASE ~file.ok
    <3>1. reload'[g].pc = "idle" /\ lastGood' = lastGood
      BY <1>4, <2>5 DEF reloadConfigLoad, LoadConfigOK, Idle, TypeOK
    <3> QED
      BY <2>1, <2>2, <2>3, <3>1
         DEF SerialInv, OneAtATime, HandsOutNewest, AllHaveNewest, Running
  <2> QED
    BY <2>4, <2>5
<1>5. ASSUME NEW g \in Workers, reloadConfigApply(g)
      PROVE  SerialInv'
  <2> DEFINE n == reload[g].next
  <2>1. /\ UNCHANGED <<loaded, lastGood, overlapped>>
        /\ \A h \in Workers \ {g} : reload'[h] = reload[h]
        /\ reload[g].pc = "apply" /\ reload'[g].pc = "apply"
        /\ reload'[g].cfg = reload[g].cfg /\ reload'[g].next = n + 1
        /\ n \in 1..NumServers
    BY <1>0, <1>5 DEF reloadConfigApply, InList, TypeOK
  <2>2. /\ \A s \in Servers : s # n => applied'[s] = applied[s]
        /\ n \notin NilServers => applied'[n] = reload[g].cfg
    BY <1>5, <2>1 DEF reloadConfigApply, TypeOK, Servers
  <2>3. ASSUME ~overlapped
        PROVE  (OneAtATime /\ HandsOutNewest /\ AllHaveNewest)'
    <3>1. /\ \A h \in Workers \ {g} : reload[h].pc = "idle"
          /\ reload[g].cfg = lastGood
          /\ \A s \in Servers \ NilServers : s < n => applied[s] = lastGood
      BY <2>1, <2>3 DEF SerialInv, OneAtATime, HandsOutNewest, Running
    <3>2. ASSUME NEW s \in Servers \ NilServers, s < n + 1
          PROVE  applied'[s] = lastGood
      <4>1. s < n \/ s = n
        BY <2>1, <3>2 DEF Servers
      <4> QED
        BY <2>2, <3>1, <4>1
    <3> QED
      BY <2>1, <3>1, <3>2 DEF OneAtATime, HandsOutNewest, AllHaveNewest, Running
  <2> QED
    BY <1>0, <2>1, <2>3 DEF SerialInv
<1>6. ASSUME NEW g \in Workers, reloadConfigReturn(g)
      PROVE  SerialInv'
  <2>1. /\ UNCHANGED <<applied, loaded, lastGood, overlapped>>
        /\ \A h \in Workers \ {g} : reload'[h] = reload[h]
        /\ reload[g].pc = "apply" /\ reload'[g].pc = "idle"
        /\ reload[g].next = NumServers + 1
    BY <1>0, <1>6 DEF reloadConfigReturn, InList, TypeOK, Idle
  <2>2. \A s \in Servers : s < reload[g].next
    BY <1>0, <2>1 DEF Servers
  <2>3. ASSUME ~overlapped
        PROVE  (OneAtATime /\ HandsOutNewest /\ AllHaveNewest)'
    BY <2>1, <2>2, <2>3 DEF SerialInv, OneAtATime, HandsOutNewest, AllHaveNewest, Running
  <2> QED
    BY <1>0, <2>1, <2>3 DEF SerialInv
<1>7. CASE UNCHANGED vars
  BY <1>1, <1>7 DEF vars
<1> QED
  BY <1>2, <1>3, <1>4, <1>5, <1>6, <1>7 DEF Next, Reload

(* If no two reloads ever overlap, the servers settle on the file, however  *)
(* many servers, edits, rejected files and reloads there are.               *)
THEOREM SerialReloadsSettle == Spec => []SerialReloadsConverge
<1>1. Init => SerialInv
  BY DEF Init, SerialInv, OneAtATime, HandsOutNewest, AllHaveNewest, Running, Idle
<1>2. TypeOK /\ SerialInv /\ [Next]_vars => SerialInv'
  BY SerialStep
<1>3. NoEditLost /\ SerialInv => SerialReloadsConverge
  <2> SUFFICES ASSUME NoEditLost, SerialInv, SeenEdit, ~overlapped, ~LoadPending, ~AnyRunning
               PROVE  SettledOnFile
    BY DEF SerialReloadsConverge
  <2>1. loaded = file /\ file.ok
    BY DEF NoEditLost, SeenEdit
  <2>2. lastGood = file
    BY <2>1 DEF SerialInv
  <2> QED
    BY <2>2 DEF SerialInv, AllHaveNewest, AnyRunning, Running, SettledOnFile
<1> QED
  BY <1>1, <1>2, <1>3, TypeCorrect, EditsAreKept, PTL DEF Spec

----------------------------------------------------------------------------
(* The safety half of StopQuiesces: what a stopped watcher has put behind   *)
(* it, receiving an event, arming the timer, a reload, does not come back.  *)
AllIdle == \A g \in Workers : reload[g].pc = "idle"
WindsDown ==
  watching = "closed" =>
    /\ watching' = "closed"
    /\ loop # "schedule" => loop' # "schedule"
    /\ loop # "schedule" /\ debouncer # "armed" => debouncer' # "armed"
    /\ loop # "schedule" /\ debouncer # "armed" /\ AllIdle => AllIdle'

(* watchLoop receives no event once fsnotify is closed, and with neither an *)
(* event in hand nor an armed timer no reload goroutine is made.            *)
THEOREM StoppedStaysQuiet == Spec => [][WindsDown]_vars
<1>1. [Next]_vars => [WindsDown]_vars
  <2> SUFFICES ASSUME Next, watching = "closed"
               PROVE  WindsDown
    BY DEF WindsDown
  <2>1. CASE Environment
    BY <2>1 DEF Environment, WriteFile, RemoveFile, OtherFile, history, WindsDown, AllIdle
  <2>2. CASE scheduleReload
    BY <2>2 DEF scheduleReload, world, history, WindsDown, AllIdle
  <2>3. CASE WatchLoopReturns
    BY <2>3 DEF WatchLoopReturns, AfterClose, world, history, WindsDown, AllIdle
  <2>4. ASSUME NEW g \in Workers, TimerFires(g) PROVE WindsDown
    BY <2>4 DEF TimerFires, world, WindsDown
  <2>5. ASSUME NEW g \in Workers, Reload(g) PROVE WindsDown
    <3>1. reload[g].pc # "idle"
      BY <2>5 DEF Reload, reloadConfigLoad, reloadConfigApply, reloadConfigReturn
    <3>2. UNCHANGED <<watching, loop, debouncer>>
      BY <2>5 DEF Reload, reloadConfigLoad, reloadConfigApply, reloadConfigReturn
    <3> QED
      BY <3>1, <3>2 DEF WindsDown, AllIdle
  <2> QED
    BY <2>1, <2>2, <2>3, <2>4, <2>5 DEF Next, WatchLoop, ReceiveEvent, Start, Stop
<1> QED
  BY <1>1, PTL DEF Spec
=============================================================================
