--------------------------- MODULE ConfigWatcher ---------------------------
(***************************************************************************)
(* config/watcher.go: the fsnotify loop, the 500 ms debouncer, and the     *)
(* AfterFunc goroutines that load config.yaml and hand it to every         *)
(* Reloadable.  A content of the file is abstracted to its revision number *)
(* and to whether LoadConfig accepts it; revision 0 is what main loaded    *)
(* before it built the servers.  scheduleReload and Stop hold cw.mu from   *)
(* beginning to end, so each is one atomic step.                           *)
(***************************************************************************)
EXTENDS Integers, Sequences

CONSTANTS
  NumServers,   \* len(cw.servers)
  NilServers,   \* the indices that hold nil (servrest passes a nil CoAP server)
  Workers,      \* bound: AfterFunc goroutines inside reloadConfig at once
  QueueCap,     \* bound: events the kernel queues before it drops them
  MaxRev        \* bound: changes of config.yaml

ASSUME WatcherAssumption ==
  /\ NumServers \in Nat
  /\ NilServers \subseteq 1..NumServers
  /\ QueueCap \in Nat
  /\ MaxRev \in Nat

VARIABLES
  file,         \* config.yaml on disk
  events,       \* directory events not yet received by watchLoop
  watching,     \* the fsnotify watcher: "off", "on" after Start, "closed" after Stop
  loop,         \* where the watchLoop goroutine is
  debouncer,    \* cw.debouncer: "nil", "armed", or "spent" (fired or stopped)
  reload,       \* the AfterFunc goroutines
  applied,      \* the configuration each server last received through Reload
  loaded,       \* history: what the most recent LoadConfig found in the file
  lastGood,     \* history: the most recent configuration LoadConfig accepted
  missed,       \* history: the latest write of config.yaml queued no event
  overlapped    \* history: a reload began while another was still running

world   == <<file, events, missed>>
history == <<loaded, lastGood, overlapped>>
vars == <<file, events, watching, loop, debouncer, reload, applied,
          loaded, lastGood, missed, overlapped>>

Servers == 1..NumServers
Config  == [rev : Nat, ok : BOOLEAN]
Boot    == [rev |-> 0, ok |-> TRUE]
Idle    == [pc |-> "idle", cfg |-> Boot, next |-> 1]

Event == {"write", "other", "overflow"}

Running(g)   == reload[g].pc # "idle"
AnyRunning   == \E g \in Workers : Running(g)

Init ==
  /\ file = Boot /\ events = <<>> /\ missed = FALSE
  /\ watching = "off" /\ loop = "none" /\ debouncer = "nil"
  /\ reload = [g \in Workers |-> Idle]
  /\ applied = [s \in Servers |-> Boot]
  /\ loaded = Boot /\ lastGood = Boot /\ overlapped = FALSE

----------------------------------------------------------------------------
(* The directory and fsnotify (external).                                   *)

(* A full queue drops the event and ends in one overflow mark, which        *)
(* fsnotify delivers on Errors.  Before Start nobody is told.               *)
Queued == watching = "on" /\ Len(events) < QueueCap
Notify(e) ==
  /\ events' = IF Queued THEN Append(events, e)
               ELSE IF watching = "on" /\ Len(events) = QueueCap
                    THEN Append(events, "overflow") ELSE events
  /\ missed' = IF e = "write" THEN ~Queued ELSE missed

(* Somebody writes, truncates or replaces config.yaml: a Write or Create    *)
(* event.  A half-written file is one more revision.                        *)
WriteFile(ok) ==
  /\ file.rev < MaxRev
  /\ file' = [rev |-> file.rev + 1, ok |-> ok]
  /\ Notify("write")
  /\ UNCHANGED <<watching, loop, debouncer, reload, applied, history>>

(* config.yaml is removed or renamed away: LoadConfig would fail, and the   *)
(* event is neither Write nor Create.                                       *)
RemoveFile ==
  /\ file.rev < MaxRev
  /\ file' = [rev |-> file.rev + 1, ok |-> FALSE]
  /\ Notify("other")
  /\ UNCHANGED <<watching, loop, debouncer, reload, applied, history>>

(* Another file of the directory changes.                                   *)
OtherFile ==
  /\ watching = "on" /\ Len(events) <= QueueCap
  /\ Notify("other")
  /\ UNCHANGED <<file, watching, loop, debouncer, reload, applied, history>>

----------------------------------------------------------------------------
(* The watcher.                                                             *)

Start ==
  /\ watching = "off"
  /\ watching' = "on" /\ loop' = "select"
  /\ UNCHANGED <<world, debouncer, reload, applied, history>>

(* The path and operation test of watchLoop.                                *)
Bug_FirstEventOnly(e) == e = "write" /\ debouncer = "nil"
IsConfigEvent(e) == e = "write"

(* One receive of watchLoop's select.  An overflow arrives on Errors and is *)
(* only logged.                                                             *)
ReceiveEvent ==
  /\ loop = "select" /\ watching = "on" /\ events # <<>>
  /\ events' = Tail(events)
  /\ loop' = IF IsConfigEvent(Head(events)) THEN "schedule" ELSE "select"
  /\ UNCHANGED <<file, missed, watching, debouncer, reload, applied, history>>

(* Events (or Errors) is closed: watchLoop returns.                         *)
Bug_BreakLeavesSelect == "select"
AfterClose == "none"
WatchLoopReturns ==
  /\ loop = "select" /\ watching = "closed"
  /\ loop' = AfterClose
  /\ UNCHANGED <<world, watching, debouncer, reload, applied, history>>

(* The pending timer, if any, is stopped and a new one is armed.            *)
Bug_KeepOldTimer == IF debouncer = "spent" THEN "spent" ELSE "armed"
Rearmed == "armed"
scheduleReload ==
  /\ loop = "schedule"
  /\ debouncer' = Rearmed
  /\ loop' = "select"
  /\ UNCHANGED <<world, watching, reload, applied, history>>

(* 500 ms without another event: the timer's function gets a goroutine of   *)
(* its own.  From here on debouncer.Stop() has no effect on it.             *)
TimerFires(g) ==
  /\ debouncer = "armed" /\ ~Running(g)
  /\ debouncer' = "spent"
  /\ reload' = [reload EXCEPT ![g] = [pc |-> "load", cfg |-> Boot, next |-> 1]]
  /\ overlapped' = (overlapped \/ AnyRunning)
  /\ UNCHANGED <<world, watching, loop, applied, loaded, lastGood>>

(* LoadConfig: a missing, unreadable or malformed file is an error and the  *)
(* reload returns.                                                          *)
Bug_IgnoreError(f) == TRUE
LoadConfigOK(f) == f.ok

Bug_SkipFirst == 2
FirstServer == 1
reloadConfigLoad(g) ==
  /\ reload[g].pc = "load"
  /\ reload' = [reload EXCEPT ![g] =
       IF LoadConfigOK(file) THEN [pc |-> "apply", cfg |-> file, next |-> FirstServer] ELSE Idle]
  /\ loaded' = file
  /\ lastGood' = IF LoadConfigOK(file) THEN file ELSE lastGood
  /\ UNCHANGED <<world, watching, loop, debouncer, applied, overlapped>>

(* s.Reload(newConfig) on the next server of the list, unless it is nil.    *)
Bug_OnePastEnd(s) == s <= NumServers + 1
InList(s) == s <= NumServers
reloadConfigApply(g) ==
  LET s == reload[g].next IN
  /\ reload[g].pc = "apply" /\ InList(s)
  /\ applied' = IF s \in NilServers THEN applied
                ELSE [applied EXCEPT ![s] = reload[g].cfg]
  /\ reload' = [reload EXCEPT ![g].next = s + 1]
  /\ UNCHANGED <<world, watching, loop, debouncer, history>>

reloadConfigReturn(g) ==
  /\ reload[g].pc = "apply" /\ ~InList(reload[g].next)
  /\ reload' = [reload EXCEPT ![g] = Idle]
  /\ UNCHANGED <<world, watching, loop, debouncer, applied, history>>

(* The pending timer is stopped and fsnotify closed: Close returns once its *)
(* reader has ended, and takes the undelivered events with it.              *)
Stop ==
  /\ watching = "on"
  /\ watching' = "closed" /\ events' = <<>>
  /\ debouncer' = IF debouncer = "armed" THEN "spent" ELSE debouncer
  /\ UNCHANGED <<file, missed, loop, reload, applied, history>>

----------------------------------------------------------------------------
Environment == (\E ok \in BOOLEAN : WriteFile(ok)) \/ RemoveFile \/ OtherFile
WatchLoop   == ReceiveEvent \/ scheduleReload \/ WatchLoopReturns
Reload(g)   == reloadConfigLoad(g) \/ reloadConfigApply(g) \/ reloadConfigReturn(g)

Next ==
  \/ Environment
  \/ Start
  \/ WatchLoop
  \/ \E g \in Workers : TimerFires(g) \/ Reload(g)
  \/ Stop

Spec == Init /\ [][Next]_vars

(* Go runs every runnable goroutine and fires every armed timer; nothing    *)
(* forces anybody to edit the file or to stop the watcher.                  *)
Fairness ==
  /\ WF_vars(WatchLoop)
  /\ WF_vars(\E g \in Workers : TimerFires(g))
  /\ \A g \in Workers : WF_vars(Reload(g))

FairSpec == Spec /\ Fairness

----------------------------------------------------------------------------
TypeOK ==
  /\ file \in Config /\ file.rev <= MaxRev
  /\ events \in Seq(Event) /\ Len(events) <= QueueCap + 1
  /\ watching \in {"off", "on", "closed"}
  /\ loop \in {"none", "select", "schedule"}
  /\ debouncer \in {"nil", "armed", "spent"}
  /\ reload \in [Workers -> [pc : {"idle", "load", "apply"}, cfg : Config,
                             next : 1..(NumServers + 1)]]
  /\ applied \in [Servers -> Config]
  /\ loaded \in Config /\ lastGood \in Config
  /\ missed \in BOOLEAN /\ overlapped \in BOOLEAN

(* Something that will still make a reload read the file is under way.      *)
LoadPending ==
  \/ \E i \in DOMAIN events : events[i] = "write"
  \/ loop = "schedule"
  \/ debouncer = "armed"
  \/ \E g \in Workers : reload[g].pc = "load"

(* The file on disk is readable and is what main loaded, or its last write  *)
(* raised an event that was queued.                                         *)
SeenEdit == watching # "closed" /\ ~missed /\ file.ok

(* The debouncer never swallows an edit: once nothing is pending, the last  *)
(* load read exactly what is on disk.  (scheduleReload stops timers that    *)
(* stand for earlier events.)  An edit the watcher could not see, because   *)
(* the queue was full or the watch not yet up, is made good by the next.    *)
NoEditLost == SeenEdit /\ ~LoadPending => loaded = file

(* A file LoadConfig rejects never reaches a server, whatever was pending   *)
(* when it was written.                                                     *)
OnlyParsedConfigs == \A s \in Servers : applied[s].ok

(* If no two reloads ever overlapped, the system settles on the file: with  *)
(* no load pending and no reload running, every server has the content on   *)
(* disk.                                                                    *)
SettledOnFile == \A s \in Servers \ NilServers : applied[s] = file
SerialReloadsConverge ==
  SeenEdit /\ ~overlapped /\ ~LoadPending /\ ~AnyRunning => SettledOnFile

(* Every edit the watcher is told of reaches the servers in the end, unless *)
(* a later edit, Stop or an overlap of two reloads intervenes.              *)
EditReachesServers ==
  \A r \in 0..MaxRev :
    (SeenEdit /\ file.rev = r)
      ~> (SettledOnFile \/ file.rev # r \/ watching = "closed" \/ overlapped)

(* A timer may still be armed, and a reload begin, after Stop has returned: *)
(* watchLoop may hold an event it has received.  But that ends: the         *)
(* goroutines of a stopped watcher return and no timer stays armed.         *)
Quiet == loop = "none" /\ debouncer # "armed" /\ ~AnyRunning
StopQuiesces == watching = "closed" ~> []Quiet

----------------------------------------------------------------------------
(* What the documentation promises and the code does not keep.              *)

(* "The server detects file changes and reloads the configuration in real   *)
(* time": settled servers have the content on disk, also when reloads       *)
(* overlap.                                                                 *)
WatchedEditTakesEffect ==
  SeenEdit /\ ~LoadPending /\ ~AnyRunning => SettledOnFile
=============================================================================
