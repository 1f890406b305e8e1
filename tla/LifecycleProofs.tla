-------------------------- MODULE LifecycleProofs ---------------------------
(***************************************************************************)
(* Proofs about Lifecycle, for every set of requests, every number of      *)
(* targets and every setting of the scheduler and of the trap listener.    *)
(***************************************************************************)
EXTENDS Lifecycle, SequenceTheorems, TLAPS

(* This call is on the stack of deferred calls.                             *)
Has(d) == \E i \in 1..Len(defers) : defers[i] = d

Closes == {"publisher.Close", "CloseDB"}
StopAboveCloses ==
  \A i, j \in 1..Len(defers) : defers[i] = "snmpClient.Stop" /\ defers[j] \in Closes => i < j

(* The scheduler stays within the targets, and runs only while its Stop is  *)
(* still to be called; that Stop is above the closing of the sinks.         *)
SchedInv ==
  /\ worker["sched"] \in {"publish", "save"} => target <= NumTargets
  /\ worker["sched"] \notin {"none", "returned"} => Has("snmpClient.Stop")
  /\ Has("snmpClient.Stop") => Past("StartWalkScheduler")
  /\ StopAboveCloses

(* The sinks are closed by deferred calls only, after the scheduler's Stop. *)
CloseInv == Closed => Here = "return" /\ ~Has("snmpClient.Stop")

(* No request before server.Start, no new one after Shutdown, which a main  *)
(* that panics has not come to.                                             *)
RequestInv ==
  /\ \A q \in Requests : worker[q] # "idle" => serve # "none"
  /\ draining <=> Past("Shutdown")
  /\ Past("drain") => draining /\ (late \/ Drained)
  /\ panicking => ~draining

(* servfull sets its SNMP client before it serves, and servrest never;      *)
(* without one no request gets as far as the sinks.                         *)
ClientInv ==
  /\ Past("SetGlobalSNMPClient") => client
  /\ client => mode = "full"
  /\ mode = "full" /\ serve # "none" => client
  /\ \A q \in Requests : InSinks(q) => client
  /\ SnmpOnlyInServfull

IInv == TypeOK /\ SchedInv /\ CloseInv /\ RequestInv /\ ClientInv

----------------------------------------------------------------------------
(* The text of the two commands.                                            *)

LEMMA ProgramFacts ==
  /\ DOMAIN Program = {"full", "rest"}
  /\ Len(Program["full"]) = 18 /\ Len(Program["rest"]) = 12
BY DEF Program

(* The place of the calls whose order matters.                              *)
LEMMA FullProgram ==
  ASSUME NEW i \in 1..18
  PROVE  /\ Program["full"][i] = "InitDB"              <=> i = 2
         /\ Program["full"][i] = "NewKafkaPublisher"   <=> i = 4
         /\ Program["full"][i] = "StartWalkScheduler"  <=> i = 7
         /\ Program["full"][i] = "SetGlobalSNMPClient" <=> i = 9
         /\ Program["full"][i] = "go server.Start"     <=> i = 13
         /\ Program["full"][i] = "coapServer.Stop"     <=> i = 15
         /\ Program["full"][i] = "Shutdown"            <=> i = 16
         /\ Program["full"][i] = "drain"               <=> i = 17
         /\ Program["full"][i] = "return"              <=> i = 18
<1>1. \/ i = 1 \/ i = 2 \/ i = 3 \/ i = 4 \/ i = 5 \/ i = 6 \/ i = 7 \/ i = 8 \/ i = 9
      \/ i = 10 \/ i = 11 \/ i = 12 \/ i = 13 \/ i = 14 \/ i = 15 \/ i = 16 \/ i = 17
      \/ i = 18
  OBVIOUS
<1>2. /\ Program["full"][1] = "LoadConfig" /\ Program["full"][2] = "InitDB"
      /\ Program["full"][3] = "SetupDatabase" /\ Program["full"][4] = "NewKafkaPublisher"
      /\ Program["full"][5] = "NewMQTTClient" /\ Program["full"][6] = "Subscribe"
      /\ Program["full"][7] = "StartWalkScheduler" /\ Program["full"][8] = "trapServer.Start"
      /\ Program["full"][9] = "SetGlobalSNMPClient" /\ Program["full"][10] = "NewConfigWatcher"
      /\ Program["full"][11] = "watcher.Start" /\ Program["full"][12] = "signal.Notify"
      /\ Program["full"][13] = "go server.Start" /\ Program["full"][14] = "<-sigChan"
      /\ Program["full"][15] = "coapServer.Stop" /\ Program["full"][16] = "Shutdown"
      /\ Program["full"][17] = "drain" /\ Program["full"][18] = "return"
  BY DEF Program
<1>3. /\ Program["full"][i] = "InitDB"              <=> i = 2
      /\ Program["full"][i] = "NewKafkaPublisher"   <=> i = 4
  BY <1>1, <1>2
<1>4. /\ Program["full"][i] = "StartWalkScheduler"  <=> i = 7
      /\ Program["full"][i] = "SetGlobalSNMPClient" <=> i = 9
  BY <1>1, <1>2
<1>5. /\ Program["full"][i] = "go server.Start"     <=> i = 13
      /\ Program["full"][i] = "coapServer.Stop"     <=> i = 15
  BY <1>1, <1>2
<1>6. /\ Program["full"][i] = "Shutdown"            <=> i = 16
      /\ Program["full"][i] = "drain"               <=> i = 17
      /\ Program["full"][i] = "return"              <=> i = 18
  BY <1>1, <1>2
<1> QED
  BY <1>3, <1>4, <1>5, <1>6

LEMMA RestProgram ==
  ASSUME NEW i \in 1..12
  PROVE  /\ Program["rest"][i] # "StartWalkScheduler"
         /\ Program["rest"][i] # "coapServer.Stop"
         /\ Program["rest"][i] # "SetGlobalSNMPClient"
         /\ Program["rest"][i] = "Shutdown"            <=> i = 10
         /\ Program["rest"][i] = "drain"               <=> i = 11
         /\ Program["rest"][i] = "return"              <=> i = 12
<1>1. \/ i = 1 \/ i = 2 \/ i = 3 \/ i = 4 \/ i = 5 \/ i = 6 \/ i = 7 \/ i = 8 \/ i = 9
      \/ i = 10 \/ i = 11 \/ i = 12
  OBVIOUS
<1>2. /\ Program["rest"][1] = "LoadConfig" /\ Program["rest"][2] = "InitDB"
      /\ Program["rest"][3] = "SetupDatabase" /\ Program["rest"][4] = "NewKafkaPublisher"
      /\ Program["rest"][5] = "NewConfigWatcher" /\ Program["rest"][6] = "watcher.Start"
      /\ Program["rest"][7] = "signal.Notify" /\ Program["rest"][8] = "go server.Start"
      /\ Program["rest"][9] = "<-sigChan" /\ Program["rest"][10] = "Shutdown"
      /\ Program["rest"][11] = "drain" /\ Program["rest"][12] = "return"
  BY DEF Program
<1> QED
  BY <1>1, <1>2

LEMMA ProgramOrder ==
  ASSUME TypeOK
  PROVE  /\ Here = "return" => panicking \/ Past("drain")
         /\ Here = "drain" => Past("Shutdown")
         /\ Here = "coapServer.Stop" => ~Past("Shutdown")
         /\ Here = "SetGlobalSNMPClient" => mode = "full"
         /\ Here = "go server.Start" /\ mode = "full" => Past("SetGlobalSNMPClient")
         /\ Here \in {"InitDB", "NewKafkaPublisher"} => ~Past("StartWalkScheduler")
         /\ Here # "return" =>
              ~panicking /\ Here = Program[mode][at] /\ at + 1 \in 1..Len(Program[mode])
<1>1. CASE panicking
  BY <1>1 DEF Here
<1>2. CASE ~panicking /\ mode = "full"
  <2>1. at \in 1..18 /\ Here = Program["full"][at] /\ 1..(at - 1) \subseteq 1..18
    BY <1>2, ProgramFacts DEF TypeOK, Here
  <2>2. \A i \in 1..(at - 1) : i < at /\ i \in 1..18
    BY <2>1
  <2>3. /\ Here = "return" => Program["full"][17] = "drain" /\ 17 \in 1..(at - 1)
        /\ Here = "drain" => Program["full"][16] = "Shutdown" /\ 16 \in 1..(at - 1)
        /\ Here = "go server.Start" =>
             Program["full"][9] = "SetGlobalSNMPClient" /\ 9 \in 1..(at - 1)
    <3>1. Here = "return" => at = 18
      BY <2>1, FullProgram
    <3>2. Here = "drain" => at = 17
      BY <2>1, FullProgram
    <3>3. Here = "go server.Start" => at = 13
      BY <2>1, FullProgram
    <3>4. /\ Program["full"][17] = "drain" /\ Program["full"][16] = "Shutdown"
          /\ Program["full"][9] = "SetGlobalSNMPClient"
      BY DEF Program
    <3>5. /\ at = 18 => 17 \in 1..(at - 1)
          /\ at = 17 => 16 \in 1..(at - 1)
          /\ at = 13 => 9 \in 1..(at - 1)
      OBVIOUS
    <3> QED
      BY <3>1, <3>2, <3>3, <3>4, <3>5
  <2>4. ASSUME Here \in {"InitDB", "NewKafkaPublisher"} PROVE ~Past("StartWalkScheduler")
    <3>1. at \in {2, 4}
      BY <2>1, <2>4, FullProgram
    <3>2. \A i \in 1..(at - 1) : i # 7
      BY <2>1, <3>1
    <3> QED
      BY <1>2, <2>2, <3>2, FullProgram DEF Past
  <2>5. ASSUME Here = "coapServer.Stop" PROVE ~Past("Shutdown")
    <3>1. at = 15
      BY <2>1, <2>5, FullProgram
    <3>2. \A i \in 1..(at - 1) : i # 16
      BY <2>1, <3>1
    <3> QED
      BY <1>2, <2>2, <3>2, FullProgram DEF Past
  <2>6. Here # "return" => at + 1 \in 1..18
    <3>1. Here = "return" <=> at = 18
      BY <2>1, FullProgram
    <3> QED
      BY <2>1, <3>1
  <2> QED
    BY <1>2, <2>1, <2>3, <2>4, <2>5, <2>6, ProgramFacts DEF Past
<1>3. CASE ~panicking /\ mode = "rest"
  <2>1. at \in 1..12 /\ Here = Program["rest"][at] /\ 1..(at - 1) \subseteq 1..12
    BY <1>3, ProgramFacts DEF TypeOK, Here
  <2> QED
    BY <1>3, <2>1, ProgramFacts, RestProgram DEF Past
<1> QED
  BY <1>1, <1>2, <1>3, ProgramFacts DEF TypeOK

----------------------------------------------------------------------------
(* The stack of deferred calls.                                             *)

Defs == {Deferred[c] : c \in DOMAIN Deferred}

LEMMA DeferredFacts ==
  ASSUME NEW c \in DOMAIN Deferred
  PROVE  /\ Deferred[c] = "snmpClient.Stop" <=> c = "StartWalkScheduler"
         /\ Deferred[c] \in Closes => c \in {"InitDB", "NewKafkaPublisher"}
         /\ c # "go server.Start" /\ c # "Shutdown" /\ c # "drain" /\ c # "return"
BY DEF Deferred, Closes

LEMMA StartWalkIsDeferred == "StartWalkScheduler" \in DOMAIN Deferred
BY DEF Deferred

LEMMA PushProperties ==
  ASSUME defers \in Seq(Defs), NEW d \in Defs
  PROVE  /\ Push(d) \in Seq(Defs) /\ Len(defers) \in Nat /\ Len(Push(d)) = Len(defers) + 1
         /\ Push(d)[1] = d
         /\ \A i \in 2..(Len(defers) + 1) : i - 1 \in 1..Len(defers) /\ Push(d)[i] = defers[i - 1]
         /\ \A i \in 1..Len(defers) : Push(d)[i + 1] = defers[i]
<1>1. <<d>> \in Seq(Defs) /\ Len(<<d>>) = 1 /\ <<d>>[1] = d /\ Len(defers) \in Nat
  OBVIOUS
<1>2. /\ <<d>> \o defers \in Seq(Defs) /\ Len(<<d>> \o defers) = 1 + Len(defers)
      /\ \A i \in 1..(1 + Len(defers)) :
           (<<d>> \o defers)[i] = IF i <= 1 THEN <<d>>[i] ELSE defers[i - 1]
  BY <1>1, ConcatProperties
<1> QED
  BY <1>1, <1>2 DEF Push

(* The next call, which may defer another.                                  *)
LEMMA AdvanceFacts ==
  ASSUME TypeOK, Advance, Here # "return", mode' = mode
  PROVE  /\ at' \in 1..Len(Program[mode]) /\ defers' \in Seq(Defs)
         /\ \A c : Past(c)' <=> Past(c) \/ Here = c
         /\ Has("snmpClient.Stop")' <=> Has("snmpClient.Stop") \/ Here = "StartWalkScheduler"
         /\ StopAboveCloses /\ (Has("snmpClient.Stop") => Past("StartWalkScheduler"))
              => StopAboveCloses'
<1>1. at \in Nat /\ at' = at + 1 /\ at >= 1
  BY ProgramFacts DEF TypeOK, Advance
<1>2. at' \in 1..Len(Program[mode])
  BY <1>1, ProgramOrder
<1>3. ASSUME NEW c PROVE Past(c)' <=> Past(c) \/ Here = c
  <2>1. \A i : i \in 1..(at' - 1) <=> i \in 1..(at - 1) \/ i = at
    BY <1>1
  <2>2. Here = Program[mode][at]
    BY ProgramOrder
  <2> QED
    BY <2>1, <2>2 DEF Past
<1>4. defers \in Seq(Defs)
  BY DEF TypeOK, Defs
<1>5. CASE Here \notin DOMAIN Deferred
  <2>1. defers' = defers
    BY <1>5 DEF Advance
  <2>2. Here # "StartWalkScheduler"
    BY <1>5, StartWalkIsDeferred
  <2> QED
    BY <1>2, <1>3, <1>4, <2>1, <2>2 DEF Has, StopAboveCloses
<1>6. CASE Here \in DOMAIN Deferred
  <2> DEFINE d == Deferred[Here]
             n == Len(defers)
  <2>1. defers' = Push(d) /\ d \in Defs
    BY <1>6 DEF Advance, Defs
  <2> HIDE DEF d
  <2>2. /\ defers' \in Seq(Defs) /\ n \in Nat /\ Len(defers') = n + 1 /\ defers'[1] = d
        /\ \A i \in 2..(n + 1) : i - 1 \in 1..n /\ defers'[i] = defers[i - 1]
        /\ \A i \in 1..n : defers'[i + 1] = defers[i]
    BY <1>4, <2>1, PushProperties
  <2> HIDE DEF n
  <2>3. /\ d = "snmpClient.Stop" <=> Here = "StartWalkScheduler"
        /\ d \in Closes => Here \in {"InitDB", "NewKafkaPublisher"}
    BY <1>6, DeferredFacts DEF d
  <2>4. \A i \in 1..(n + 1) : i = 1 \/ i \in 2..(n + 1)
    BY <2>2
  <2>5. \A i \in 1..n : i + 1 \in 1..(n + 1)
    BY <2>2
  <2>6. Has("snmpClient.Stop")' <=> Has("snmpClient.Stop") \/ d = "snmpClient.Stop"
    <3>1. ASSUME Has("snmpClient.Stop")' PROVE Has("snmpClient.Stop") \/ d = "snmpClient.Stop"
      BY <2>2, <2>4, <3>1 DEF Has, n
    <3>2. ASSUME Has("snmpClient.Stop") PROVE Has("snmpClient.Stop")'
      BY <2>2, <2>5, <3>2 DEF Has, n
    <3>3. ASSUME d = "snmpClient.Stop" PROVE Has("snmpClient.Stop")'
      <4>1. 1 \in 1..Len(defers')
        BY <2>2
      <4> QED
        BY <2>2, <3>3, <4>1 DEF Has
    <3> QED
      BY <3>1, <3>2, <3>3
  <2>7. ASSUME StopAboveCloses, Has("snmpClient.Stop") => Past("StartWalkScheduler"),
               NEW i \in 1..Len(defers'), NEW j \in 1..Len(defers'),
               defers'[i] = "snmpClient.Stop", defers'[j] \in Closes
        PROVE  i < j
    <3>1. CASE j = 1
      <4>1. ~Has("snmpClient.Stop") /\ d # "snmpClient.Stop"
        BY <2>2, <2>3, <2>7, <3>1, ProgramOrder DEF Closes
      <4>2. ~Has("snmpClient.Stop")'
        BY <2>6, <4>1
      <4> QED
        BY <2>7, <4>2 DEF Has
    <3>2. CASE i = 1 /\ j # 1
      BY <2>2, <2>7, <3>2
    <3>3. CASE i # 1 /\ j # 1
      <4>1. i \in 2..(n + 1) /\ j \in 2..(n + 1)
        BY <2>2, <2>4, <2>7, <3>3
      <4>2. /\ i - 1 \in 1..n /\ defers[i - 1] = "snmpClient.Stop"
            /\ j - 1 \in 1..n /\ defers[j - 1] \in Closes
        BY <2>2, <2>7, <4>1
      <4>3. i - 1 < j - 1
        BY <2>7, <4>2 DEF StopAboveCloses, n
      <4> QED
        BY <4>1, <4>3, <2>2
    <3> QED
      BY <3>1, <3>2, <3>3
  <2> QED
    BY <1>2, <1>3, <2>2, <2>3, <2>6, <2>7 DEF StopAboveCloses
<1> QED
  BY <1>5, <1>6

(* A deferred call is done.                                                 *)
LEMMA PopFacts ==
  ASSUME TypeOK, StopAboveCloses, defers # <<>>, defers' = Tail(defers)
  PROVE  /\ defers' \in Seq(Defs) /\ StopAboveCloses'
         /\ Has("snmpClient.Stop")' => Has("snmpClient.Stop")
         /\ Head(defers) \in Closes => ~Has("snmpClient.Stop")
         /\ Head(defers) # "snmpClient.Stop" /\ Has("snmpClient.Stop") => Has("snmpClient.Stop")'
<1> DEFINE n == Len(defers)
<1>1. defers \in Seq(Defs) /\ n \in Nat \ {0} /\ Head(defers) = defers[1]
  BY EmptySeq DEF TypeOK, Defs
<1>2. /\ defers' \in Seq(Defs) /\ Len(defers') = n - 1
      /\ \A i \in 1..Len(defers') : defers'[i] = defers[i + 1]
  BY <1>1, HeadTailProperties
<1>3. /\ \A i \in 1..(n - 1) : i + 1 \in 1..n
      /\ \A i \in 1..n : i # 1 => i - 1 \in 1..(n - 1) /\ (i - 1) + 1 = i
      /\ 1 \in 1..n
  BY <1>1
<1>4. StopAboveCloses'
  <2> SUFFICES ASSUME NEW i \in 1..Len(defers'), NEW j \in 1..Len(defers'),
                      defers'[i] = "snmpClient.Stop", defers'[j] \in Closes
               PROVE  i < j
    BY DEF StopAboveCloses
  <2>1. i + 1 < j + 1
    BY <1>2, <1>3 DEF StopAboveCloses
  <2> QED
    BY <2>1
<1>5. Has("snmpClient.Stop")' => Has("snmpClient.Stop")
  BY <1>2, <1>3 DEF Has
<1>6. ASSUME Head(defers) \in Closes, Has("snmpClient.Stop") PROVE FALSE
  <2>1. PICK i \in 1..n : defers[i] = "snmpClient.Stop"
    BY <1>6 DEF Has
  <2>2. i < 1
    BY <1>1, <1>3, <1>6, <2>1 DEF StopAboveCloses
  <2> QED
    BY <2>1, <2>2
<1>7. ASSUME Head(defers) # "snmpClient.Stop", Has("snmpClient.Stop") PROVE Has("snmpClient.Stop")'
  <2>1. PICK i \in 1..n : defers[i] = "snmpClient.Stop"
    BY <1>7 DEF Has
  <2>2. i # 1
    BY <1>1, <1>7, <2>1
  <2>3. i - 1 \in 1..Len(defers') /\ defers'[i - 1] = "snmpClient.Stop"
    BY <1>1, <1>2, <1>3, <2>1, <2>2
  <2> QED
    BY <2>3 DEF Has
<1> QED
  BY <1>2, <1>4, <1>5, <1>6, <1>7

----------------------------------------------------------------------------
(* The inductive invariant.                                                 *)

LEMMA NoCallYet ==
  ASSUME at = 1, defers = <<>>
  PROVE  (\A c : ~Past(c)) /\ (\A d : ~Has(d)) /\ StopAboveCloses
<1>1. 1..(at - 1) = {} /\ 1..Len(defers) = {}
  OBVIOUS
<1> QED
  BY <1>1 DEF Past, Has, StopAboveCloses

LEMMA InitIInv == Init => IInv
<1> SUFFICES ASSUME Init PROVE IInv
  OBVIOUS
<1> USE SnmpAssumption
<1>1. SnmpTypeOK
  <2>1. DOMAIN worker = Workers /\ target \in 1..(NumTargets + 1)
    BY DEF Init, SnmpInit
  <2>2. /\ worker["sched"] = "none" /\ worker["trap"] = "idle"
        /\ \A q \in Requests : worker[q] = "idle"
    BY DEF Init, SnmpInit, Workers
  <2> QED
    BY <2>1, <2>2 DEF Init, SnmpInit, SnmpTypeOK
<1>2. mode \in DOMAIN Program /\ at \in 1..Len(Program[mode])
  <2>1. mode \in {"full", "rest"} /\ at = 1
    BY ProgramFacts DEF Init
  <2>2. CASE mode = "full"
    BY <2>1, <2>2, ProgramFacts
  <2>3. CASE mode = "rest"
    BY <2>1, <2>3, ProgramFacts
  <2> QED
    BY <2>1, <2>2, <2>3
<1>3. defers \in Seq({Deferred[c] : c \in DOMAIN Deferred})
  BY EmptySeq DEF Init
<1>4. TypeOK
  BY <1>1, <1>2, <1>3 DEF Init, TypeOK
<1>5. SchedInv
  BY NoCallYet DEF Init, SnmpInit, SchedInv, Workers
<1>6. CloseInv
  BY DEF Init, SnmpInit, CloseInv, Closed
<1>7. RequestInv
  BY NoCallYet DEF Init, SnmpInit, RequestInv, Workers
<1>8. ClientInv
  BY NoCallYet DEF Init, SnmpInit, ClientInv, SnmpOnlyInServfull, InSinks, Workers
<1> QED
  BY <1>4, <1>5, <1>6, <1>7, <1>8 DEF IInv

(* What a step of a worker of module SnmpClient may do while main stands    *)
(* still, and what it then preserves.                                       *)
Served == {"200", "400", "500 agent"}
WorkerStep ==
  /\ UNCHANGED mainVars /\ SnmpTypeOK'
  /\ worker'["sched"] \in {"publish", "save"} => target' <= NumTargets
  /\ worker["sched"] \in {"none", "returned"} => worker'["sched"] \in {"none", "returned"}
  /\ \A q \in Requests : /\ worker[q] = "idle" <=> worker'[q] = "idle"
                         /\ ~Active(q) => ~Active(q)'
  /\ client' = client /\ (Closed' <=> Closed)
  /\ \A q \in Requests : answer'[q] = "500 no client" =>
                            \/ answer[q] = "500 no client"
                            \/ ~client /\ worker[q] # "idle"
  /\ \A q \in Requests : /\ InSinks(q)' => InSinks(q) \/ client
                         /\ answer'[q] \in Served => answer[q] \in Served \/ InSinks(q) \/ client

LEMMA ClientKept ==
  ASSUME ClientInv, UNCHANGED <<mode, client>>, serve' # "none" => serve # "none",
         Past("SetGlobalSNMPClient")' => Past("SetGlobalSNMPClient"),
         \A q \in Requests : InSinks(q)' => InSinks(q),
         \A q \in Requests : answer'[q] \in Served \union {"500 no client"} => answer'[q] = answer[q]
  PROVE  ClientInv'
<1>1. SnmpOnlyInServfull'
  BY DEF ClientInv, SnmpOnlyInServfull, Served
<1>2. \A q \in Requests : InSinks(q)' => client'
  BY DEF ClientInv
<1> QED
  BY <1>1, <1>2, Zenon DEF ClientInv

LEMMA WorkerStepKeeps ==
  ASSUME IInv, WorkerStep
  PROVE  IInv'
<1>1. UNCHANGED <<mode, at, defers, asked, notified, serve, draining, late, panicking, ended>>
  BY DEF WorkerStep, mainVars
<1>2. /\ \A c : Past(c)' <=> Past(c)
      /\ \A d : Has(d)' <=> Has(d)
      /\ Here' = Here
      /\ StopAboveCloses' <=> StopAboveCloses
  BY <1>1 DEF Past, Has, Here, StopAboveCloses
<1>3. TypeOK'
  BY <1>1 DEF IInv, TypeOK, WorkerStep
<1>4. SchedInv'
  BY <1>2 DEF IInv, SchedInv, WorkerStep
<1>5. CloseInv'
  <2>1. Closed' <=> Closed
    BY DEF WorkerStep
  <2>2. Has("snmpClient.Stop")' <=> Has("snmpClient.Stop")
    BY <1>2
  <2>3. Closed => Here = "return" /\ ~Has("snmpClient.Stop")
    BY DEF IInv, CloseInv
  <2> QED
    BY <1>2, <2>1, <2>2, <2>3, Zenon DEF CloseInv
<1>6. RequestInv'
  BY <1>1, <1>2 DEF IInv, RequestInv, WorkerStep, Drained
<1>7. ClientInv'
  <2>1. /\ Past("SetGlobalSNMPClient") => client
        /\ mode = "full" /\ serve # "none" => client
    BY DEF IInv, ClientInv
  <2>2. client' = client
    BY DEF WorkerStep
  <2>3. ASSUME NEW q \in Requests, answer'[q] = "500 no client" PROVE mode = "rest"
    <3>1. CASE answer[q] = "500 no client"
      BY <3>1, ProgramFacts DEF IInv, TypeOK, ClientInv, SnmpOnlyInServfull
    <3>2. CASE ~client /\ worker[q] # "idle"
      <4>1. serve # "none"
        BY <3>2 DEF IInv, RequestInv
      <4>2. mode \in {"full", "rest"}
        BY ProgramFacts DEF IInv, TypeOK
      <4> QED
        BY <2>1, <3>2, <4>1, <4>2
    <3> QED
      BY <2>3, <3>1, <3>2 DEF WorkerStep
  <2>4. Past("SetGlobalSNMPClient")' <=> Past("SetGlobalSNMPClient")
    BY <1>2
  <2>5. ASSUME NEW q \in Requests, answer'[q] \in Served PROVE mode = "full"
    <3>1. CASE answer[q] \in Served
      BY <3>1 DEF IInv, ClientInv, SnmpOnlyInServfull, Served
    <3>2. CASE InSinks(q) \/ client
      BY <3>2 DEF IInv, ClientInv
    <3> QED
      BY <2>5, <3>1, <3>2 DEF WorkerStep
  <2>6. SnmpOnlyInServfull'
    BY <1>1, <2>3, <2>5 DEF SnmpOnlyInServfull, Served
  <2>6a. ASSUME NEW q \in Requests, InSinks(q)' PROVE client'
    <3>1. InSinks(q) \/ client
      BY <2>6a DEF WorkerStep
    <3>2. InSinks(q) => client
      BY DEF IInv, ClientInv
    <3> QED
      BY <2>2, <3>1, <3>2
  <2>7. client => mode = "full"
    BY DEF IInv, ClientInv
  <2> QED
    BY <1>1, <2>1, <2>2, <2>4, <2>6, <2>6a, <2>7, Zenon DEF ClientInv
<1> QED
  BY <1>3, <1>4, <1>5, <1>6, <1>7 DEF IInv

(* The steps of module SnmpClient are such steps.                           *)
LEMMA WorkerNames ==
  /\ "sched" \in Workers /\ "trap" \in Workers /\ "sched" \notin Requests /\ "trap" \notin Requests
  /\ Requests \subseteq Workers /\ \A w \in Workers : w = "sched" \/ w = "trap" \/ w \in Requests
BY SnmpAssumption DEF Workers

LEMMA GotoFacts ==
  ASSUME DOMAIN worker = Workers, NEW w \in Workers, NEW pc, Goto(w, pc)
  PROVE  /\ DOMAIN worker' = Workers /\ worker'[w] = pc
         /\ \A v \in Workers \ {w} : worker'[v] = worker[v]
BY DEF Goto

LEMMA SinkStep ==
  ASSUME IInv, UNCHANGED mainVars, NEW w \in Workers, Publish(w) \/ Save(w)
  PROVE  WorkerStep
<1> USE WorkerNames, SnmpAssumption
<1>1. SnmpTypeOK /\ (worker["sched"] \in {"publish", "save"} => target <= NumTargets)
  BY DEF IInv, TypeOK, SchedInv
<1>2. CASE Publish(w)
  <2>1. /\ worker[w] = "publish" /\ DOMAIN worker' = Workers /\ worker'[w] = "save"
        /\ \A v \in Workers \ {w} : worker'[v] = worker[v]
        /\ UNCHANGED <<target, tick, stop, listener, client, answer, kafka, db>>
    BY <1>1, <1>2, GotoFacts DEF Publish, SnmpTypeOK, sinks
  <2>2. SnmpTypeOK'
    BY <1>1, <2>1 DEF SnmpTypeOK
  <2> QED
    BY <1>1, <2>1, <2>2 DEF WorkerStep, Active, Closed, InSinks, Served
<1>3. CASE Save(w)
  <2> DEFINE pc == CASE w = "sched" -> "walk" [] w = "trap" -> "idle" [] OTHER -> "done"
  <2>1. /\ worker[w] = "save" /\ DOMAIN worker' = Workers /\ worker'[w] = pc
        /\ \A v \in Workers \ {w} : worker'[v] = worker[v]
        /\ target' = (IF w = "sched" THEN target + 1 ELSE target)
        /\ answer' = (IF w \in Requests THEN [answer EXCEPT ![w] = "200"] ELSE answer)
        /\ UNCHANGED <<tick, stop, listener, client, kafka, db>>
    BY <1>1, <1>3, GotoFacts DEF Save, SnmpTypeOK, sinks
  <2>2. /\ w = "sched" => pc = "walk"
        /\ w = "trap" => pc = "idle"
        /\ w \in Requests => pc = "done"
    OBVIOUS
  <2> HIDE DEF pc
  <2>3. target' \in 1..(NumTargets + 1)
    <3>1. target \in 1..(NumTargets + 1) /\ (w = "sched" => target <= NumTargets) /\ NumTargets \in Nat
      BY <1>1, <2>1 DEF SnmpTypeOK
    <3> QED
      BY <2>1, <3>1
  <2>4. answer' \in [Requests -> {"none", "200", "400", "500 agent", "500 no client", "plain"}]
    BY <1>1, <2>1 DEF SnmpTypeOK
  <2>5. /\ worker'["sched"] \in {"none", "select", "walk", "publish", "save", "returned"}
        /\ worker'["trap"] \in {"idle", "publish", "save"}
        /\ \A q \in Requests : worker'[q] \in {"idle", "handle", "publish", "save", "done"}
    BY <1>1, <2>1, <2>2 DEF SnmpTypeOK
  <2>6. SnmpTypeOK'
    BY <1>1, <2>1, <2>3, <2>4, <2>5 DEF SnmpTypeOK
  <2>7. /\ worker'["sched"] \in {"publish", "save"} => target' <= NumTargets
        /\ worker["sched"] \in {"none", "returned"} => worker'["sched"] \in {"none", "returned"}
    BY <1>1, <2>1, <2>2
  <2>8. \A q \in Requests : /\ worker[q] = "idle" <=> worker'[q] = "idle"
                            /\ ~Active(q) => ~Active(q)'
    BY <2>1, <2>2 DEF Active
  <2>9. \A q \in Requests : answer'[q] = "500 no client" => answer[q] = "500 no client"
    BY <1>1, <2>1 DEF SnmpTypeOK
  <2>10. UNCHANGED <<client, kafka, db>>
    BY <2>1
  <2>11. ASSUME NEW q \in Requests
         PROVE  /\ InSinks(q)' => InSinks(q)
                /\ answer'[q] \in Served => answer[q] \in Served \/ InSinks(q)
    <3>1. CASE q = w
      BY <2>1, <2>2, <3>1 DEF InSinks
    <3>2. CASE q # w
      <4>1. worker'[q] = worker[q] /\ answer'[q] = answer[q]
        BY <1>1, <2>1, <3>2 DEF SnmpTypeOK
      <4> QED
        BY <4>1 DEF InSinks
    <3> QED
      BY <3>1, <3>2
  <2> QED
    BY <2>6, <2>7, <2>8, <2>9, <2>10, <2>11 DEF WorkerStep, Closed
<1> QED
  BY <1>2, <1>3

(* SnmpTypeOK speaks of the workers and of the rest; most steps leave the   *)
(* workers alone and touch one field of the rest, or the other way round.   *)
WorkersTyped ==
  /\ DOMAIN worker = Workers
  /\ worker["sched"] \in {"none", "select", "walk", "publish", "save", "returned"}
  /\ worker["trap"] \in {"idle", "publish", "save"}
  /\ \A q \in Requests : worker[q] \in {"idle", "handle", "publish", "save", "done"}

FieldsTyped ==
  /\ target \in 1..(NumTargets + 1)
  /\ tick \in BOOLEAN /\ stop \in BOOLEAN /\ client \in BOOLEAN /\ db \in BOOLEAN
  /\ listener \in {"nil", "starting", "listening", "failed", "closed"}
  /\ answer \in [Requests -> {"none", "200", "400", "500 agent", "500 no client", "plain"}]
  /\ kafka \in {"room", "full", "closed"}

LEMMA SnmpTypes == SnmpTypeOK <=> WorkersTyped /\ FieldsTyped
  BY DEF SnmpTypeOK, WorkersTyped, FieldsTyped

LEMMA SnmpTypesNext == SnmpTypeOK' <=> WorkersTyped' /\ FieldsTyped'
  BY DEF SnmpTypeOK, WorkersTyped, FieldsTyped

LEMMA FieldsKeptTyped ==
  ASSUME SnmpTypeOK, target' = target, answer' = answer,
         tick' = tick \/ tick' = TRUE, stop' = stop \/ stop' = TRUE,
         client' = client \/ client' = TRUE, db' = db \/ db' = FALSE,
         listener' \in {listener, "nil", "starting", "listening", "failed", "closed"},
         kafka' \in {kafka, "room", "full", "closed"}
  PROVE  FieldsTyped'
<1>1. FieldsTyped
  BY SnmpTypes
<1>2. target' \in 1..(NumTargets + 1)
  BY <1>1 DEF FieldsTyped
<1>3. answer' \in [Requests -> {"none", "200", "400", "500 agent", "500 no client", "plain"}]
  BY <1>1 DEF FieldsTyped
<1>4. tick' \in BOOLEAN /\ stop' \in BOOLEAN
  BY <1>1 DEF FieldsTyped
<1>5. client' \in BOOLEAN /\ db' \in BOOLEAN
  BY <1>1 DEF FieldsTyped
<1>6. /\ listener' \in {"nil", "starting", "listening", "failed", "closed"}
      /\ kafka' \in {"room", "full", "closed"}
  BY <1>1 DEF FieldsTyped
<1> QED
  BY <1>2, <1>3, <1>4, <1>5, <1>6 DEF FieldsTyped

LEMMA SnmpTypesKept ==
  ASSUME SnmpTypeOK, worker' = worker, target' = target, answer' = answer,
         tick' = tick \/ tick' = TRUE, stop' = stop \/ stop' = TRUE,
         client' = client \/ client' = TRUE, db' = db \/ db' = FALSE,
         listener' \in {listener, "nil", "starting", "listening", "failed", "closed"},
         kafka' \in {kafka, "room", "full", "closed"}
  PROVE  SnmpTypeOK'
<1>1. WorkersTyped'
  <2>1. WorkersTyped
    BY SnmpTypes
  <2> QED
    BY <2>1 DEF WorkersTyped
<1>2. FieldsTyped'
  BY FieldsKeptTyped
<1> QED
  BY <1>1, <1>2, SnmpTypesNext

LEMMA SchedulerStep ==
  ASSUME IInv, UNCHANGED mainVars, TakeTick \/ WalkV3 \/ TakeStop \/ Tick
  PROVE  WorkerStep
<1> USE WorkerNames, SnmpAssumption
<1>1. SnmpTypeOK /\ (worker["sched"] \in {"publish", "save"} => target <= NumTargets)
  BY DEF IInv, TypeOK, SchedInv
<1>2. CASE Tick
  <2>1. SnmpTypeOK'
    BY <1>1, <1>2, SnmpTypesKept DEF Tick, sinks
  <2> QED
    BY <1>1, <1>2, <2>1 DEF Tick, sinks, WorkerStep, Active, Closed, InSinks, Served
<1>3. ASSUME NEW pc \in {"walk", "publish", "select", "returned"}, Goto("sched", pc),
             worker["sched"] \in {"select", "walk"}, target' \in 1..(NumTargets + 1),
             pc = "publish" => target' <= NumTargets, tick' \in BOOLEAN,
             UNCHANGED <<stop, listener, client, answer, kafka, db>>
      PROVE  WorkerStep
  <2>1. /\ DOMAIN worker' = Workers /\ worker'["sched"] = pc
        /\ \A v \in Workers \ {"sched"} : worker'[v] = worker[v]
    BY <1>1, <1>3, GotoFacts DEF SnmpTypeOK
  <2>2. SnmpTypeOK'
    BY <1>1, <1>3, <2>1 DEF SnmpTypeOK
  <2> QED
    BY <1>1, <1>3, <2>1, <2>2 DEF WorkerStep, Active, Closed, InSinks, Served
<1>4. CASE TakeTick
  <2>1. 1 \in 1..(NumTargets + 1)
    OBVIOUS
  <2>2. /\ worker["sched"] = "select" /\ Goto("sched", "walk") /\ tick' = FALSE /\ target' = 1
        /\ UNCHANGED <<stop, listener, client, answer, kafka, db>>
    BY <1>4 DEF TakeTick, sinks
  <2> QED
    BY <1>3, <2>1, <2>2
<1>5. CASE TakeStop
  BY <1>1, <1>3, <1>5 DEF TakeStop, AfterStop, sinks, SnmpTypeOK
<1>6. CASE WalkV3
  <2>1. target \in 1..(NumTargets + 1) /\ worker["sched"] = "walk" /\ tick' \in BOOLEAN
        /\ UNCHANGED <<stop, listener, client, answer, kafka, db>>
    BY <1>1, <1>6 DEF WalkV3, sinks, SnmpTypeOK
  <2>2. CASE MoreTargets /\ Goto("sched", "publish") /\ UNCHANGED target
    BY <1>3, <2>1, <2>2 DEF MoreTargets
  <2>3. CASE MoreTargets /\ target' = target + 1 /\ UNCHANGED worker
    <3>1. target' \in 1..(NumTargets + 1)
      BY <2>1, <2>3 DEF MoreTargets
    <3>2. SnmpTypeOK'
      BY <1>1, <2>1, <2>3, <3>1 DEF SnmpTypeOK
    <3> QED
      BY <2>1, <2>3, <3>2 DEF WorkerStep, Active, Closed, InSinks, Served
  <2>4. CASE Goto("sched", "select") /\ UNCHANGED target
    BY <1>3, <2>1, <2>4
  <2> QED
    BY <1>6, <2>2, <2>3, <2>4 DEF WalkV3
<1> QED
  BY <1>2, <1>4, <1>5, <1>6

LEMMA TrapStep ==
  ASSUME IInv, UNCHANGED mainVars, Listen \/ handleTrap \/ BufferFills
  PROVE  WorkerStep
<1> USE WorkerNames, SnmpAssumption
<1>1. SnmpTypeOK /\ (worker["sched"] \in {"publish", "save"} => target <= NumTargets)
  BY DEF IInv, TypeOK, SchedInv
<1>2. CASE Listen
  <2>1. SnmpTypeOK'
    BY <1>1, <1>2, SnmpTypesKept DEF Listen, sinks
  <2> QED
    BY <1>1, <1>2, <2>1 DEF Listen, sinks, WorkerStep, Active, Closed, InSinks, Served
<1>3. CASE BufferFills
  <2>1. SnmpTypeOK'
    BY <1>1, <1>3, SnmpTypesKept DEF BufferFills, snmp
  <2> QED
    BY <1>1, <1>3, <2>1 DEF BufferFills, snmp, WorkerStep, Active, Closed, InSinks, Served
<1>4. CASE handleTrap
  <2>1. /\ DOMAIN worker' = Workers /\ worker'["trap"] = "publish"
        /\ \A v \in Workers \ {"trap"} : worker'[v] = worker[v]
        /\ UNCHANGED <<target, tick, stop, listener, client, answer, kafka, db>>
    BY <1>1, <1>4, GotoFacts DEF handleTrap, SnmpTypeOK, sinks
  <2>2. SnmpTypeOK'
    BY <1>1, <2>1 DEF SnmpTypeOK
  <2> QED
    BY <1>1, <2>1, <2>2 DEF WorkerStep, Active, Closed, InSinks, Served
<1> QED
  BY <1>2, <1>3, <1>4

LEMMA HandleStep ==
  ASSUME IInv, UNCHANGED mainVars, NEW q \in Requests, HandleSNMPRequest(q)
  PROVE  WorkerStep
<1> USE WorkerNames, SnmpAssumption
<1>1. SnmpTypeOK /\ (worker["sched"] \in {"publish", "save"} => target <= NumTargets)
  BY DEF IInv, TypeOK, SchedInv
<1>2. worker[q] = "handle" /\ UNCHANGED <<target, tick, stop, listener, client, kafka, db>>
  BY DEF HandleSNMPRequest, sinks
<1>3. ASSUME NEW pc \in {"publish", "done"}, Goto(q, pc),
             answer' \in [Requests -> {"none", "200", "400", "500 agent", "500 no client", "plain"}],
             \A p \in Requests : answer'[p] = "500 no client" =>
               answer[p] = "500 no client" \/ (~client /\ p = q),
             pc = "publish" => client,
             \A p \in Requests : answer'[p] \in Served => answer[p] \in Served \/ client
      PROVE  WorkerStep
  <2>1. /\ DOMAIN worker' = Workers /\ worker'[q] = pc
        /\ \A v \in Workers \ {q} : worker'[v] = worker[v]
    BY <1>1, <1>3, GotoFacts DEF SnmpTypeOK
  <2>2. SnmpTypeOK'
    BY <1>1, <1>2, <1>3, <2>1 DEF SnmpTypeOK
  <2>3. ASSUME NEW p \in Requests, InSinks(p)' PROVE InSinks(p) \/ client
    BY <1>3, <2>1, <2>3 DEF InSinks
  <2> QED
    BY <1>1, <1>2, <1>3, <2>1, <2>2, <2>3 DEF WorkerStep, Active, Closed
<1>4. CASE client /\ Goto(q, "publish") /\ UNCHANGED answer
  BY <1>1, <1>3, <1>4 DEF SnmpTypeOK
<1>5. ASSUME NEW a \in Refusal(q), answer' = [answer EXCEPT ![q] = a], Goto(q, "done")
      PROVE  WorkerStep
  <2>1. /\ a \in {"400", "500 agent", "500 no client"}
        /\ a = "500 no client" => ~client
        /\ a \in Served => client
    BY <1>5 DEF Refusal, Served
  <2>2. answer \in [Requests -> {"none", "200", "400", "500 agent", "500 no client", "plain"}]
    BY <1>1 DEF SnmpTypeOK
  <2>3. \A p \in Requests : answer'[p] \in Served => answer[p] \in Served \/ client
    BY <1>5, <2>1, <2>2
  <2>4. /\ answer' \in [Requests -> {"none", "200", "400", "500 agent", "500 no client", "plain"}]
        /\ \A p \in Requests : answer'[p] = "500 no client" =>
             answer[p] = "500 no client" \/ (~client /\ p = q)
    BY <1>5, <2>1, <2>2
  <2> QED
    BY <1>3, <1>5, <2>3, <2>4
<1> QED
  BY <1>4, <1>5 DEF HandleSNMPRequest

LEMMA WorkersStep ==
  ASSUME IInv, UNCHANGED mainVars,
         Scheduler \/ TakeStop \/ Tick \/ Trap \/ BufferFills \/ \E q \in Requests : Get(q)
  PROVE  IInv'
<1>1. WorkerStep
  BY SinkStep, SchedulerStep, TrapStep, HandleStep, WorkerNames DEF Scheduler, Trap, Get
<1> QED
  BY <1>1, WorkerStepKeeps

----------------------------------------------------------------------------
(* main and net/http.                                                       *)

(* What stays true of main while it stands still.                           *)
LEMMA StandsStill ==
  ASSUME UNCHANGED <<mode, at, defers, panicking>>
  PROVE  /\ Here' = Here
         /\ \A c : Past(c)' <=> Past(c)
         /\ \A d : Has(d)' <=> Has(d)
         /\ StopAboveCloses' <=> StopAboveCloses
BY DEF Past, Has, Here, StopAboveCloses

(* The process ends, a signal comes, server.Start gets on.                  *)
LEMMA OutsideStep ==
  ASSUME IInv, CallFails \/ Signal \/ ReloadPanics \/ Serve \/ Return
  PROVE  IInv'
<1>1. UNCHANGED <<snmp, sinks, mode, at, defers, notified, draining, late, panicking>>
  BY DEF CallFails, Signal, ReloadPanics, Serve, StartListening, StartFails, Return
<1>2. /\ ended' \in {"no", "fatal", "killed", "panic", "exit"} /\ asked' \in BOOLEAN
      /\ serve' \in {"none", "starting", "serving", "failed"} /\ (serve # "none" <=> serve' # "none")
  BY DEF IInv, TypeOK, CallFails, Signal, ReloadPanics, Serve, StartListening, ListenAndServe, StartFails, Return
<1>3. /\ Here' = Here
      /\ \A c : Past(c)' <=> Past(c)
      /\ \A d : Has(d)' <=> Has(d)
      /\ StopAboveCloses' <=> StopAboveCloses
  BY <1>1, StandsStill
<1>4. UNCHANGED <<worker, target, tick, stop, listener, client, answer, kafka, db>>
  BY <1>1 DEF snmp, sinks
<1>5. TypeOK'
  <2>1. SnmpTypeOK'
    BY <1>4, SnmpTypesKept DEF IInv, TypeOK
  <2> QED
    BY <1>1, <1>2, <2>1 DEF IInv, TypeOK
<1>6. SchedInv'
  BY <1>3, <1>4 DEF IInv, SchedInv
<1>7. CloseInv'
  <2>1. Closed' <=> Closed
    BY <1>4 DEF Closed
  <2> QED
    BY <1>3, <2>1 DEF IInv, CloseInv
<1>8. RequestInv'
  <2>1. Drained' <=> Drained
    BY <1>4 DEF Drained, Active
  <2> QED
    BY <1>1, <1>2, <1>3, <1>4, <2>1 DEF IInv, RequestInv
<1>9. ClientInv'
  BY <1>1, <1>2, <1>3, <1>4, ClientKept DEF IInv, InSinks, Served
<1> QED
  BY <1>5, <1>6, <1>7, <1>8, <1>9 DEF IInv

(* A request arrives.                                                       *)
LEMMA ArriveStep ==
  ASSUME IInv, NEW q \in Requests, Arrive(q)
  PROVE  IInv'
<1> USE WorkerNames
<1>1. /\ serve = "serving" /\ ~draining /\ worker[q] = "idle"
      /\ UNCHANGED <<target, tick, stop, listener, client, kafka, db>>
      /\ UNCHANGED <<mode, at, defers, asked, notified, serve, draining, late, panicking, ended>>
  BY DEF Arrive, sinks, mainVars
<1>2. SnmpTypeOK
  BY DEF IInv, TypeOK
<1>3. PICK pc \in {"handle", "done"} : Goto(q, pc)
  BY DEF Arrive
<1>4. /\ DOMAIN worker' = Workers /\ worker'[q] = pc
      /\ \A v \in Workers \ {q} : worker'[v] = worker[v]
  BY <1>2, <1>3, GotoFacts DEF SnmpTypeOK
<1>5. /\ answer' \in [Requests -> {"none", "200", "400", "500 agent", "500 no client", "plain"}]
      /\ \A p \in Requests : answer'[p] \in Served \union {"500 no client"} => answer'[p] = answer[p]
  BY <1>2 DEF Arrive, SnmpTypeOK, Served
<1>6. /\ Here' = Here
      /\ \A c : Past(c)' <=> Past(c)
      /\ \A d : Has(d)' <=> Has(d)
      /\ StopAboveCloses' <=> StopAboveCloses
  BY <1>1, StandsStill
<1>7. TypeOK'
  <2>1. SnmpTypeOK'
    <3>1. WorkersTyped /\ FieldsTyped
      BY <1>2, SnmpTypes
    <3>2. WorkersTyped'
      BY <1>4, <3>1 DEF WorkersTyped
    <3>3. FieldsTyped'
      BY <1>1, <1>5, <3>1 DEF FieldsTyped
    <3> QED
      BY <3>2, <3>3, SnmpTypesNext
  <2> QED
    BY <1>1, <2>1 DEF IInv, TypeOK
<1>8. SchedInv'
  BY <1>1, <1>4, <1>6 DEF IInv, SchedInv
<1>9. CloseInv'
  <2>1. Closed' <=> Closed
    BY <1>1 DEF Closed
  <2> QED
    BY <1>6, <2>1 DEF IInv, CloseInv
<1>10. RequestInv'
  BY <1>1, <1>4, <1>6 DEF IInv, RequestInv
<1>11. ClientInv'
  <2>1. \A p \in Requests : InSinks(p)' => InSinks(p)
    BY <1>3, <1>4 DEF InSinks
  <2> QED
    BY <1>1, <1>5, <1>6, <2>1, ClientKept DEF IInv
<1> QED
  BY <1>7, <1>8, <1>9, <1>10, <1>11 DEF IInv

(* main goes on to the next call.                                           *)
LEMMA NothingClosedYet ==
  ASSUME IInv, Here # "return", UNCHANGED <<kafka, db>>
  PROVE  CloseInv'
BY DEF IInv, CloseInv, Closed

LEMMA CallStep ==
  ASSUME IInv, Call
  PROVE  IInv'
<1> USE WorkerNames, SnmpAssumption
<1>1. TypeOK /\ SnmpTypeOK /\ SchedInv /\ RequestInv /\ ClientInv
  BY DEF IInv, TypeOK
<1>2. Here # "return" /\ Here # "Shutdown" /\ Here # "drain"
  BY DEF Call, Fallible
<1>2a. ~panicking
  BY <1>2 DEF Here
<1>3. /\ Advance /\ notified' \in BOOLEAN
      /\ serve' = (IF Here = "go server.Start" THEN "starting" ELSE serve)
      /\ UNCHANGED <<mode, asked, draining, late, panicking, ended>>
  BY DEF Call, GoServerStart, IInv, TypeOK
<1>4. /\ at' \in 1..Len(Program[mode]) /\ defers' \in Seq(Defs)
      /\ \A c : Past(c)' <=> Past(c) \/ Here = c
      /\ Has("snmpClient.Stop")' <=> Has("snmpClient.Stop") \/ Here = "StartWalkScheduler"
      /\ StopAboveCloses'
  BY <1>1, <1>2, <1>3, AdvanceFacts DEF SchedInv
<1>5. /\ SnmpTypeOK' /\ UNCHANGED <<target, answer, kafka, db>>
      /\ \A q \in Requests : worker'[q] = worker[q]
      /\ \/ worker'["sched"] = worker["sched"]
         \/ Here = "StartWalkScheduler" /\ worker'["sched"] \in {"none", "select"}
      /\ client' = (client \/ Here = "SetGlobalSNMPClient")
  <2>1. CASE Here = "StartWalkScheduler" /\ StartWalkScheduler
    <3>1. PICK pc \in {"select", "none"} : Goto("sched", pc)
      BY <2>1 DEF StartWalkScheduler
    <3>2. /\ DOMAIN worker' = Workers /\ worker'["sched"] = pc
          /\ \A v \in Workers \ {"sched"} : worker'[v] = worker[v]
      BY <1>1, <3>1, GotoFacts DEF SnmpTypeOK
    <3>3. UNCHANGED <<target, tick, stop, listener, client, answer, kafka, db>>
      BY <2>1 DEF StartWalkScheduler, sinks
    <3>4. SnmpTypeOK'
      <4>1. WorkersTyped
        BY <1>1, SnmpTypes
      <4>2. WorkersTyped'
        BY <3>2, <4>1 DEF WorkersTyped
      <4>3. FieldsTyped'
        BY <1>1, <3>3, FieldsKeptTyped
      <4> QED
        BY <4>2, <4>3, SnmpTypesNext
    <3> QED
      BY <1>1, <2>1, <3>2, <3>3, <3>4 DEF SnmpTypeOK
  <2>2. CASE Here = "trapServer.Start" /\ TrapStart
    <3>1. SnmpTypeOK'
      <4>1. /\ UNCHANGED <<worker, target, tick, stop, client, answer, kafka, db>>
            /\ listener' \in {listener, "nil", "starting", "listening", "failed", "closed"}
        BY <2>2 DEF TrapStart, sinks
      <4> QED
        BY <1>1, <4>1, SnmpTypesKept
    <3> QED
      BY <1>1, <2>2, <3>1 DEF TrapStart, sinks, SnmpTypeOK
  <2>3. CASE Here = "SetGlobalSNMPClient" /\ SetGlobalSNMPClient
    <3>1. SnmpTypeOK'
      BY <1>1, <2>3, SnmpTypesKept DEF SetGlobalSNMPClient, sinks
    <3> QED
      BY <1>1, <2>3, <3>1 DEF SetGlobalSNMPClient, sinks, SnmpTypeOK
  <2>4. CASE Here \in Fallible \union {"signal.Notify", "go server.Start"} /\ UNCHANGED <<snmp, sinks>>
    <3>1. SnmpTypeOK'
      BY <1>1, <2>4, SnmpTypesKept DEF snmp, sinks
    <3>2. Here # "SetGlobalSNMPClient"
      BY <2>4 DEF Fallible
    <3> QED
      BY <1>1, <2>4, <3>1, <3>2 DEF snmp, sinks, SnmpTypeOK
  <2> QED
    BY <2>1, <2>2, <2>3, <2>4 DEF Call
<1>6. TypeOK'
  <2>1. defers' \in Seq({Deferred[c] : c \in DOMAIN Deferred})
    BY <1>4 DEF Defs
  <2>2. serve' \in {"none", "starting", "serving", "failed"}
    BY <1>1, <1>3 DEF TypeOK
  <2> QED
    BY <1>1, <1>3, <1>4, <1>5, <2>1, <2>2 DEF TypeOK
<1>7. SchedInv'
  BY <1>1, <1>4, <1>5 DEF SchedInv
<1>8. CloseInv'
  BY <1>2, <1>5, NothingClosedYet
<1>9. RequestInv'
  <2>1. Drained' <=> Drained
    BY <1>5 DEF Drained, Active
  <2> QED
    BY <1>1, <1>2, <1>2a, <1>3, <1>4, <1>5, <2>1 DEF RequestInv
<1>10. ClientInv'
  <2>1. /\ Here = "go server.Start" /\ mode = "full" => client
        /\ Here = "SetGlobalSNMPClient" => mode = "full"
    BY <1>1, ProgramOrder DEF ClientInv
  <2>2. SnmpOnlyInServfull'
    BY <1>1, <1>3, <1>5 DEF ClientInv, SnmpOnlyInServfull
  <2>3. client \in BOOLEAN
    BY <1>1 DEF SnmpTypeOK
  <2>4. /\ client => client'
        /\ Here = "SetGlobalSNMPClient" => client'
        /\ client' => mode' = "full"
    BY <1>1, <1>3, <1>5, <2>1, <2>3 DEF ClientInv
  <2>5. Past("SetGlobalSNMPClient")' => client'
    BY <1>1, <1>4, <2>4 DEF ClientInv
  <2>6. mode' = "full" /\ serve' # "none" => client'
    BY <1>1, <1>3, <2>1, <2>4 DEF ClientInv
  <2>7. \A q \in Requests : InSinks(q)' => client'
    BY <1>1, <1>5, <2>4 DEF ClientInv, InSinks
  <2> QED
    BY <2>2, <2>4, <2>5, <2>6, <2>7, Zenon DEF ClientInv
<1> QED
  BY <1>6, <1>7, <1>8, <1>9, <1>10 DEF IInv

(* The signal, Shutdown, and its return.                                    *)
LEMMA ShutdownStep ==
  ASSUME IInv, TakeSignal \/ Shutdown \/ ShutdownReturns
  PROVE  IInv'
<1>1. TypeOK /\ SchedInv /\ RequestInv /\ ClientInv
  BY DEF IInv
<1>2. /\ Here \in {"<-sigChan", "Shutdown", "drain"} /\ Advance
      /\ UNCHANGED <<snmp, sinks, mode, asked, notified, serve, panicking, ended>>
      /\ draining' = (draining \/ Here = "Shutdown")
      /\ late' = late \/ (late' = TRUE /\ Here = "drain")
      /\ Here = "drain" => late' \/ Drained
  BY <1>1 DEF TakeSignal, Shutdown, ShutdownReturns, TypeOK
<1>3. /\ at' \in 1..Len(Program[mode]) /\ defers' \in Seq(Defs)
      /\ \A c : Past(c)' <=> Past(c) \/ Here = c
      /\ Has("snmpClient.Stop")' <=> Has("snmpClient.Stop")
      /\ StopAboveCloses'
  BY <1>1, <1>2, AdvanceFacts DEF SchedInv
<1>4. UNCHANGED <<worker, target, tick, stop, listener, client, answer, kafka, db>>
  BY <1>2 DEF snmp, sinks
<1>5. TypeOK'
  <2>1. defers' \in Seq({Deferred[c] : c \in DOMAIN Deferred})
    BY <1>3 DEF Defs
  <2>2. SnmpTypeOK'
    BY <1>1, <1>4, SnmpTypesKept DEF TypeOK
  <2>3. {asked', notified', draining', late'} \subseteq BOOLEAN
    BY <1>1, <1>2 DEF TypeOK
  <2> QED
    BY <1>1, <1>2, <1>3, <2>1, <2>2, <2>3 DEF TypeOK
<1>6. SchedInv'
  BY <1>1, <1>3, <1>4 DEF SchedInv
<1>7. CloseInv'
  BY <1>2, <1>4, NothingClosedYet
<1>8. RequestInv'
  <2>1. Drained' <=> Drained
    BY <1>4 DEF Drained, Active
  <2>2. Here = "drain" => draining
    BY <1>1, ProgramOrder DEF RequestInv
  <2>3. Past("drain")' => draining' /\ (late' \/ Drained')
    <3>1. draining \in BOOLEAN /\ late \in BOOLEAN
      BY <1>1 DEF TypeOK
    <3>1a. draining => draining'
      BY <1>2, <3>1
    <3>1b. late => late'
      BY <1>2, <3>1
    <3>2. CASE Past("drain")
      BY <1>1, <2>1, <3>1a, <3>1b, <3>2 DEF RequestInv
    <3>3. CASE Here = "drain"
      BY <1>2, <2>1, <2>2, <3>1a, <3>3
    <3> QED
      BY <1>3, <3>2, <3>3
  <2>4. ~panicking
    BY <1>2 DEF Here
  <2> QED
    BY <1>1, <1>2, <1>3, <1>4, <2>3, <2>4 DEF RequestInv
<1>9. ClientInv'
  BY <1>1, <1>2, <1>3, <1>4, ClientKept DEF InSinks, Served
<1> QED
  BY <1>5, <1>6, <1>7, <1>8, <1>9 DEF IInv

(* coapServer.Stop returns, or panics: main has not come to Shutdown yet.   *)
LEMMA CoapStopStep ==
  ASSUME IInv, CoapStop
  PROVE  IInv'
<1>1. TypeOK /\ SnmpTypeOK /\ SchedInv /\ RequestInv /\ ClientInv
  BY DEF IInv, TypeOK
<1>2. /\ Here = "coapServer.Stop" /\ Here # "return"
      /\ UNCHANGED <<worker, target, tick, stop, listener, client, answer, kafka, db>>
      /\ UNCHANGED <<mode, asked, notified, serve, draining, late, ended>>
  BY DEF CoapStop, snmp, sinks
<1>3. SnmpTypeOK' /\ CloseInv'
  BY <1>1, <1>2, SnmpTypesKept, NothingClosedYet
<1>4. ~panicking /\ ~draining
  BY <1>1, <1>2, ProgramOrder DEF RequestInv
<1>5. Drained' <=> Drained
  BY <1>2 DEF Drained, Active
<1>6. /\ at' \in 1..Len(Program[mode]) /\ defers' \in Seq(Defs) /\ panicking' \in BOOLEAN
      /\ \A c : c # "coapServer.Stop" => (Past(c)' <=> Past(c))
      /\ Has("snmpClient.Stop")' <=> Has("snmpClient.Stop")
      /\ StopAboveCloses'
  <2>1. CASE Advance /\ UNCHANGED panicking
    <3>1. mode' = mode
      BY <1>2
    <3>2. StopAboveCloses /\ (Has("snmpClient.Stop") => Past("StartWalkScheduler"))
      BY <1>1 DEF SchedInv
    <3>3. /\ at' \in 1..Len(Program[mode]) /\ defers' \in Seq(Defs)
          /\ \A c : Past(c)' <=> Past(c) \/ Here = c
          /\ Has("snmpClient.Stop")' <=> Has("snmpClient.Stop") \/ Here = "StartWalkScheduler"
          /\ StopAboveCloses'
      BY <1>1, <1>2, <2>1, <3>1, <3>2, AdvanceFacts
    <3>4. panicking' \in BOOLEAN
      BY <1>1, <2>1 DEF TypeOK
    <3> QED
      BY <1>2, <3>3, <3>4
  <2>2. CASE panicking' = TRUE /\ UNCHANGED <<at, defers>>
    BY <1>1, <1>2, <2>2 DEF TypeOK, Defs, Past, Has, StopAboveCloses, SchedInv
  <2> QED
    BY <2>1, <2>2 DEF CoapStop
<1>7. TypeOK'
  <2>1. defers' \in Seq({Deferred[c] : c \in DOMAIN Deferred})
    BY <1>6 DEF Defs
  <2> QED
    BY <1>1, <1>2, <1>3, <1>6, <2>1 DEF TypeOK
<1>8. SchedInv'
  BY <1>1, <1>2, <1>6 DEF SchedInv
<1>9. RequestInv'
  BY <1>1, <1>2, <1>4, <1>5, <1>6 DEF RequestInv
<1>10. ClientInv'
  BY <1>1, <1>2, <1>6, ClientKept DEF InSinks, Served
<1> QED
  BY <1>3, <1>7, <1>8, <1>9, <1>10 DEF IInv

(* The deferred calls.                                                      *)
LEMMA SnmpStopClosesStep ==
  ASSUME IInv, SnmpStopCloses
  PROVE  IInv'
<1>1. UNCHANGED mainVars /\ UNCHANGED <<worker, target, tick, listener, client, answer, kafka, db>> /\ stop' = TRUE
  BY DEF SnmpStopCloses, CloseStop, sinks
<1>2. SnmpTypeOK'
  BY <1>1, SnmpTypesKept DEF IInv, TypeOK
<1>3. WorkerStep
  BY <1>1, <1>2 DEF WorkerStep, IInv, SchedInv, Active, Closed, InSinks, Served
<1> QED
  BY <1>3, WorkerStepKeeps

LEMMA RunDeferStep ==
  ASSUME IInv, RunDefer
  PROVE  IInv'
<1>1. TypeOK /\ SnmpTypeOK /\ SchedInv /\ CloseInv /\ RequestInv /\ ClientInv
  BY DEF IInv, TypeOK
<1>2. PICK d \in Defs : Deferring(d) /\ Finishes(d)
  BY DEF RunDefer, Defs
<1>3. /\ Here = "return" /\ defers # <<>> /\ Head(defers) = d /\ defers' = Tail(defers)
      /\ UNCHANGED <<mode, at, asked, notified, serve, draining, late, panicking, ended>>
  BY <1>2 DEF Deferring, RunDefer
<1>4. /\ Here' = Here
      /\ \A c : Past(c)' <=> Past(c)
  BY <1>3 DEF Here, Past
<1>5. /\ defers' \in Seq(Defs) /\ StopAboveCloses'
      /\ Has("snmpClient.Stop")' => Has("snmpClient.Stop")
      /\ d \in Closes => ~Has("snmpClient.Stop")
      /\ d # "snmpClient.Stop" /\ Has("snmpClient.Stop") => Has("snmpClient.Stop")'
  BY <1>1, <1>3, PopFacts DEF SchedInv
<1>6. /\ UNCHANGED <<worker, target, tick, stop, client, answer>>
      /\ listener' \in {listener, "nil", "closed"}
      /\ kafka' = kafka \/ (d = "publisher.Close" /\ kafka' = "closed")
      /\ db' = db \/ (d = "CloseDB" /\ db' = FALSE)
      /\ d = "snmpClient.Stop" => worker["sched"] \in {"none", "returned"}
  <2>1. CASE d = "snmpClient.Stop"
    BY <1>2, <2>1 DEF Finishes, WaitGroupIsZero, snmp, sinks
  <2>2. CASE d = "trapServer.Stop"
    BY <1>2, <2>2 DEF Finishes, TrapStop, sinks
  <2>3. CASE d = "publisher.Close"
    BY <1>2, <2>3 DEF Finishes, snmp
  <2>4. CASE d = "CloseDB"
    BY <1>2, <2>4 DEF Finishes, snmp
  <2>5. CASE d \notin {"snmpClient.Stop", "trapServer.Stop", "publisher.Close", "CloseDB"}
    BY <1>2, <2>5 DEF Finishes, snmp, sinks
  <2> QED
    BY <2>1, <2>2, <2>3, <2>4, <2>5
<1>7. TypeOK'
  <2>1. SnmpTypeOK'
    <3>1. listener' \in {"nil", "starting", "listening", "failed", "closed"}
      BY <1>1, <1>6 DEF SnmpTypeOK
    <3>2. kafka' \in {"room", "full", "closed"}
      BY <1>1, <1>6 DEF SnmpTypeOK
    <3>3. db' \in BOOLEAN
      BY <1>1, <1>6 DEF SnmpTypeOK
    <3> QED
      BY <1>1, <1>6, <3>1, <3>2, <3>3 DEF SnmpTypeOK
  <2>2. defers' \in Seq({Deferred[c] : c \in DOMAIN Deferred})
    BY <1>5 DEF Defs
  <2> QED
    BY <1>1, <1>3, <2>1, <2>2 DEF TypeOK
<1>8. SchedInv'
  BY <1>1, <1>4, <1>5, <1>6 DEF SchedInv
<1>9. CloseInv'
  <2>1. Closed' => Closed \/ d \in Closes
    BY <1>6 DEF Closed, Closes
  <2> QED
    BY <1>1, <1>3, <1>4, <1>5, <2>1 DEF CloseInv
<1>10. RequestInv'
  <2>1. Drained' <=> Drained
    BY <1>6 DEF Drained, Active
  <2> QED
    BY <1>1, <1>3, <1>4, <1>6, <2>1 DEF RequestInv
<1>11. ClientInv'
  BY <1>1, <1>3, <1>4, <1>6, ClientKept DEF InSinks, Served
<1> QED
  BY <1>7, <1>8, <1>9, <1>10, <1>11 DEF IInv

LEMMA LifecycleInductive ==
  ASSUME IInv, [Next]_vars
  PROVE  IInv'
<1>1. CASE Main
  BY <1>1, CallStep, CoapStopStep, ShutdownStep, SnmpStopClosesStep, RunDeferStep, OutsideStep DEF Main
<1>2. CASE CallFails \/ Signal \/ ReloadPanics \/ Serve
  BY <1>2, OutsideStep
<1>3. CASE \E q \in Requests : Arrive(q)
  BY <1>3, ArriveStep
<1>4. CASE /\ Scheduler \/ TakeStop \/ Tick \/ Trap \/ BufferFills \/ \E q \in Requests : Get(q)
           /\ UNCHANGED mainVars
  BY <1>4, WorkersStep
<1>5. CASE UNCHANGED vars
  <2>1. WorkerStep
    <3>1. UNCHANGED mainVars /\ UNCHANGED <<worker, target, tick, stop, listener, client, answer, kafka, db>>
      BY <1>5 DEF vars, snmp, sinks
    <3>2. SnmpTypeOK'
      BY <3>1, SnmpTypesKept DEF IInv, TypeOK
    <3> QED
      BY <3>1, <3>2 DEF WorkerStep, IInv, SchedInv, Active, Closed, InSinks, Served
  <2> QED
    BY <2>1, WorkerStepKeeps
<1> QED
  BY <1>1, <1>2, <1>3, <1>4, <1>5 DEF Next

(* IInv holds throughout.                                                   *)
THEOREM Invariance == Spec => []IInv
<1>1. IInv /\ [Next]_vars => IInv'
  BY LifecycleInductive
<1> QED
  BY <1>1, InitIInv, PTL DEF Spec

(* The type invariant, with IInv.                                           *)
THEOREM TypeCorrect == Spec => []TypeOK
<1>1. IInv => TypeOK
  BY DEF IInv
<1> QED
  BY <1>1, Invariance, PTL

(* Publisher and pool are closed only after the last walk, even if main     *)
(* panics, and, once Shutdown was called and did not give up, after the     *)
(* last request.                                                            *)
THEOREM SinksOutlive == Spec => []SinksCloseAfterWaits
<1>1. ASSUME IInv, Closed
      PROVE  ~InSinks("sched") /\ (draining /\ ~late => \A q \in Requests : ~InSinks(q))
  <2>1. Here = "return" /\ ~Has("snmpClient.Stop")
    BY <1>1 DEF IInv, CloseInv
  <2>2. worker["sched"] \in {"none", "returned"}
    BY <1>1, <2>1 DEF IInv, SchedInv
  <2>3. ~draining \/ late \/ Drained
    BY <1>1, <2>1, ProgramOrder DEF IInv, RequestInv
  <2> QED
    BY <2>2, <2>3 DEF InSinks, Drained, Active
<1>2. IInv => SinksCloseAfterWaits
  BY <1>1 DEF SinksCloseAfterWaits
<1> QED
  BY <1>2, Invariance, PTL

(* In servfull no request is told that the SNMP client is missing, and in   *)
(* servrest every SNMP request is.                                          *)
THEOREM ClientFound == Spec => []SnmpOnlyInServfull
<1>1. IInv => SnmpOnlyInServfull
  BY DEF IInv, ClientInv
<1> QED
  BY <1>1, Invariance, PTL
=============================================================================
