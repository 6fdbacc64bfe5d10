---------------------------- MODULE ServiceProofs ----------------------------
(***************************************************************************)
(* Proofs about Service, for every file of ports, every size of the pools  *)
(* and any number of messages and results: its types, that the threads     *)
(* find what start_udp_service made for them and it did not wait for it,   *)
(* that the switch is where the last message put it and is obeyed, and     *)
(* that the counters are exact.                                            *)
(***************************************************************************)
EXTENDS Service, TLAPS, SequenceTheorems

(* Arithmetic *)

LEMMA ModRange == \A a \in Int : \A n \in Nat \ {0} : a % n \in 0..(n - 1)
  OBVIOUS

LEMMA ModSmall == \A n \in Nat \ {0} : \A a \in 0..(n - 1) : a % n = a
  OBVIOUS

LEMMA ModNegative == \A n \in Nat \ {0, 1} : \A a \in 1..(n - 1) : (0 - a) % n = n - a
<1> TAKE n \in Nat \ {0, 1}
<1> TAKE a \in 1..(n - 1)
<1>1. n - a \in 0..(n - 1) /\ 0 - a = (n - a) + n * (-1)
  OBVIOUS
<1> QED BY <1>1, Z3

LEMMA PortRange == \A n \in Nat : CutTo16(n) \in 0..(PortMod - 1)
<1>1. PortMod \in Nat \ {0}
  BY DEF PortMod
<1> QED BY <1>1, ModRange DEF CutTo16

-------------------------------------------------------------------------------
(* Start-up, step by step *)

\* How often each step of Order is taken.
Rounds  == <<1, 1, 1, 3, 4, 5, 2, 1, 6, 1>>
RoundOK == main \in 1..10 /\ k \in 1..Rounds[main]

\* The place of each step.
LEMMA Places ==
  ASSUME main \in 1..10
  PROVE  /\ At("spi") <=> Running /\ main = 1
         /\ At("check") <=> Running /\ main = 2
         /\ At("inotify") <=> Running /\ main = 3
         /\ At("config") <=> Running /\ main = 4
         /\ At("sockets") <=> Running /\ main = 5
         /\ At("fifos") <=> Running /\ main = 6
         /\ At("pools") <=> Running /\ main = 7
         /\ At("terminals") <=> Running /\ main = 8
         /\ At("threads") <=> Running /\ main = 9
BY DEF At, Order

\* A step that is taken n times, and moves on.
LEMMA RoundKeeps ==
  ASSUME RoundOK, main < 10, NEW n, n = Rounds[main], Round(n)
  PROVE  /\ RoundOK'
         /\ \/ k < n /\ k' = k + 1 /\ main' = main
            \/ k = n /\ k' = 1 /\ main' = main + 1
<1>1. n \in 1..6 /\ main' \in 1..10
  BY DEF RoundOK, Rounds, Round
<1>2. \A i \in 1..10 : 1 <= Rounds[i]
  BY DEF Rounds
<1>3. CASE k < n
  BY <1>1, <1>3 DEF RoundOK, Round
<1>4. CASE ~(k < n)
  BY <1>1, <1>2, <1>4 DEF RoundOK, Round
<1> QED BY <1>3, <1>4

LEMMA StepRound == RoundOK /\ [Next]_vars => RoundOK'
<1> SUFFICES ASSUME RoundOK, [Next]_vars PROVE RoundOK'
  OBVIOUS
<1>1. CASE UNCHANGED <<main, k>>
  BY <1>1 DEF RoundOK
<1>2. CASE ReadSpiConf \/ StartServiceCheck \/ StartInotify \/ InitTerminalCluster
  <2>1. main \in {1, 2, 3, 8} /\ (Round(1) \/ UNCHANGED <<main, k>>)
    BY <1>2, Places DEF RoundOK, ReadSpiConf, StartServiceCheck, StartInotify,
       InitTerminalCluster, Step, StartFails
  <2>2. Rounds[main] = 1
    BY <2>1 DEF Rounds
  <2> QED BY <1>1, <2>1, <2>2, RoundKeeps
<1>3. CASE ConfigParam
  <2>1. main = 4 /\ (Round(3) \/ UNCHANGED <<main, k>>)
    BY <1>3, Places DEF RoundOK, ConfigParam, StartFails
  <2> QED BY <1>1, <2>1, RoundKeeps DEF Rounds
<1>4. CASE CreateSocket
  <2>1. main = 5 /\ (Round(4) \/ UNCHANGED <<main, k>>)
    BY <1>4, Places DEF RoundOK, CreateSocket, StartFails
  <2> QED BY <1>1, <2>1, RoundKeeps DEF Rounds
<1>5. CASE CreateFifo
  <2>1. main = 6 /\ (Round(5) \/ UNCHANGED <<main, k>>)
    BY <1>5, Places DEF RoundOK, CreateFifo, StartFails
  <2> QED BY <1>1, <2>1, RoundKeeps DEF Rounds
<1>6. CASE FeedBuffer
  <2>1. main = 7 /\ (Round(2) \/ UNCHANGED <<main, k>>)
    BY <1>6, Places DEF RoundOK, FeedBuffer
  <2> QED BY <1>1, <2>1, RoundKeeps DEF Rounds
<1>7. CASE CreateThread
  <2>1. main = 9 /\ Round(6)
    BY <1>7, Places DEF RoundOK, CreateThread
  <2> QED BY <2>1, RoundKeeps DEF Rounds
<1>8. CASE CreatePoolFails \/ AttrInitFails
  BY <1>1, <1>8 DEF CreatePoolFails, AttrInitFails, StartFails
<1>9. CASE Threads
  BY <1>1, <1>9 DEF Threads, SetSocket, IotReceive, IotCheck, IotCut, IotCountStore,
     FusionTransmit, FreeHistory, FusionReceiveFragment, HandleLostRequest, IotTransmit,
     IotTransmitStore, startVars
<1>10. CASE Answering \/ \E op \in Opcodes : ControlReceive(op)
  BY <1>1, <1>10 DEF Answering, CopyStats, ControlAnswer, ControlReceive, startVars
<1>11. CASE UNCHANGED vars
  BY <1>1, <1>11 DEF vars, startVars
<1> QED BY <1>2, <1>3, <1>4, <1>5, <1>6, <1>7, <1>8, <1>9, <1>10, <1>11 DEF Next, Main

-------------------------------------------------------------------------------
(* The type invariant *)

StartTyped ==
  /\ file \in Configs /\ value \in Value /\ ports \in [ParamSet -> 0..(PortMod - 1)]
  /\ made \subseteq ResourceSet
  /\ head \in [PoolSet -> 0..(PoolSize - 1)] /\ fed \in [PoolSet -> Seq(Nat)]
ThreadTyped ==
  /\ thread \in [RoutineSet -> {"off", "starting", "on", "ended"}] /\ controlOn \in BOOLEAN
  /\ sockTx \in BOOLEAN /\ fusionSock \in BOOLEAN /\ service_disabled \in BOOLEAN
FlowTyped ==
  /\ iot \in [pc : {"recv", "check", "cut", "store"}, res : {"data", "none", "error"}, val : Nat]
  /\ itx \in [pc : {"get", "store"}, val : Nat]
  /\ toFusion \in Nat /\ kept \in Nat /\ toDevice \in Nat
  /\ stats \in [Counters -> Nat] /\ counted \in [Counters -> Nat]
CtlTyped ==
  /\ ctl \in [pc : {"poll", "copy", "send"}, op : Opcodes, copy : [Counters -> Nat],
              seen : [Counters -> Nat], todo : SUBSET Counters]
  /\ status \in {"run", "failed", "nullTable", "nullTx", "nullReq"}
  /\ lastSwitch \in {"none", "disable", "enable"} /\ since \subseteq BOOLEAN /\ nMsgs \in Nat
TypeInv == RoundOK /\ StartTyped /\ ThreadTyped /\ FlowTyped /\ CtlTyped

LEMMA TypeInvTypes == TypeInv => TypeOK
<1> SUFFICES ASSUME TypeInv PROVE TypeOK
  OBVIOUS
<1>1. main \in 1..10 /\ k \in 1..6
  BY DEF TypeInv, RoundOK, Rounds
<1> QED BY <1>1 DEF TypeInv, StartTyped, ThreadTyped, FlowTyped, CtlTyped, TypeOK

LEMMA InitTypeInv == Init => TypeInv
<1> SUFFICES ASSUME Init PROVE TypeInv
  OBVIOUS
<1> USE DEF Init
<1>1. RoundOK
  BY DEF RoundOK, Rounds
<1>2. StartTyped
  BY ServiceAssumption, EmptySeq DEF StartTyped, Value, NoValue, PortMod
<1>3. ThreadTyped
  BY DEF ThreadTyped
<1>4. FlowTyped
  BY DEF FlowTyped, IotIdle, ItxIdle, Zero
<1>5. CtlTyped
  BY DEF CtlTyped, CtlIdle, Zero, Opcodes
<1> QED BY <1>1, <1>2, <1>3, <1>4, <1>5 DEF TypeInv

\* A file is a sequence of lines.
LEMMA FileLines ==
  ASSUME file \in Configs
  PROVE  /\ DOMAIN file \subseteq Nat
         /\ \A i \in DOMAIN file : file[i].value \in Value
<1> DEFINE Line == [name : STRING, value : Nat \cup {NoValue}]
<1>1. file \in Seq(Line)
  BY ServiceAssumption
<1> HIDE DEF Line
<1>2. DOMAIN file = 1..Len(file) /\ Len(file) \in Nat
  BY <1>1, LenProperties
<1>3. \A i \in DOMAIN file : file[i] \in Line
  BY <1>1, <1>2, ElementOfSeq
<1> QED BY <1>2, <1>3 DEF Line, Value

\* get_config_param returns the number of a line with the name, or no value.
LEMMA ConfigFound ==
  ASSUME file \in Configs, NEW name
  PROVE  LET v == GetConfigParam(name)
         IN  /\ v \in Value
             /\ v # NoValue => \E i \in DOMAIN file : file[i].name = name /\ file[i].value = v
<1> DEFINE First(i) == \A j \in Stops(name) : i <= j
           Exists   == \E i \in Stops(name) : file[i].name = name /\ First(i)
           c        == CHOOSE i \in Stops(name) : First(i)
<1>1. CASE ~Exists
  BY <1>1 DEF GetConfigParam, Value
<1>2. CASE Exists
  <2>1. PICK i \in Stops(name) : file[i].name = name /\ First(i)
    BY <1>2
  <2>2. c \in Stops(name) /\ First(c)
    <3> HIDE DEF First
    <3> QED BY <2>1
  <2>3. Stops(name) \subseteq DOMAIN file /\ DOMAIN file \subseteq Nat
    BY FileLines DEF Stops
  <2>4. file[c].value \in Value
    BY <2>2, <2>3, FileLines
  <2>5. GetConfigParam(name) = file[c].value
    BY <1>2 DEF GetConfigParam
  <2> HIDE DEF c
  <2>6. c = i
    BY <2>1, <2>2, <2>3
  <2>7. file[c].name = name
    BY <2>1, <2>6
  <2> QED BY <2>2, <2>3, <2>4, <2>5, <2>7
<1> QED BY <1>1, <1>2

LEMMA StepStartTyped == TypeInv /\ [Next]_vars => StartTyped'
<1> SUFFICES ASSUME TypeInv, [Next]_vars PROVE StartTyped'
  OBVIOUS
<1> USE ServiceAssumption DEF TypeInv, StartTyped
<1>1. CASE UNCHANGED <<file, value, ports, made, head, fed>>
  BY <1>1
<1>2. CASE ConfigParam
  <2>1. main = 4 /\ k \in 1..3
    BY <1>2, Places DEF RoundOK, Rounds, ConfigParam
  <2>2. value' = GetConfigParam(Params[k]) /\ value' \in Value
    BY <1>2, ConfigFound DEF ConfigParam
  <2>3. value' # NoValue => CutTo16(value') \in 0..(PortMod - 1)
    BY <2>2, PortRange DEF Value
  <2>4. ports' \in [ParamSet -> 0..(PortMod - 1)]
    BY <1>2, <2>3 DEF ConfigParam
  <2> QED BY <1>2, <2>2, <2>4 DEF ConfigParam
<1>3. CASE CreateSocket
  <2>1. main = 5 /\ k \in 1..4
    BY <1>3, Places DEF RoundOK, Rounds, CreateSocket
  <2> QED BY <1>3, <2>1 DEF CreateSocket, ResourceSet
<1>4. CASE CreateFifo
  <2>1. main = 6 /\ k \in 1..5
    BY <1>4, Places DEF RoundOK, Rounds, CreateFifo
  <2> QED BY <1>4, <2>1 DEF CreateFifo, ResourceSet
<1>5. CASE FeedBuffer
  <2> DEFINE p == Pools[k]
  <2>1. main = 7 /\ k \in 1..2
    BY <1>5, Places DEF RoundOK, Rounds, FeedBuffer
  <2>2. p \in PoolSet
    BY <2>1 DEF Pools, PoolSet
  <2>3. /\ fed' = [fed EXCEPT ![p] = Append(fed[p], head[p])]
        /\ head' = [head EXCEPT ![p] = NextHead(p)]
    BY <1>5 DEF FeedBuffer
  <2> HIDE DEF p
  <2>4. head[p] \in Nat /\ fed[p] \in Seq(Nat)
    BY <2>2
  <2>5. NextHead(p) \in 0..(PoolSize - 1)
    <3>1. head[p] + 1 \in Int /\ PoolSize \in Nat \ {0}
      BY <2>4
    <3> QED BY ONLY <3>1, ModRange DEF NextHead
  <2>6. Append(fed[p], head[p]) \in Seq(Nat)
    BY <2>4, AppendProperties
  <2> QED BY <1>5, <2>2, <2>3, <2>5, <2>6 DEF FeedBuffer
<1>6. CASE \/ ReadSpiConf \/ StartServiceCheck \/ StartInotify \/ CreatePoolFails
           \/ InitTerminalCluster \/ CreateThread \/ AttrInitFails
  BY <1>1, <1>6 DEF ReadSpiConf, StartServiceCheck, StartInotify, CreatePoolFails,
     InitTerminalCluster, CreateThread, AttrInitFails
<1>7. CASE Threads
  BY <1>1, <1>7 DEF Threads, SetSocket, IotReceive, IotCheck, IotCut, IotCountStore,
     FusionTransmit, FreeHistory, FusionReceiveFragment, HandleLostRequest, IotTransmit,
     IotTransmitStore, startVars
<1>8. CASE Answering \/ \E op \in Opcodes : ControlReceive(op)
  BY <1>1, <1>8 DEF Answering, CopyStats, ControlAnswer, ControlReceive, startVars
<1>9. CASE UNCHANGED vars
  BY <1>1, <1>9 DEF vars, startVars
<1> QED BY <1>2, <1>3, <1>4, <1>5, <1>6, <1>7, <1>8, <1>9 DEF Next, Main

LEMMA StepThreadTyped == TypeInv /\ [Next]_vars => ThreadTyped'
<1> SUFFICES ASSUME TypeInv, [Next]_vars PROVE ThreadTyped'
  OBVIOUS
<1> USE DEF TypeInv, ThreadTyped, setVars
<1>1. CASE UNCHANGED <<thread, controlOn, sockTx, fusionSock, service_disabled>>
  BY <1>1
<1>2. CASE ReadSpiConf \/ StartServiceCheck
  BY <1>2 DEF ReadSpiConf, StartServiceCheck, threadVars, ctlVars
<1>3. CASE CreateThread
  <2>1. \/ thread' = [thread EXCEPT ![Routines[k]] = "starting"]
        \/ thread' = [thread EXCEPT ![Routines[k]] = "on"]
        \/ thread' = [thread EXCEPT ![Routines[k]] = "ended"]
    BY <1>3 DEF CreateThread
  <2>2. UNCHANGED <<controlOn, sockTx, fusionSock, service_disabled>>
    BY <1>3 DEF CreateThread, threadVars, ctlVars
  <2> QED BY <2>1, <2>2
<1>4. CASE \/ StartInotify \/ ConfigParam \/ CreateSocket \/ CreateFifo \/ CreatePoolFails
           \/ FeedBuffer \/ InitTerminalCluster \/ AttrInitFails
  BY <1>1, <1>4 DEF StartInotify, ConfigParam, CreateSocket, CreateFifo, CreatePoolFails,
     FeedBuffer, InitTerminalCluster, AttrInitFails, threadVars, ctlVars
<1>5. ASSUME NEW r \in Setters, SetSocket(r) PROVE ThreadTyped'
  BY <1>5 DEF SetSocket, ctlVars
<1>6. CASE \/ IotReceive \/ IotCheck \/ IotCut \/ IotCountStore \/ FusionTransmit
           \/ FreeHistory \/ FusionReceiveFragment \/ HandleLostRequest \/ IotTransmit
           \/ IotTransmitStore
  BY <1>1, <1>6 DEF IotReceive, IotCheck, IotCut, IotCountStore, FusionTransmit,
     FreeHistory, FusionReceiveFragment, HandleLostRequest, IotTransmit, IotTransmitStore,
     ctlVars
<1>7. ASSUME NEW op \in Opcodes, ControlReceive(op) PROVE ThreadTyped'
  BY <1>7 DEF ControlReceive
<1>8. CASE Answering
  BY <1>1, <1>8 DEF Answering, CopyStats, ControlAnswer
<1>9. CASE UNCHANGED vars
  BY <1>1, <1>9 DEF vars, ctlVars
<1> QED BY <1>2, <1>3, <1>4, <1>5, <1>6, <1>7, <1>8, <1>9 DEF Next, Main, Threads

LEMMA StepFlowTyped == TypeInv /\ [Next]_vars => FlowTyped'
<1> SUFFICES ASSUME TypeInv, [Next]_vars PROVE FlowTyped'
  OBVIOUS
<1> USE DEF TypeInv, FlowTyped, flowVars, ghosts
<1>1. CASE UNCHANGED <<iot, itx, toFusion, kept, toDevice, stats, counted>>
  BY <1>1
<1>2. CASE Main
  BY <1>1, <1>2 DEF Main, ReadSpiConf, StartServiceCheck, StartInotify, ConfigParam,
     CreateSocket, CreateFifo, CreatePoolFails, FeedBuffer, InitTerminalCluster, CreateThread,
     AttrInitFails, threadVars
<1>3. CASE IotReceive \/ IotCheck
  <2>1. \/ \E res \in {"data", "none", "error"} : iot' = [iot EXCEPT !.pc = "check", !.res = res]
        \/ iot' = IotIdle
        \/ iot' = [iot EXCEPT !.pc = "cut"]
    BY <1>3 DEF IotReceive, IotCheck
  <2>2. iot' \in [pc : {"recv", "check", "cut", "store"}, res : {"data", "none", "error"},
                  val : Nat]
    <3>1. iot.val \in Nat /\ iot.res \in {"data", "none", "error"}
      OBVIOUS
    <3>2. CASE iot' = IotIdle
      BY <3>2 DEF IotIdle
    <3>3. CASE iot' = [iot EXCEPT !.pc = "cut"]
      BY <3>1, <3>3
    <3>4. ASSUME NEW res \in {"data", "none", "error"},
                 iot' = [iot EXCEPT !.pc = "check", !.res = res]
          PROVE  iot' \in [pc : {"recv", "check", "cut", "store"},
                            res : {"data", "none", "error"}, val : Nat]
      BY <3>1, <3>4
    <3> QED BY <2>1, <3>2, <3>3, <3>4
  <2>3. UNCHANGED <<itx, toFusion, kept, toDevice, stats, counted>>
    BY <1>3 DEF IotReceive, IotCheck
  <2> QED BY <2>2, <2>3
<1>4. IotCounter \in Counters
  BY DEF IotCounter, Counters
<1>5. CASE IotCut
  <2>1. counted' = [counted EXCEPT ![IotCounter] = @ + 1] /\ counted' \in [Counters -> Nat]
    BY <1>4, <1>5 DEF IotCut
  <2>2. iot' = [iot EXCEPT !.pc = "store", !.val = stats[IotCounter]]
    BY <1>5 DEF IotCut
  <2>3. /\ iot' \in [pc : {"recv", "check", "cut", "store"}, res : {"data", "none", "error"},
                     val : Nat]
    BY <1>4, <2>2
  <2> QED BY <1>5, <2>1, <2>3 DEF IotCut
<1>6. CASE IotCountStore
  <2>1. stats' = [stats EXCEPT ![IotCounter] = iot.val + 1] /\ iot' = IotIdle
    BY <1>6 DEF IotCountStore
  <2>2. stats' \in [Counters -> Nat]
    BY <1>4, <2>1
  <2> QED BY <1>6, <2>1, <2>2 DEF IotCountStore, IotIdle
<1>7. CASE FusionTransmit \/ FreeHistory \/ FusionReceiveFragment
  BY <1>7 DEF FusionTransmit, FreeHistory, FusionReceiveFragment
<1>8. CASE IotTransmit
  <2>1. stats["pkts_recv"] \in Nat /\ counted["pkts_recv"] \in Nat /\ toDevice' \in Nat
    BY <1>8 DEF IotTransmit, Counters
  <2>2. /\ itx' = [pc |-> "store", val |-> stats["pkts_recv"]] \/ itx' = itx
        /\ counted' = [counted EXCEPT !["pkts_recv"] = @ + 1] \/ counted' = counted
    BY <1>8 DEF IotTransmit, RecvCounter
  <2>3. itx' \in [pc : {"get", "store"}, val : Nat] /\ counted' \in [Counters -> Nat]
    BY <2>1, <2>2
  <2> QED BY <1>8, <2>1, <2>3 DEF IotTransmit
<1>9. CASE IotTransmitStore
  <2>1. /\ stats' = [stats EXCEPT !["pkts_recv"] = itx.val + 1] /\ itx' = ItxIdle
    BY <1>9 DEF IotTransmitStore, RecvCounter
  <2>2. ASSUME NEW n \in Nat PROVE [stats EXCEPT !["pkts_recv"] = n] \in [Counters -> Nat]
    OBVIOUS
  <2>3. itx.val + 1 \in Nat
    OBVIOUS
  <2>4. stats' \in [Counters -> Nat]
    BY <2>1, <2>2, <2>3
  <2> QED BY <1>9, <2>1, <2>4 DEF IotTransmitStore, ItxIdle
<1>10. CASE HandleLostRequest \/ \E r \in Setters : SetSocket(r)
  BY <1>1, <1>10 DEF HandleLostRequest, SetSocket
<1>11. CASE Answering \/ \E op \in Opcodes : ControlReceive(op)
  BY <1>1, <1>11 DEF Answering, CopyStats, ControlAnswer, ControlReceive
<1>12. CASE UNCHANGED vars
  BY <1>1, <1>12 DEF vars
<1> QED BY <1>2, <1>3, <1>5, <1>6, <1>7, <1>8, <1>9, <1>10, <1>11, <1>12 DEF Next, Threads

LEMMA StepCtlTyped == TypeInv /\ [Next]_vars => CtlTyped'
<1> SUFFICES ASSUME TypeInv, [Next]_vars PROVE CtlTyped'
  OBVIOUS
<1> USE DEF TypeInv, CtlTyped, ctlVars, ghosts
<1>1. CASE UNCHANGED <<ctl, status, lastSwitch, since, nMsgs>>
  BY <1>1
<1>2. CASE Main
  BY <1>2 DEF Main, ReadSpiConf, StartServiceCheck, StartInotify, ConfigParam,
     CreateSocket, CreateFifo, CreatePoolFails, FeedBuffer, InitTerminalCluster, CreateThread,
     AttrInitFails, StartFails, threadVars
<1>3. CASE IotReceive
  BY <1>3 DEF IotReceive, ThreadTyped
<1>4. CASE Threads /\ ~IotReceive
  BY <1>1, <1>4 DEF Threads, SetSocket, IotCheck, IotCut, IotCountStore, FusionTransmit,
     FreeHistory, FusionReceiveFragment, HandleLostRequest, IotTransmit, IotTransmitStore
<1>5. ASSUME NEW op \in Opcodes, ControlReceive(op) PROVE CtlTyped'
  <2>1. \/ ctl' = ctl
        \/ ctl' = [ctl EXCEPT !.pc = "copy", !.op = op, !.seen = stats, !.todo = Counters]
        \/ ctl' = [ctl EXCEPT !.pc = "send", !.op = op]
    BY <1>5 DEF ControlReceive, Opcodes
  <2>2. ctl' \in [pc : {"poll", "copy", "send"}, op : Opcodes, copy : [Counters -> Nat],
                  seen : [Counters -> Nat], todo : SUBSET Counters]
    BY <2>1 DEF FlowTyped
  <2>3. since' = since \/ since' = since \cup {op = "disable"}
    BY <1>5 DEF ControlReceive
  <2>4. since' \subseteq BOOLEAN
    BY <2>3, ZenonT(60)
  <2>5. lastSwitch' \in {"none", "disable", "enable"} /\ nMsgs' \in Nat /\ status' = status
    BY <1>5 DEF ControlReceive
  <2> QED BY <2>2, <2>4, <2>5
<1>6. CASE ControlAnswer
  BY <1>6 DEF ControlAnswer, CtlIdle, Zero, Opcodes
<1>7. ASSUME NEW c \in Counters, CopyStats(c) PROVE CtlTyped'
  <2>1. PICK pc \in {"copy", "send"} :
          ctl' = [ctl EXCEPT !.copy[c] = stats[c], !.todo = ctl.todo \ {c}, !.pc = pc]
    BY <1>7 DEF CopyStats
  <2>2. stats[c] \in Nat
    BY DEF FlowTyped
  <2>3. ctl' \in [pc : {"poll", "copy", "send"}, op : Opcodes, copy : [Counters -> Nat],
                  seen : [Counters -> Nat], todo : SUBSET Counters]
    BY <2>1, <2>2
  <2> QED BY <1>7, <2>3 DEF CopyStats
<1>8. CASE UNCHANGED vars
  BY <1>1, <1>8 DEF vars
<1> QED BY <1>2, <1>3, <1>4, <1>5, <1>6, <1>7, <1>8 DEF Next, Answering

LEMMA StepTypeInv == TypeInv /\ [Next]_vars => TypeInv'
BY StepRound, StepStartTyped, StepThreadTyped, StepFlowTyped, StepCtlTyped DEF TypeInv

\* The ports fit in 16 bits and the heads stay inside their pools, whatever the file
\* says and however large the pools are (get_configuration, bufpool_getNextFreeBuffer).
THEOREM TypeInvariant == Spec => []TypeOK
BY InitTypeInv, StepTypeInv, TypeInvTypes, PTL DEF Spec

-------------------------------------------------------------------------------
(* What rests on the type invariant.  First the switch *)

\* What start-up leaves alone.
LEMMA MainKeeps ==
  ASSUME Main
  PROVE  /\ UNCHANGED <<sockTx, iot, itx, toFusion, kept, toDevice, stats, counted, since,
                        lastSwitch, ctl>>
         /\ status' \in {status, "failed", "nullTable"}
BY DEF Main, ReadSpiConf, StartServiceCheck, StartInotify, ConfigParam, CreateSocket,
   CreateFifo, CreatePoolFails, FeedBuffer, InitTerminalCluster, CreateThread, AttrInitFails,
   StartFails, threadVars, ctlVars, setVars, flowVars, ghosts

LEMMA RoundGrows ==
  ASSUME main \in 1..10, NEW n, Round(n)
  PROVE  main' \in {main, main + 1}
BY DEF Round

\* Only read_spi_conf, the first step, sets the switch in start-up, only
\* start_service_check starts service_control, and only the ninth step makes threads.
LEMMA MainOrder ==
  ASSUME TypeInv, Main
  PROVE  /\ service_disabled' = service_disabled \/ (main = 1 /\ service_disabled' = FALSE)
         /\ controlOn' = controlOn \/ (main = 2 /\ main' = 3 /\ controlOn' = TRUE)
         /\ thread' = thread \/ (main = 9 /\ CreateThread)
         /\ main' \in {main, main + 1}
<1>1. main \in 1..10
  BY DEF TypeInv, RoundOK
<1>2. CASE ReadSpiConf
  <2>1. main = 1 /\ Round(1)
    BY <1>1, <1>2, Places DEF ReadSpiConf, Step
  <2> QED BY <1>1, <1>2, <2>1, RoundGrows DEF ReadSpiConf
<1>3. CASE StartServiceCheck
  <2>1. main = 2 /\ ((Round(1) /\ controlOn' = TRUE) \/ UNCHANGED <<main, controlOn>>)
    BY <1>1, <1>3, Places DEF StartServiceCheck, Step, StartFails
  <2>2. k = 1
    BY <2>1 DEF TypeInv, RoundOK, Rounds
  <2>3. (main' = 3 /\ controlOn' = TRUE) \/ UNCHANGED <<main, controlOn>>
    BY <2>1, <2>2 DEF Round
  <2>4. UNCHANGED <<service_disabled, thread>>
    BY <1>3 DEF StartServiceCheck, ctlVars
  <2> QED BY <2>1, <2>3, <2>4
<1>4. CASE CreateThread
  <2>1. main = 9 /\ Round(6) /\ UNCHANGED <<service_disabled, controlOn>>
    BY <1>1, <1>4, Places DEF CreateThread, ctlVars
  <2> QED BY <1>1, <1>4, <2>1, RoundGrows
<1>5. CASE \/ StartInotify \/ InitTerminalCluster \/ ConfigParam \/ CreateSocket
           \/ CreateFifo \/ CreatePoolFails \/ FeedBuffer \/ AttrInitFails
  <2>1. UNCHANGED <<service_disabled, controlOn, thread>>
    BY <1>5 DEF StartInotify, InitTerminalCluster, ConfigParam, CreateSocket, CreateFifo,
       CreatePoolFails, FeedBuffer, AttrInitFails, ctlVars
  <2>2. main' = main \/ \E n \in {1, 2, 3, 4, 5} : Round(n)
    BY <1>5 DEF StartInotify, InitTerminalCluster, ConfigParam, CreateSocket, CreateFifo,
       CreatePoolFails, FeedBuffer, AttrInitFails, Step, StartFails
  <2>3. main' \in {main, main + 1}
    BY <1>1, <2>2, RoundGrows
  <2> QED BY <2>1, <2>3
<1> QED BY <1>2, <1>3, <1>4, <1>5 DEF Main

-------------------------------------------------------------------------------
(* The switch *)

\* service_control runs from the second step on, after read_spi_conf, and without it
\* no message has been taken.
ControlInv ==
  /\ main \in {1, 2} => ~controlOn
  /\ ~controlOn => lastSwitch = "none"
  /\ ControlDecides

LEMMA InitControl == Init => ControlInv
BY DEF Init, ControlInv, ControlDecides

LEMMA StepControl == TypeInv /\ ControlInv /\ [Next]_vars => ControlInv'
<1> SUFFICES ASSUME TypeInv, ControlInv, [Next]_vars PROVE ControlInv'
  OBVIOUS
<1> USE DEF ControlInv, ControlDecides
<1>1. CASE UNCHANGED <<main, controlOn, lastSwitch, service_disabled>>
  BY <1>1
<1>2. CASE Main
  <2>1. main \in 1..10 /\ lastSwitch' = lastSwitch
    BY <1>2, MainKeeps DEF TypeInv, RoundOK
  <2>2. main = 1 => ~controlOn /\ controlOn' = controlOn
    BY <1>2, MainOrder
  <2>3. service_disabled' = (lastSwitch = "disable")
    <3>1. CASE service_disabled' = service_disabled
      BY <3>1
    <3>2. CASE main = 1 /\ service_disabled' = FALSE
      BY <2>2, <3>2
    <3> QED BY <1>2, <3>1, <3>2, MainOrder
  <2>4. main' \in {1, 2} => ~controlOn'
    <3>1. main' \in {1, 2} => main \in {1, 2} /\ main' # 3
      BY <1>2, <2>1, MainOrder
    <3>2. controlOn' = controlOn \/ main' = 3
      BY <1>2, MainOrder
    <3> QED BY <3>1, <3>2
  <2> QED BY <1>2, <2>1, <2>3, <2>4, MainOrder
<1>3. CASE Threads
  BY <1>1, <1>3 DEF Threads, SetSocket, IotReceive, IotCheck, IotCut, IotCountStore,
     FusionTransmit, FreeHistory, FusionReceiveFragment, HandleLostRequest, IotTransmit,
     IotTransmitStore, startVars, ctlVars
<1>4. CASE Answering
  BY <1>1, <1>4 DEF Answering, CopyStats, ControlAnswer, startVars
<1>5. ASSUME NEW op \in Opcodes, ControlReceive(op) PROVE ControlInv'
  BY <1>5 DEF ControlReceive, startVars, Opcodes
<1>6. CASE UNCHANGED vars
  BY <1>1, <1>6 DEF vars, startVars, ctlVars
<1> QED BY <1>2, <1>3, <1>4, <1>5, <1>6 DEF Next

\* The switch is where the last control message put it: read_spi_conf runs before
\* service_control does, and nothing else of start-up touches the switch.
THEOREM LastMessageDecides == Spec => []ControlDecides
<1>1. ControlInv => ControlDecides
  BY DEF ControlInv
<1> QED BY <1>1, InitControl, StepControl, InitTypeInv, StepTypeInv, PTL DEF Spec

\* The switch, as iot_receive_routine will find it, is one of those since udp_recv.
SinceInv ==
  /\ main < 9 => thread["iot_receive"] = "off"
  /\ thread["iot_receive"] = "off" => iot.pc = "recv"
  /\ iot.pc = "check" => service_disabled \in since

LEMMA InitSince == Init => SinceInv
BY DEF Init, SinceInv, IotIdle, RoutineSet, Routines

LEMMA StepSince == TypeInv /\ SinceInv /\ [Next]_vars => SinceInv'
<1> SUFFICES ASSUME TypeInv, SinceInv, [Next]_vars PROVE SinceInv'
  OBVIOUS
<1> USE DEF SinceInv
<1>1. CASE UNCHANGED <<main, thread, iot, since, service_disabled>>
  BY <1>1
<1>2. CASE Main
  <2>1. main \in 1..10 /\ main' \in {main, main + 1} /\ UNCHANGED <<iot, since>>
    BY <1>2, MainKeeps, MainOrder DEF TypeInv, RoundOK
  <2>2. CASE CreateThread
    <3>1. main = 9 /\ UNCHANGED service_disabled
      BY <2>1, <2>2, Places DEF CreateThread, ctlVars
    <3>2. PICK t \in {"starting", "on", "ended"} :
            thread' = [thread EXCEPT ![Routines[k]] = t]
      BY <2>2 DEF CreateThread
    <3>3. thread'["iot_receive"] = "off" => thread["iot_receive"] = "off"
      BY <3>2 DEF TypeInv, ThreadTyped
    <3> QED BY <2>1, <3>1, <3>3
  <2>3. CASE ~CreateThread
    <3>1. thread' = thread
      BY <1>2, <2>3, MainOrder
    <3>2. CASE service_disabled' = service_disabled
      BY <2>1, <3>1, <3>2
    <3>3. CASE main = 1
      BY <2>1, <3>1, <3>3
    <3> QED BY <1>2, <3>2, <3>3, MainOrder
  <2> QED BY <2>2, <2>3
<1>3. ASSUME NEW r \in Setters, SetSocket(r) PROVE SinceInv'
  BY <1>3 DEF SetSocket, startVars, ctlVars, ghosts, TypeInv, ThreadTyped, Setters
<1>4. CASE IotReceive
  BY <1>4 DEF IotReceive, On, startVars, ctlVars, TypeInv, RoundOK
<1>5. CASE IotCheck \/ IotCut \/ IotCountStore
  <2>1. thread["iot_receive"] = "on" /\ UNCHANGED <<main, thread>>
    BY <1>5 DEF IotCheck, IotCut, IotCountStore, On, startVars
  <2>2. iot' = IotIdle \/ iot' = [iot EXCEPT !.pc = "cut"]
        \/ iot' = [iot EXCEPT !.pc = "store", !.val = stats[IotCounter]]
    BY <1>5 DEF IotCheck, IotCut, IotCountStore
  <2>3. iot'.pc \in {"recv", "cut", "store"}
    <3>1. iot \in [pc : {"recv", "check", "cut", "store"}, res : {"data", "none", "error"},
                   val : Nat]
      BY DEF TypeInv, FlowTyped
    <3>2. CASE iot' = IotIdle
      BY <3>2 DEF IotIdle
    <3>3. CASE iot' = [iot EXCEPT !.pc = "cut"]
      BY <3>1, <3>3
    <3>4. CASE iot' = [iot EXCEPT !.pc = "store", !.val = stats[IotCounter]]
      BY <3>1, <3>4
    <3> QED BY <2>2, <3>2, <3>3, <3>4
  <2> QED BY <2>1, <2>3
<1>6. CASE \/ FusionTransmit \/ FreeHistory \/ FusionReceiveFragment \/ HandleLostRequest
           \/ IotTransmit \/ IotTransmitStore
  BY <1>1, <1>6 DEF FusionTransmit, FreeHistory, FusionReceiveFragment, HandleLostRequest,
     IotTransmit, IotTransmitStore, startVars, ctlVars, ghosts
<1>7. CASE Answering
  BY <1>1, <1>7 DEF Answering, CopyStats, ControlAnswer, startVars, ghosts
<1>8. ASSUME NEW op \in Opcodes, ControlReceive(op) PROVE SinceInv'
  BY <1>8 DEF ControlReceive, startVars
<1>9. CASE UNCHANGED vars
  BY <1>1, <1>9 DEF vars, startVars, ctlVars, ghosts
<1> QED BY <1>2, <1>3, <1>4, <1>5, <1>6, <1>7, <1>8, <1>9 DEF Next, Threads

\* A datagram of the device is forwarded only if the service was enabled at some time
\* since it was received, and dumped only if it was disabled (iot_receive_routine).
THEOREM SwitchIsObeyed == Spec => SwitchObeyed
<1>1. TypeInv /\ SinceInv /\ [Next]_vars =>
        [(iot.pc = "check" /\ iot.res # "none") =>
           /\ iot'.pc = "cut" => FALSE \in since
           /\ iot'.pc = "recv" => TRUE \in since]_vars
  <2> SUFFICES ASSUME TypeInv, SinceInv, [Next]_vars, iot.pc = "check", iot.res # "none"
               PROVE  /\ iot'.pc = "cut" => FALSE \in since
                      /\ iot'.pc = "recv" => TRUE \in since
    OBVIOUS
  <2>1. CASE iot' = iot
    BY <2>1
  <2>2. CASE IotCheck
    <3>1. service_disabled \in since /\ service_disabled \in BOOLEAN
      BY DEF SinceInv, TypeInv, ThreadTyped
    <3>2. iot' = IF service_disabled THEN IotIdle ELSE [iot EXCEPT !.pc = "cut"]
      BY <2>2 DEF IotCheck
    <3>3. /\ service_disabled => iot'.pc = "recv"
          /\ ~service_disabled => iot'.pc = "cut"
      BY <3>2 DEF IotIdle, TypeInv, FlowTyped
    <3> QED BY <3>1, <3>3
  <2>3. CASE Main
    BY <2>1, <2>3, MainKeeps
  <2>4. CASE Threads /\ ~IotCheck
    BY <2>1, <2>4 DEF Threads, SetSocket, IotReceive, IotCut, IotCountStore, FusionTransmit,
       FreeHistory, FusionReceiveFragment, HandleLostRequest, IotTransmit, IotTransmitStore
  <2>5. CASE Answering \/ \E op \in Opcodes : ControlReceive(op)
    BY <2>1, <2>5 DEF Answering, CopyStats, ControlAnswer, ControlReceive
  <2> QED BY <2>1, <2>2, <2>3, <2>4, <2>5 DEF Next, vars
<1> QED BY <1>1, InitSince, StepSince, InitTypeInv, StepTypeInv, PTL DEF Spec, SwitchObeyed

-------------------------------------------------------------------------------
(* The counters *)

\* What each of the two threads has loaded is still what it will add to.
LoadsFresh ==
  /\ iot.pc = "store" => iot.val = stats[IotCounter]
  /\ itx.pc = "store" => itx.val = stats["pkts_recv"]
CountInv == LoadsFresh /\ StatsExact

LEMMA InitCount == Init => CountInv
BY DEF Init, CountInv, LoadsFresh, StatsExact, IotIdle, ItxIdle, Zero, Counters

\* A store of iot_receive_routine adds one to its counter, and what is to come, less one.
LEMMA CountersDiffer ==
  /\ Counters = {"pkts_sent", "pkts_recv", "pkts_err"}
  /\ IotCounter \in Counters \ {"pkts_recv"}
BY DEF Counters, IotCounter

LEMMA StepCount == TypeInv /\ CountInv /\ [Next]_vars => CountInv'
<1> SUFFICES ASSUME TypeInv, CountInv, [Next]_vars PROVE CountInv'
  OBVIOUS
<1>0. /\ iot \in [pc : {"recv", "check", "cut", "store"}, res : {"data", "none", "error"},
                  val : Nat]
      /\ itx \in [pc : {"get", "store"}, val : Nat]
      /\ stats \in [Counters -> Nat] /\ counted \in [Counters -> Nat]
  BY DEF TypeInv, FlowTyped
<1> USE DEF CountInv, LoadsFresh, StatsExact
<1>1. CASE UNCHANGED <<iot, itx, stats, counted>>
  BY <1>1 DEF IotCounter
<1>2. CASE IotReceive \/ IotCheck
  <2>1. iot'.pc \in {"recv", "check", "cut"} /\ iot.pc \in {"recv", "check"}
    <3>1. CASE IotReceive
      <4>1. PICK res \in {"data", "none", "error"} :
              iot' = [iot EXCEPT !.pc = "check", !.res = res]
        BY <3>1 DEF IotReceive
      <4> QED BY <1>0, <3>1, <4>1 DEF IotReceive
    <3>2. CASE IotCheck
      <4>1. iot' = IotIdle \/ iot' = [iot EXCEPT !.pc = "cut"]
        BY <3>2 DEF IotCheck
      <4>2. CASE iot' = IotIdle
        BY <3>2, <4>2 DEF IotCheck, IotIdle
      <4>3. CASE iot' = [iot EXCEPT !.pc = "cut"]
        BY <1>0, <3>2, <4>3 DEF IotCheck
      <4> QED BY <4>1, <4>2, <4>3
    <3> QED BY <1>2, <3>1, <3>2
  <2>2. UNCHANGED <<itx, stats, counted>>
    BY <1>2 DEF IotReceive, IotCheck
  <2> QED BY <2>1, <2>2
<1>3. CASE IotCut
  <2> DEFINE c == IotCounter
  <2>1. /\ iot.pc = "cut" /\ UNCHANGED <<itx, stats>>
        /\ iot' = [iot EXCEPT !.pc = "store", !.val = stats[c]]
        /\ counted' = [counted EXCEPT ![c] = counted[c] + 1]
    BY <1>3 DEF IotCut
  <2>2. iot'.pc = "store" /\ iot'.val = stats[c] /\ iot'.res = iot.res
    BY <1>0, <2>1
  <2>3. IotCounter' = c
    BY <2>2 DEF IotCounter
  <2> HIDE DEF c
  <2>4. \A d \in Counters : counted'[d] = IF d = c THEN counted[d] + 1 ELSE counted[d]
    BY <1>0, <2>1
  <2> QED BY <1>0, <2>1, <2>2, <2>3, <2>4
<1>4. CASE IotCountStore
  <2> DEFINE c == IotCounter
  <2>1. /\ iot.pc = "store" /\ iot' = IotIdle /\ UNCHANGED <<itx, counted>>
        /\ stats' = [stats EXCEPT ![c] = iot.val + 1]
    BY <1>4 DEF IotCountStore, ghosts
  <2>2. c \in Counters \ {"pkts_recv"}
    BY CountersDiffer
  <2>3. /\ \A d \in Counters : stats'[d] = IF d = c THEN stats[d] + 1 ELSE stats[d]
        /\ stats'["pkts_recv"] = stats["pkts_recv"]
    BY <1>0, <2>1, <2>2
  <2>4. iot'.pc = "recv"
    BY <2>1 DEF IotIdle
  <2>5. LoadsFresh'
    BY <2>1, <2>3, <2>4
  <2>6. StatsExact'
    BY <1>0, <2>1, <2>2, <2>3, <2>4
  <2> QED BY <2>5, <2>6
<1>5. CASE IotTransmit
  <2>1. iot' = iot /\ stats' = stats /\ IotCounter' = IotCounter
    BY <1>5 DEF IotTransmit, IotCounter
  <2>2. CASE itx' = itx /\ counted' = counted
    BY <2>1, <2>2
  <2>3. CASE /\ itx' = [pc |-> "store", val |-> stats["pkts_recv"]]
             /\ counted' = [counted EXCEPT !["pkts_recv"] = @ + 1]
    <3>1. \A d \in Counters :
            counted'[d] = IF d = "pkts_recv" THEN counted[d] + 1 ELSE counted[d]
      BY <1>0, <2>3
    <3>2. itx.pc = "get"
      BY <1>5 DEF IotTransmit
    <3> QED BY <1>0, <2>1, <2>3, <3>1, <3>2
  <2> QED BY <1>5, <2>2, <2>3 DEF IotTransmit, RecvCounter
<1>6. CASE IotTransmitStore
  <2>1. /\ itx.pc = "store" /\ itx' = ItxIdle /\ UNCHANGED <<iot, counted>>
        /\ stats' = [stats EXCEPT !["pkts_recv"] = itx.val + 1]
    BY <1>6 DEF IotTransmitStore, RecvCounter, ghosts
  <2>2. IotCounter' = IotCounter /\ IotCounter # "pkts_recv" /\ itx'.pc = "get"
    BY <2>1 DEF IotCounter, ItxIdle
  <2>3. \A d \in Counters : stats'[d] = IF d = "pkts_recv" THEN stats[d] + 1 ELSE stats[d]
    BY <1>0, <2>1
  <2>4. stats'[IotCounter] = stats[IotCounter]
    BY <2>2, <2>3, CountersDiffer
  <2>5. LoadsFresh'
    BY <2>1, <2>2, <2>4
  <2>6. StatsExact'
    BY <1>0, <2>1, <2>2, <2>3
  <2> QED BY <2>5, <2>6
<1>7. CASE \/ FusionTransmit \/ FreeHistory \/ FusionReceiveFragment \/ HandleLostRequest
           \/ \E r \in Setters : SetSocket(r)
  BY <1>1, <1>7 DEF FusionTransmit, FreeHistory, FusionReceiveFragment, HandleLostRequest,
     SetSocket, ghosts
<1>8. CASE Main
  BY <1>1, <1>8, MainKeeps
<1>9. CASE Answering \/ \E op \in Opcodes : ControlReceive(op)
  BY <1>1, <1>9 DEF Answering, CopyStats, ControlAnswer, ControlReceive, ghosts
<1>10. CASE UNCHANGED vars
  BY <1>1, <1>10 DEF vars, ghosts
<1> QED BY <1>2, <1>3, <1>4, <1>5, <1>6, <1>7, <1>8, <1>9, <1>10 DEF Next, Threads

\* No count is lost, although the counters of sensor_stats.c have no lock.
THEOREM NoCountIsLost == Spec => []StatsExact
<1>1. CountInv => StatsExact
  BY DEF CountInv
<1> QED BY <1>1, InitCount, StepCount, InitTypeInv, StepTypeInv, PTL DEF Spec

\* A counter never goes down: what is stored is what was loaded, and one more.
LEMMA StatsGrow ==
  ASSUME TypeInv, CountInv, [Next]_vars
  PROVE  \A c \in Counters : stats[c] \in Nat /\ stats'[c] \in Nat /\ stats[c] <= stats'[c]
<1>0. stats \in [Counters -> Nat] /\ iot.val \in Nat /\ itx.val \in Nat
  BY DEF TypeInv, FlowTyped
<1>1. CASE stats' = stats
  BY <1>0, <1>1
<1>2. CASE IotCountStore
  BY <1>0, <1>2, CountersDiffer DEF IotCountStore, CountInv, LoadsFresh
<1>3. CASE IotTransmitStore
  BY <1>0, <1>3 DEF IotTransmitStore, RecvCounter, CountInv, LoadsFresh
<1>4. CASE Main
  BY <1>1, <1>4, MainKeeps
<1>5. CASE Threads /\ ~IotCountStore /\ ~IotTransmitStore
  BY <1>1, <1>5 DEF Threads, SetSocket, IotReceive, IotCheck, IotCut, FusionTransmit,
     FreeHistory, FusionReceiveFragment, HandleLostRequest, IotTransmit
<1>6. CASE Answering \/ \E op \in Opcodes : ControlReceive(op)
  BY <1>1, <1>6 DEF Answering, CopyStats, ControlAnswer, ControlReceive
<1> QED BY <1>1, <1>2, <1>3, <1>4, <1>5, <1>6 DEF Next, vars

\* While an answer is made: nothing has gone down since the request, and what has been
\* copied was copied since.
BracketInv ==
  /\ (ctl.pc \in {"copy", "send"} /\ ctl.op = "stats") =>
       \A c \in Counters :
         /\ ctl.seen[c] <= stats[c]
         /\ c \notin ctl.todo => ctl.seen[c] <= ctl.copy[c] /\ ctl.copy[c] <= stats[c]
  /\ (ctl.pc = "send" /\ ctl.op = "stats") => ctl.todo = {}

LEMMA InitBracket == Init => BracketInv
BY DEF Init, BracketInv, CtlIdle

LEMMA StepBracket == TypeInv /\ CountInv /\ BracketInv /\ [Next]_vars => BracketInv'
<1> SUFFICES ASSUME TypeInv, CountInv, BracketInv, [Next]_vars PROVE BracketInv'
  OBVIOUS
<1>0. /\ ctl \in [pc : {"poll", "copy", "send"}, op : Opcodes, copy : [Counters -> Nat],
                  seen : [Counters -> Nat], todo : SUBSET Counters]
      /\ \A c \in Counters : stats[c] \in Nat /\ stats'[c] \in Nat /\ stats[c] <= stats'[c]
  BY StatsGrow DEF TypeInv, CtlTyped
<1>1. CASE ctl' = ctl
  <2>1. ASSUME NEW c \in Counters, ctl.seen[c] <= stats[c]
        PROVE  ctl'.seen[c] <= stats'[c]
    BY <1>0, <1>1, <2>1
  <2>2. ASSUME NEW c \in Counters, ctl.copy[c] <= stats[c]
        PROVE  ctl'.copy[c] <= stats'[c]
    BY <1>0, <1>1, <2>2
  <2> QED BY <1>1, <2>1, <2>2 DEF BracketInv
<1>2. ASSUME NEW c \in Counters, CopyStats(c) PROVE BracketInv'
  <2>1. PICK pc \in {"copy", "send"} :
          /\ ctl' = [ctl EXCEPT !.copy[c] = stats[c], !.todo = ctl.todo \ {c}, !.pc = pc]
          /\ pc = "send" => ctl.todo = {c}
    BY <1>2 DEF CopyStats
  <2>2. /\ ctl'.copy = [ctl.copy EXCEPT ![c] = stats[c]] /\ ctl'.todo = ctl.todo \ {c}
        /\ ctl'.pc = pc /\ ctl'.seen = ctl.seen /\ ctl'.op = ctl.op
    BY <1>0, <2>1
  <2>3. ctl.pc = "copy" /\ stats' = stats
    BY <1>2 DEF CopyStats
  <2>4. \A d \in Counters : ctl'.copy[d] = IF d = c THEN stats[c] ELSE ctl.copy[d]
    BY <1>0, <2>2
  <2>5. (ctl'.pc = "send" /\ ctl'.op = "stats") => ctl'.todo = {}
    BY <2>1, <2>2
  <2>6. ASSUME ctl'.op = "stats", NEW d \in Counters
        PROVE  /\ ctl'.seen[d] <= stats'[d]
               /\ d \notin ctl'.todo =>
                    ctl'.seen[d] <= ctl'.copy[d] /\ ctl'.copy[d] <= stats'[d]
    <3>1. /\ ctl.seen[d] <= stats[d]
          /\ d \notin ctl.todo => ctl.seen[d] <= ctl.copy[d] /\ ctl.copy[d] <= stats[d]
      BY <2>2, <2>3, <2>6 DEF BracketInv
    <3>2. CASE d = c
      BY <1>0, <2>2, <2>3, <2>4, <3>1, <3>2
    <3>3. CASE d # c
      BY <2>2, <2>3, <2>4, <3>1, <3>3
    <3> QED BY <3>2, <3>3
  <2> QED BY <2>5, <2>6 DEF BracketInv
<1>3. CASE ControlAnswer
  BY <1>3 DEF ControlAnswer, CtlIdle, BracketInv
<1>4. ASSUME NEW op \in Opcodes, ControlReceive(op) PROVE BracketInv'
  <2>1. ctl.pc = "poll" /\ stats' = stats
    BY <1>4 DEF ControlReceive
  <2>2. CASE op = "unknown"
    BY <1>1, <1>4, <2>2 DEF ControlReceive
  <2>3. CASE op = "stats"
    <3>1. ctl' = [ctl EXCEPT !.pc = "copy", !.op = "stats", !.seen = stats, !.todo = Counters]
      BY <1>4, <2>3 DEF ControlReceive
    <3>2. ctl'.pc = "copy" /\ ctl'.seen = stats /\ ctl'.todo = Counters
      BY <1>0, <3>1
    <3> QED BY <1>0, <2>1, <3>2 DEF BracketInv
  <2>4. CASE op \in {"disable", "enable"}
    <3>1. ctl' = [ctl EXCEPT !.pc = "send", !.op = op]
      BY <1>4, <2>4 DEF ControlReceive
    <3>2. ctl'.op # "stats"
      BY <1>0, <2>4, <3>1
    <3> QED BY <3>2 DEF BracketInv
  <2> QED BY <2>2, <2>3, <2>4 DEF Opcodes
<1>5. CASE Main
  BY <1>1, <1>5, MainKeeps
<1>6. CASE Threads
  BY <1>1, <1>6 DEF Threads, SetSocket, IotReceive, IotCheck, IotCut, IotCountStore,
     FusionTransmit, FreeHistory, FusionReceiveFragment, HandleLostRequest, IotTransmit,
     IotTransmitStore, ctlVars
<1>7. CASE UNCHANGED vars
  BY <1>1, <1>7 DEF vars, ctlVars
<1> QED BY <1>2, <1>3, <1>4, <1>5, <1>6, <1>7 DEF Next, Answering

\* Each counter in an answer lies between its values when the request came and when
\* the answer goes out, although get_sensor_stats copies them while others count.
THEOREM AnswersAreBracketed == Spec => []StatsBracketed
<1>1. BracketInv => StatsBracketed
  BY DEF BracketInv, StatsBracketed
<1> QED BY <1>1, InitCount, StepCount, InitBracket, StepBracket, InitTypeInv, StepTypeInv,
           PTL DEF Spec

-------------------------------------------------------------------------------
(* Start-up: the ports *)

\* A step of start-up that ends no loop stays, and one that ends it starts the next.
LEMMA MainMoves ==
  ASSUME TypeInv, Main
  PROVE  \/ UNCHANGED <<main, k>>
         \/ main' = main /\ k' = k + 1 /\ k < Rounds[main]
         \/ main' = main + 1 /\ k' = 1 /\ k = Rounds[main]
<1> USE DEF TypeInv
<1>1. main \in 1..10
  BY DEF RoundOK
<1>2. CASE UNCHANGED <<main, k>>
  BY <1>2
<1>3. CASE ~UNCHANGED <<main, k>>
  <2>1. main < 10 /\ Round(Rounds[main])
    <3>1. CASE ReadSpiConf \/ StartServiceCheck \/ StartInotify \/ InitTerminalCluster
      BY <1>1, <1>3, <3>1, Places DEF ReadSpiConf, StartServiceCheck, StartInotify,
         InitTerminalCluster, Step, StartFails, Rounds
    <3>2. CASE ConfigParam \/ CreateSocket \/ CreateFifo \/ FeedBuffer \/ CreateThread
      BY <1>1, <1>3, <3>2, Places DEF ConfigParam, CreateSocket, CreateFifo, FeedBuffer,
         CreateThread, StartFails, Rounds
    <3>3. CASE CreatePoolFails \/ AttrInitFails
      BY <1>3, <3>3 DEF CreatePoolFails, AttrInitFails, StartFails
    <3> QED BY <3>1, <3>2, <3>3 DEF Main
  <2> QED BY <2>1, RoundKeeps
<1> QED BY <1>2, <1>3

\* Of a loop that is the n-th step, round i is done.
Done(n, i) == main > n \/ (main = n /\ i < k)

\* What a step adds to the rounds that are done is the round it is in.
LEMMA DoneGrows ==
  ASSUME TypeInv, Main, NEW n \in 1..9, NEW i \in 1..Rounds[n], Done(n, i)'
  PROVE  Done(n, i) \/ (main = n /\ k = i /\ <<main, k>>' # <<main, k>>)
<1>1. main \in 1..10 /\ k \in Int /\ Rounds[n] \in Int /\ Rounds[main] \in Int
  BY DEF TypeInv, RoundOK, Rounds
<1>2. k \in 1..Rounds[main]
  BY DEF TypeInv, RoundOK
<1>3. CASE UNCHANGED <<main, k>>
  BY <1>3 DEF Done
<1>4. CASE main' = main /\ k' = k + 1
  BY <1>1, <1>2, <1>4 DEF Done
<1>5. CASE main' = main + 1 /\ k' = 1 /\ k = Rounds[main]
  BY <1>1, <1>2, <1>5 DEF Done
<1> QED BY <1>3, <1>4, <1>5, MainMoves

\* And nothing that is done is undone.
LEMMA DoneStays ==
  ASSUME TypeInv, Main, NEW n \in 1..9, NEW i \in 1..Rounds[n], Done(n, i)
  PROVE  Done(n, i)'
<1>1. main \in 1..10 /\ k \in Int /\ Rounds[n] \in Int /\ Rounds[main] \in Int
  BY DEF TypeInv, RoundOK, Rounds
<1>2. k \in 1..Rounds[main]
  BY DEF TypeInv, RoundOK
<1>3. CASE UNCHANGED <<main, k>>
  BY <1>3 DEF Done
<1>4. CASE main' = main /\ k' = k + 1
  BY <1>1, <1>2, <1>4 DEF Done
<1>5. CASE main' = main + 1 /\ k' = 1 /\ k = Rounds[main]
  BY <1>1, <1>2, <1>5 DEF Done
<1> QED BY <1>3, <1>4, <1>5, MainMoves

\* What the other threads, the answers and the stutters leave alone.
LEMMA OthersKeep ==
  ASSUME [Next]_vars, ~Main
  PROVE  UNCHANGED <<main, k, file, value, ports, made, head, fed>>
<1>1. CASE Threads
  BY <1>1 DEF Threads, SetSocket, IotReceive, IotCheck, IotCut, IotCountStore,
     FusionTransmit, FreeHistory, FusionReceiveFragment, HandleLostRequest, IotTransmit,
     IotTransmitStore, startVars
<1>2. CASE Answering \/ \E op \in Opcodes : ControlReceive(op)
  BY <1>2 DEF Answering, CopyStats, ControlAnswer, ControlReceive, startVars
<1>3. CASE UNCHANGED vars
  BY <1>3 DEF vars, startVars
<1> QED BY <1>1, <1>2, <1>3 DEF Next

PortOK(p) ==
  /\ ports[p] # 0
  /\ \E i \in DOMAIN file : file[i].name = p /\ ports[p] = file[i].value % PortMod
PortsInv == \A i \in 1..3 : Done(4, i) => PortOK(Params[i])

LEMMA InitPorts == Init => PortsInv
BY DEF Init, PortsInv, Done

\* The port that is read, and not refused.
LEMMA ConfigParamReads ==
  ASSUME TypeInv, ConfigParam, <<main, k>>' # <<main, k>>, NEW p, p = Params[k]
  PROVE  PortOK(p)'
<1> USE DEF TypeInv, StartTyped
<1>1. k \in 1..3
  BY Places DEF ConfigParam, RoundOK, Rounds
<1>2. Params[k] \in ParamSet
  BY <1>1 DEF Params, ParamSet
<1>3. value' = GetConfigParam(Params[k]) /\ ~Refused(value') /\ file' = file
  BY DEF ConfigParam, StartFails
<1>4. ports' = [ports EXCEPT ![Params[k]] = CutTo16(value')]
  BY <1>3 DEF ConfigParam, Refused
<1>5. ports'[Params[k]] = value' % PortMod /\ value' % PortMod # 0
  BY <1>2, <1>3, <1>4 DEF Refused, CutTo16
<1>6. \E i \in DOMAIN file : file[i].name = Params[k] /\ file[i].value = value'
  BY <1>3, ConfigFound DEF Refused
<1> QED BY <1>3, <1>5, <1>6 DEF PortOK

LEMMA StepPorts == TypeInv /\ PortsInv /\ [Next]_vars => PortsInv'
<1> SUFFICES ASSUME TypeInv, PortsInv, [Next]_vars, NEW i \in 1..3, Done(4, i)'
             PROVE  PortOK(Params[i])'
  BY DEF PortsInv
<1>1. CASE ConfigParam
  <2>1. Done(4, i) \/ (main = 4 /\ k = i /\ <<main, k>>' # <<main, k>>)
    BY <1>1, DoneGrows DEF Main, Rounds
  <2>2. CASE k = i /\ <<main, k>>' # <<main, k>>
    BY <1>1, <2>2, ConfigParamReads
  <2>3. CASE Done(4, i) /\ k # i
    <3>1. file' = file /\ k \in 1..3
      BY <1>1, Places DEF ConfigParam, TypeInv, RoundOK, Rounds
    <3>2. Params[k] # Params[i] /\ Params[i] \in ParamSet /\ DOMAIN ports = ParamSet
      BY <2>3, <3>1 DEF Params, ParamSet, TypeInv, StartTyped
    <3>3. ports' = ports \/ ports' = [ports EXCEPT ![Params[k]] = CutTo16(value')]
      BY <1>1 DEF ConfigParam
    <3>4. ports'[Params[i]] = ports[Params[i]]
      BY <3>2, <3>3
    <3>5. PortOK(Params[i])
      BY <2>3 DEF PortsInv
    <3> QED BY <3>1, <3>4, <3>5 DEF PortOK
  <2>4. CASE Done(4, i) /\ k = i
    BY <1>1, <2>4, Places DEF Done, ConfigParam, TypeInv, RoundOK
  <2> QED BY <2>1, <2>2, <2>3, <2>4
<1>2. CASE ~ConfigParam
  <2>1. UNCHANGED <<file, ports>>
    <3>1. CASE Main
      BY <1>2, <3>1 DEF Main, ReadSpiConf, StartServiceCheck, StartInotify, CreateSocket,
         CreateFifo, CreatePoolFails, FeedBuffer, InitTerminalCluster, CreateThread,
         AttrInitFails
    <3> QED BY <3>1, OthersKeep
  <2>2. Done(4, i)
    <3>1. CASE Main
      <4>1. CASE main = 4
        BY <1>2, <3>1, <4>1, Places DEF Main, ReadSpiConf, StartServiceCheck, StartInotify,
           CreateSocket, CreateFifo, CreatePoolFails, FeedBuffer, InitTerminalCluster,
           CreateThread, AttrInitFails
      <4>2. CASE main # 4
        BY <3>1, <4>2, DoneGrows DEF Rounds
      <4> QED BY <4>1, <4>2
    <3>2. CASE ~Main
      BY <3>2, OthersKeep DEF Done
    <3> QED BY <3>1, <3>2
  <2>3. PortOK(Params[i])
    BY <2>2 DEF PortsInv
  <2> QED BY <2>1, <2>3 DEF PortOK
<1> QED BY <1>1, <1>2

\* Each port is what a line with its name says, cut to 16 bits, and is not zero,
\* whatever the file holds: get_configuration takes each from the static buffer of
\* get_config_param before the next is read.
THEOREM PortsAreConfigured == Spec => []PortsConfigured
<1>1. TypeInv /\ PortsInv => PortsConfigured
  <2> SUFFICES ASSUME TypeInv, PortsInv, After("config"), NEW p \in ParamSet
               PROVE  PortOK(p)
    BY DEF PortsConfigured, PortOK
  <2>1. PICK j \in 1..(main - 1) : Order[j] = "config"
    BY DEF After
  <2>2. j \in 1..9 /\ j < main /\ main \in 1..10
    BY DEF TypeInv, RoundOK
  <2>3. j = 4
    BY <2>1, <2>2 DEF Order
  <2>4. PICK i \in 1..3 : p = Params[i]
    BY DEF Params, ParamSet
  <2> QED BY <2>2, <2>3, <2>4 DEF PortsInv, Done
<1> QED BY <1>1, InitPorts, StepPorts, InitTypeInv, StepTypeInv, PTL DEF Spec

-------------------------------------------------------------------------------
(* Start-up: what the threads share *)

MadeInv ==
  /\ \A i \in 1..4 : Done(5, i) => Sockets[i] \in made
  /\ \A i \in 1..5 : Done(6, i) => Fifos[i] \in made

\* The buffers of a pool go to its Fifo in their order.
Fed(p) == Len(fed[p]) = head[p] /\ \A j \in 1..head[p] : fed[p][j] = j - 1
PoolInv ==
  /\ \A p \in PoolSet : Fed(p)
  /\ \A i \in 1..2 : IF Done(7, i) THEN head[Pools[i]] = PoolSize - 1
                                  ELSE head[Pools[i]] < PoolSize - 1

NoThreads == main < 9 => \A r \in RoutineSet : thread[r] = "off"
StartInv == MadeInv /\ PoolInv /\ NoThreads

LEMMA InitStart == Init => StartInv
<1> SUFFICES ASSUME Init PROVE StartInv
  OBVIOUS
<1>1. \A p \in PoolSet : Fed(p) /\ head[p] = 0
  BY DEF Init, Fed
<1>2. 0 < PoolSize - 1
  BY ServiceAssumption
<1>3. ASSUME NEW i \in 1..2 PROVE ~Done(7, i) /\ head[Pools[i]] < PoolSize - 1
  <2>1. Pools[i] \in PoolSet
    BY DEF Pools, PoolSet
  <2>2. head[Pools[i]] = 0
    BY <1>1, <2>1
  <2> QED BY <1>2, <2>2 DEF Init, Done
<1>4. PoolInv
  BY <1>1, <1>3 DEF PoolInv
<1>5. MadeInv /\ NoThreads
  BY DEF Init, MadeInv, NoThreads, Done
<1> QED BY <1>4, <1>5 DEF StartInv

LEMMA StepMade == TypeInv /\ MadeInv /\ [Next]_vars => MadeInv'
<1> SUFFICES ASSUME TypeInv, MadeInv, [Next]_vars PROVE MadeInv'
  OBVIOUS
<1>1. CASE ~Main
  BY <1>1, OthersKeep DEF MadeInv, Done
<1>2. CASE Main
  <2>1. made \subseteq made'
    BY <1>2 DEF Main, ReadSpiConf, StartServiceCheck, StartInotify, ConfigParam, CreateSocket,
       CreateFifo, CreatePoolFails, FeedBuffer, InitTerminalCluster, CreateThread,
       AttrInitFails
  <2>2. ASSUME NEW i \in 1..4, Done(5, i)' PROVE Sockets[i] \in made'
    <3>1. CASE Done(5, i)
      BY <2>1, <3>1 DEF MadeInv
    <3>2. CASE main = 5 /\ k = i /\ <<main, k>>' # <<main, k>>
      BY <1>2, <3>2, Places DEF Main, ReadSpiConf, StartServiceCheck, StartInotify,
         ConfigParam, CreateSocket, CreateFifo, CreatePoolFails, FeedBuffer,
         InitTerminalCluster, CreateThread, AttrInitFails, StartFails
    <3> QED BY <1>2, <2>2, <3>1, <3>2, DoneGrows DEF Rounds
  <2>3. ASSUME NEW i \in 1..5, Done(6, i)' PROVE Fifos[i] \in made'
    <3>1. CASE Done(6, i)
      BY <2>1, <3>1 DEF MadeInv
    <3>2. CASE main = 6 /\ k = i /\ <<main, k>>' # <<main, k>>
      BY <1>2, <3>2, Places DEF Main, ReadSpiConf, StartServiceCheck, StartInotify,
         ConfigParam, CreateSocket, CreateFifo, CreatePoolFails, FeedBuffer,
         InitTerminalCluster, CreateThread, AttrInitFails, StartFails
    <3> QED BY <1>2, <2>3, <3>1, <3>2, DoneGrows DEF Rounds
  <2> QED BY <2>2, <2>3 DEF MadeInv
<1> QED BY <1>1, <1>2

\* A pool that lends a buffer has not lent its last but one, and a full one blocks.
LEMMA SpaceLeft ==
  ASSUME NEW p \in PoolSet, head[p] \in 0..(PoolSize - 1), CircSpace(p) >= 1
  PROVE  head[p] < PoolSize - 1 /\ NextHead(p) = head[p] + 1
<1>1. PoolSize \in Nat \ {0, 1}
  BY ServiceAssumption
<1>2. CASE head[p] = PoolSize - 1
  <2>1. CircSpace(p) = (0 - PoolSize) % PoolSize
    BY <1>1, <1>2 DEF CircSpace
  <2>2. 0 - PoolSize = 0 + PoolSize * (-1)
    BY <1>1
  <2>3. (0 - PoolSize) % PoolSize = 0
    BY <1>1, <2>2, Z3
  <2> QED BY <2>1, <2>3
<1>3. CASE head[p] # PoolSize - 1
  <2>1. head[p] + 1 \in 0..(PoolSize - 1)
    BY <1>1, <1>3
  <2> QED BY <1>1, <1>3, <2>1, ModSmall DEF NextHead
<1> QED BY <1>2, <1>3

LEMMA StepPool == TypeInv /\ PoolInv /\ [Next]_vars => PoolInv'
<1> SUFFICES ASSUME TypeInv, PoolInv, [Next]_vars PROVE PoolInv'
  OBVIOUS
<1>1. CASE ~Main
  BY <1>1, OthersKeep DEF PoolInv, Fed, Done
<1>2. CASE Main /\ ~FeedBuffer
  <2>1. UNCHANGED <<head, fed>>
    BY <1>2 DEF Main, ReadSpiConf, StartServiceCheck, StartInotify, ConfigParam, CreateSocket,
       CreateFifo, CreatePoolFails, FeedBuffer, InitTerminalCluster, CreateThread,
       AttrInitFails
  <2>2. ASSUME NEW i \in 1..2 PROVE Done(7, i)' <=> Done(7, i)
    <3>1. CASE Done(7, i)
      BY <1>2, <3>1, DoneStays DEF Rounds
    <3>2. CASE Done(7, i)'
      <4>1. CASE main = 7 /\ k = i /\ <<main, k>>' # <<main, k>>
        BY <1>2, <4>1, Places DEF Main, ReadSpiConf, StartServiceCheck, StartInotify,
           ConfigParam, CreateSocket, CreateFifo, CreatePoolFails,
           InitTerminalCluster, CreateThread, AttrInitFails, StartFails
      <4> QED BY <1>2, <3>2, <4>1, DoneGrows DEF Rounds
    <3> QED BY <3>1, <3>2
  <2> QED BY <2>1, <2>2 DEF PoolInv, Fed
<1>3. CASE FeedBuffer
  <2> DEFINE p == Pools[k]
  <2>1. main = 7 /\ k \in 1..2
    BY <1>3, Places DEF FeedBuffer, TypeInv, RoundOK, Rounds
  <2>2. p \in PoolSet
    BY <2>1 DEF Pools, PoolSet
  <2>3. /\ CircSpace(p) >= 1
        /\ fed' = [fed EXCEPT ![p] = Append(fed[p], head[p])]
        /\ head' = [head EXCEPT ![p] = NextHead(p)]
        /\ <<main, k>>' # <<main, k>> => Len(fed'[p]) = FeedCount
    BY <1>3 DEF FeedBuffer
  <2> HIDE DEF p
  <2>4. /\ head \in [PoolSet -> 0..(PoolSize - 1)] /\ fed \in [PoolSet -> Seq(Nat)]
        /\ PoolSize \in Nat \ {0, 1}
    BY ServiceAssumption DEF TypeInv, StartTyped
  <2>5. head[p] < PoolSize - 1 /\ NextHead(p) = head[p] + 1
    BY <2>2, <2>3, <2>4, SpaceLeft
  <2>6. \A q \in PoolSet : head'[q] = IF q = p THEN head[p] + 1 ELSE head[q]
    BY <2>3, <2>4, <2>5
  <2>7. \A q \in PoolSet : fed'[q] = IF q = p THEN Append(fed[p], head[p]) ELSE fed[q]
    BY <2>3, <2>4
  <2>8. Fed(p) /\ head[p] \in Nat /\ fed[p] \in Seq(Nat)
    BY <2>2, <2>4 DEF PoolInv
  <2>9. /\ Len(fed'[p]) = head[p] + 1
        /\ \A j \in 1..(head[p] + 1) : fed'[p][j] = j - 1
    <3>1. /\ Len(Append(fed[p], head[p])) = Len(fed[p]) + 1
          /\ \A j \in 1..Len(fed[p]) : Append(fed[p], head[p])[j] = fed[p][j]
          /\ Append(fed[p], head[p])[Len(fed[p]) + 1] = head[p]
      BY <2>8, AppendProperties
    <3>2. fed'[p] = Append(fed[p], head[p])
      BY <2>2, <2>7
    <3>3. Len(fed[p]) = head[p] /\ \A j \in 1..head[p] : fed[p][j] = j - 1
      BY <2>8 DEF Fed
    <3>4. ASSUME NEW j \in 1..(head[p] + 1) PROVE fed'[p][j] = j - 1
      <4>1. CASE j = head[p] + 1
        BY <2>8, <3>1, <3>2, <3>3, <4>1
      <4>2. CASE j \in 1..head[p]
        BY <3>1, <3>2, <3>3, <4>2
      <4> QED BY <2>8, <4>1, <4>2
    <3> QED BY <3>1, <3>2, <3>3, <3>4
  <2>10. ASSUME NEW q \in PoolSet PROVE Fed(q)'
    <3>1. CASE q = p
      BY <2>2, <2>6, <2>9, <3>1 DEF Fed
    <3>2. CASE q # p
      BY <2>6, <2>7, <2>10, <3>2 DEF PoolInv, Fed
    <3> QED BY <3>1, <3>2
  <2>11. ASSUME NEW i \in 1..2
         PROVE  IF Done(7, i)' THEN head'[Pools[i]] = PoolSize - 1
                               ELSE head'[Pools[i]] < PoolSize - 1
    <3>1. Pools[i] \in PoolSet /\ (Pools[i] = p <=> i = k)
      BY <2>1 DEF Pools, PoolSet, p
    <3>2. CASE i # k
      <4>1. Done(7, i)' <=> Done(7, i)
        BY <1>3, <3>2, DoneGrows, DoneStays DEF Main, Rounds
      <4>2. head'[Pools[i]] = head[Pools[i]]
        BY <2>6, <3>1, <3>2
      <4> QED BY <4>1, <4>2 DEF PoolInv
    <3>3. CASE i = k /\ Len(fed'[p]) = FeedCount
      <4>1. head'[Pools[i]] = PoolSize - 1
        BY <2>2, <2>6, <2>9, <3>1, <3>3 DEF FeedCount
      <4>2. Done(7, i)'
        BY <1>3, <2>1, <3>3 DEF FeedBuffer, Round, Done, p
      <4> QED BY <4>1, <4>2
    <3>4. CASE i = k /\ Len(fed'[p]) # FeedCount
      <4>1. head'[Pools[i]] < PoolSize - 1
        BY <2>2, <2>4, <2>5, <2>6, <2>9, <3>1, <3>4 DEF FeedCount
      <4>2. ~Done(7, i)'
        BY <2>1, <2>3, <3>4 DEF Done
      <4> QED BY <4>1, <4>2
    <3> QED BY <3>2, <3>3, <3>4
  <2> QED BY <2>10, <2>11 DEF PoolInv
<1> QED BY <1>1, <1>2, <1>3

LEMMA StepNoThreads == TypeInv /\ NoThreads /\ [Next]_vars => NoThreads'
<1> SUFFICES ASSUME TypeInv, NoThreads, [Next]_vars, main' < 9, NEW r \in RoutineSet
             PROVE  thread'[r] = "off"
  BY DEF NoThreads
<1>1. main \in 1..10
  BY DEF TypeInv, RoundOK
<1>2. CASE Main
  <2>1. main' \in {main, main + 1} /\ (thread' = thread \/ main = 9)
    BY <1>2, MainOrder
  <2> QED BY <1>1, <2>1 DEF NoThreads
<1>3. CASE ~Main
  <2>1. main' = main /\ \A q \in RoutineSet : thread[q] = "off"
    BY <1>3, OthersKeep DEF NoThreads
  <2>2. ~\E q \in Setters : SetSocket(q)
    BY <2>1 DEF SetSocket, Setters, RoutineSet, Routines
  <2>3. thread' = thread
    <3>1. CASE Threads
      BY <2>2, <3>1 DEF Threads, IotReceive, IotCheck, IotCut, IotCountStore,
         FusionTransmit, FreeHistory, FusionReceiveFragment, HandleLostRequest, IotTransmit,
         IotTransmitStore
    <3>2. CASE Answering \/ \E op \in Opcodes : ControlReceive(op)
      BY <3>2 DEF Answering, CopyStats, ControlAnswer, ControlReceive
    <3> QED BY <1>3, <3>1, <3>2 DEF Next, vars
  <2> QED BY <2>1, <2>3
<1> QED BY <1>2, <1>3

\* Nothing is put back in a pool while it is fed, so feeding must not wait for that: it
\* ends one buffer before the pool is empty, for every size of the pools.
THEOREM PoolsAreFed == Spec => []FeedNeverWaits
<1>1. TypeInv /\ StartInv => FeedNeverWaits
  <2> SUFFICES ASSUME TypeInv, StartInv, At("pools") PROVE CircSpace(Pools[k]) >= 1
    BY DEF FeedNeverWaits
  <2>1. main = 7 /\ k \in 1..2 /\ Pools[k] \in PoolSet
    BY Places DEF TypeInv, RoundOK, Rounds, Pools, PoolSet
  <2>2. ~Done(7, k)
    BY <2>1 DEF Done
  <2>3. head[Pools[k]] < PoolSize - 1
    BY <2>1, <2>2 DEF StartInv, PoolInv
  <2>4. head[Pools[k]] \in Nat /\ PoolSize \in Nat \ {0, 1}
    BY <2>1, ServiceAssumption DEF TypeInv, StartTyped
  <2>5. head[Pools[k]] + 1 \in 1..(PoolSize - 1)
    BY <2>3, <2>4
  <2>6. CircSpace(Pools[k]) = PoolSize - (head[Pools[k]] + 1)
    BY <2>4, <2>5, ModNegative DEF CircSpace
  <2> QED BY <2>3, <2>4, <2>6
<1>2. TypeInv /\ StartInv /\ [Next]_vars => StartInv'
  BY StepMade, StepPool, StepNoThreads DEF StartInv
<1> QED BY <1>1, <1>2, InitStart, InitTypeInv, StepTypeInv, PTL DEF Spec

\* A thread finds all that start_udp_service makes for it: the sockets and Fifos, and
\* in each of the two that are fed as many different buffers as its pool lends, for
\* every size of the pools.
THEOREM ThreadsAreEquipped == Spec => []ThreadsEquipped
<1>1. TypeInv /\ StartInv => ThreadsEquipped
  <2> SUFFICES ASSUME TypeInv, StartInv, NEW r \in RoutineSet, thread[r] # "off"
               PROVE  /\ made = ResourceSet
                      /\ \A p \in PoolSet :
                           /\ Len(fed[p]) = PoolSize - 1
                           /\ \A i, j \in 1..(PoolSize - 1) :
                                /\ fed[p][i] \in 0..(PoolSize - 1)
                                /\ fed[p][i] = fed[p][j] => i = j
    BY DEF ThreadsEquipped
  <2>1. main \in 9..10
    BY DEF TypeInv, RoundOK, StartInv, NoThreads
  <2>2. /\ \A i \in 1..4 : Done(5, i)
        /\ \A i \in 1..5 : Done(6, i)
        /\ \A i \in 1..2 : Done(7, i)
    BY <2>1 DEF Done
  <2>3. made = ResourceSet
    BY <2>2 DEF StartInv, MadeInv, ResourceSet, TypeInv, StartTyped
  <2>4. ASSUME NEW p \in PoolSet
        PROVE  /\ Len(fed[p]) = PoolSize - 1
               /\ \A i, j \in 1..(PoolSize - 1) :
                    fed[p][i] \in 0..(PoolSize - 1) /\ (fed[p][i] = fed[p][j] => i = j)
    <3>1. PICK n \in 1..2 : p = Pools[n]
      BY DEF Pools, PoolSet
    <3>2. head[p] = PoolSize - 1
      BY <2>2, <3>1 DEF StartInv, PoolInv
    <3>3. Len(fed[p]) = PoolSize - 1 /\ \A i \in 1..(PoolSize - 1) : fed[p][i] = i - 1
      BY <3>2 DEF StartInv, PoolInv, Fed
    <3> QED BY <3>3, ServiceAssumption
  <2> QED BY <2>3, <2>4
<1>2. TypeInv /\ StartInv /\ [Next]_vars => StartInv'
  BY StepMade, StepPool, StepNoThreads DEF StartInv
<1> QED BY <1>1, <1>2, InitStart, InitTypeInv, StepTypeInv, PTL DEF Spec
-------------------------------------------------------------------------------
(* Sockets that are used before they are set *)

\* A thread that start_udp_service has not come to is not there.
NotYet == \A i \in 1..6 : ~Done(9, i) => thread[Routines[i]] = "off"

\* What is queued for fusion or kept in the history was received and counted, what is
\* queued for the device was taken by a thread that runs, and a setter that runs has
\* set its socket.
TrafficInv ==
  /\ toFusion + kept <= counted["pkts_sent"]
  /\ toDevice > 0 => thread["fusion_receive"] = "on"
  /\ thread["r_udp"] = "on" => sockTx
  /\ thread["r_udp_req"] = "on" => fusionSock
  /\ NullNeedsTraffic
SocketInv == NotYet /\ TrafficInv

LEMMA InitSocket == Init => SocketInv
<1> SUFFICES ASSUME Init PROVE SocketInv
  OBVIOUS
<1>1. \A r \in RoutineSet : thread[r] = "off"
  BY DEF Init
<1>2. /\ \A i \in 1..6 : Routines[i] \in RoutineSet
      /\ {"fusion_receive", "r_udp", "r_udp_req"} \subseteq RoutineSet
  BY DEF RoutineSet, Routines
<1> QED BY <1>1, <1>2 DEF Init, SocketInv, NotYet, TrafficInv, NullNeedsTraffic, Zero, Counters

\* main() starts its threads once each, and sets no socket.
LEMMA MainSocket == TypeInv /\ SocketInv /\ Main => SocketInv'
<1> SUFFICES ASSUME TypeInv, SocketInv, Main PROVE SocketInv'
  OBVIOUS
<1> USE DEF SocketInv
<1>1. UNCHANGED <<toFusion, kept, toDevice, counted, sockTx, fusionSock>> /\ Running
  BY DEF Main, ReadSpiConf, StartServiceCheck, StartInotify, ConfigParam, CreateSocket,
     CreateFifo, CreatePoolFails, FeedBuffer, InitTerminalCluster, CreateThread,
     AttrInitFails, threadVars, setVars, flowVars, ghosts, At
<1>2. status' \notin {"nullTx", "nullReq"}
  BY <1>1, MainKeeps DEF Running
<1>3. CASE thread' = thread
  <2>1. NotYet'
    <3> SUFFICES ASSUME NEW i \in 1..6, ~Done(9, i)' PROVE thread'[Routines[i]] = "off"
      BY DEF NotYet
    <3>1. ~Done(9, i)
      BY DoneStays DEF Rounds
    <3> QED BY <1>3, <3>1 DEF NotYet
  <2> QED BY <1>1, <1>2, <1>3, <2>1 DEF TrafficInv, NullNeedsTraffic
<1>4. CASE main = 9 /\ CreateThread
  <2> DEFINE r == Routines[k]
  <2>1. k \in 1..6 /\ r \in RoutineSet /\ ~Done(9, k)
    BY <1>4 DEF TypeInv, RoundOK, Rounds, RoutineSet, Done
  <2>2. thread[r] = "off"
    BY <2>1 DEF NotYet
  <2>3. \/ thread' = [thread EXCEPT ![r] = IF r \in Setters THEN "starting" ELSE "on"]
        \/ thread' = [thread EXCEPT ![r] = "ended"]
    BY <1>4 DEF CreateThread
  <2>4. thread \in [RoutineSet -> {"off", "starting", "on", "ended"}]
    BY DEF TypeInv, ThreadTyped
  <2>5. \A q \in RoutineSet : q # r => thread'[q] = thread[q]
    BY <2>3, <2>4
  <2>6. r \in Setters => thread'[r] # "on"
    BY <2>1, <2>3, <2>4
  <2>7. NotYet'
    <3> SUFFICES ASSUME NEW i \in 1..6, ~Done(9, i)' PROVE thread'[Routines[i]] = "off"
      BY DEF NotYet
    <3>1. ~Done(9, i)
      BY DoneStays DEF Rounds
    <3>2. i # k
      BY <1>4, <2>1 DEF CreateThread, Round, Done
    <3>3. Routines[i] # r /\ Routines[i] \in RoutineSet
      BY <2>1, <3>2 DEF Routines, RoutineSet
    <3> QED BY <2>5, <3>1, <3>3 DEF NotYet
  <2>8. /\ thread'["r_udp"] = "on" => thread["r_udp"] = "on"
        /\ thread'["r_udp_req"] = "on" => thread["r_udp_req"] = "on"
        /\ thread["fusion_receive"] = "on" => thread'["fusion_receive"] = "on"
    <3>1. {"fusion_receive", "r_udp", "r_udp_req"} \subseteq RoutineSet
      BY DEF RoutineSet, Routines
    <3>2. "r_udp" \in Setters /\ "r_udp_req" \in Setters
      BY DEF Setters
    <3> QED BY <2>2, <2>5, <2>6, <3>1, <3>2
  <2> QED BY <1>1, <1>2, <2>7, <2>8 DEF TrafficInv, NullNeedsTraffic
<1> QED BY <1>3, <1>4, MainOrder

\* A setter comes to run, and has its socket.
LEMMA SetterSocket == TypeInv /\ SocketInv /\ (\E r \in Setters : SetSocket(r)) => SocketInv'
<1> SUFFICES ASSUME TypeInv, SocketInv, NEW r \in Setters, SetSocket(r) PROVE SocketInv'
  OBVIOUS
<1> USE DEF SocketInv
<1>1. /\ status = "run" /\ status' = status /\ thread[r] = "starting"
      /\ thread' = [thread EXCEPT ![r] = "on"]
      /\ sockTx' = (sockTx \/ r = "r_udp") /\ fusionSock' = (fusionSock \/ r = "r_udp_req")
      /\ UNCHANGED <<main, k, toFusion, kept, toDevice, counted>>
  BY DEF SetSocket, Running, startVars, flowVars, ghosts
<1>2. thread \in [RoutineSet -> {"off", "starting", "on", "ended"}] /\ r \in RoutineSet
  BY DEF TypeInv, ThreadTyped, Setters, RoutineSet, Routines
<1>3. \A q \in RoutineSet : thread'[q] = IF q = r THEN "on" ELSE thread[q]
  BY <1>1, <1>2
<1>4. /\ {"fusion_receive", "r_udp", "r_udp_req"} \subseteq RoutineSet
      /\ \A i \in 1..6 : Routines[i] \in RoutineSet
  BY DEF RoutineSet, Routines
<1>5. NotYet'
  <2> SUFFICES ASSUME NEW i \in 1..6, ~Done(9, i)' PROVE thread'[Routines[i]] = "off"
    BY DEF NotYet
  <2>1. thread[Routines[i]] = "off"
    BY <1>1 DEF NotYet, Done
  <2> QED BY <1>1, <1>3, <1>4, <2>1
<1>6. TrafficInv'
  BY <1>1, <1>3, <1>4 DEF TrafficInv, NullNeedsTraffic
<1> QED BY <1>5, <1>6

LEMMA StepSocket == TypeInv /\ SocketInv /\ [Next]_vars => SocketInv'
<1> SUFFICES ASSUME TypeInv, SocketInv, [Next]_vars PROVE SocketInv'
  OBVIOUS
<1>0. /\ toFusion \in Nat /\ kept \in Nat /\ toDevice \in Nat
      /\ counted \in [Counters -> Nat]
      /\ "pkts_sent" \in Counters /\ "pkts_recv" \in Counters /\ "pkts_err" \in Counters
  BY DEF TypeInv, FlowTyped, Counters
<1>1. counted["pkts_sent"] \in Nat
  BY <1>0
<1> USE DEF SocketInv
\* Whatever moves no thread and sets no socket leaves TrafficInv to show.
<1>2. ASSUME UNCHANGED <<main, k, thread>> PROVE NotYet'
  BY <1>2 DEF NotYet, Done
<1> USE DEF TrafficInv, NullNeedsTraffic
<1>3. CASE UNCHANGED <<main, k, thread, toFusion, kept, toDevice, counted, status, sockTx,
                       fusionSock>>
  BY <1>2, <1>3
<1>4. CASE IotCut
  <2> DEFINE c == IotCounter
  <2>1. /\ UNCHANGED <<main, k, thread, kept, toDevice, status, sockTx, fusionSock>>
        /\ toFusion' = IF iot.res = "data" THEN toFusion + 1 ELSE toFusion
        /\ counted' = [counted EXCEPT ![c] = counted[c] + 1]
        /\ status = "run"
    BY <1>4 DEF IotCut, startVars, setVars, On, Running
  <2>2. CASE iot.res = "data"
    BY <1>0, <1>1, <1>2, <2>1, <2>2 DEF IotCounter
  <2>3. CASE iot.res # "data"
    BY <1>0, <1>1, <1>2, <2>1, <2>3 DEF IotCounter
  <2> QED BY <2>2, <2>3
<1>5. CASE FusionTransmit \/ FreeHistory
  BY <1>0, <1>1, <1>2, <1>5 DEF FusionTransmit, FreeHistory, startVars, setVars, ghosts
<1>6. CASE FusionReceiveFragment
  BY <1>2, <1>6 DEF FusionReceiveFragment, startVars, setVars, ghosts, On
<1>7. CASE HandleLostRequest
  <2>1. /\ UNCHANGED <<main, k, thread, toFusion, kept, toDevice, counted, sockTx, fusionSock>>
        /\ status' = "nullTx" /\ kept > 0 /\ ~sockTx
    BY <1>7 DEF HandleLostRequest, Found, startVars, setVars, flowVars, ghosts
  <2> QED BY <1>0, <1>1, <1>2, <2>1
<1>8. CASE IotTransmit
  <2>1. /\ UNCHANGED <<main, k, thread, toFusion, kept, sockTx, fusionSock>>
        /\ toDevice > 0 /\ toDevice' = toDevice - 1 /\ status = "run"
        /\ status' = "run" \/ (status' = "nullReq" /\ ~fusionSock)
    BY <1>8 DEF IotTransmit, startVars, setVars, On, Running
  <2>2. counted' = counted \/ counted' = [counted EXCEPT !["pkts_recv"] = @ + 1]
    BY <1>8 DEF IotTransmit
  <2>3. counted'["pkts_sent"] = counted["pkts_sent"]
    BY <1>0, <2>2
  <2>4. NotYet'
    BY <1>2, <2>1
  <2>5. TrafficInv'
    BY <1>0, <2>1, <2>3
  <2> QED BY <2>4, <2>5
<1>9. CASE IotReceive \/ IotCheck \/ IotCountStore \/ IotTransmitStore
  BY <1>3, <1>9 DEF IotReceive, IotCheck, IotCountStore, IotTransmitStore, startVars,
     setVars, flowVars, ghosts
<1>10. CASE Answering \/ \E op \in Opcodes : ControlReceive(op)
  BY <1>3, <1>10 DEF Answering, CopyStats, ControlAnswer, ControlReceive, startVars, setVars,
     flowVars, ghosts
<1>11. CASE UNCHANGED vars
  BY <1>3, <1>11 DEF vars, startVars, setVars, flowVars, ghosts
<1> QED BY <1>4, <1>5, <1>6, <1>7, <1>8, <1>9, <1>10, <1>11, MainSocket, SetterSocket
        DEF Next, Threads

\* The sockets that r_udp_routine and r_udp_req_routine set for other threads: neither is
\* used before it is set unless its setter does not run, and then only after a datagram
\* of the device has come to the history, or a fragment for the device has come.
THEOREM RequestsHarmlessWithoutTraffic == Spec => []NullNeedsTraffic
<1>1. SocketInv => NullNeedsTraffic
  BY DEF SocketInv, TrafficInv
<1> QED BY <1>1, InitSocket, StepSocket, InitTypeInv, StepTypeInv, PTL DEF Spec
===============================================================================
