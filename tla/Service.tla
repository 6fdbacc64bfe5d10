------------------------------- MODULE Service -------------------------------
(***************************************************************************)
(* The process as a whole: main() and start_udp_service, which make what   *)
(* the threads share and then start them; the control thread               *)
(* (service_check.c), which disables and enables the service and reports   *)
(* the counters of sensor_stats.c while the others count; and the six      *)
(* threads, as far as they read the switch, count, or use what another     *)
(* thread sets.  TxPath, RxPath and Fifo say what they do to the data.     *)
(*                                                                         *)
(* The thread of inotify.c is part of HSLog.                               *)
(***************************************************************************)
EXTENDS Integers, Sequences, FiniteSets

CONSTANTS
  Configs,     \* contents of the file of the ports: sequences of lines
  PoolSize,    \* MAX_BUFFER_ELEMS (64)
  MaxEvents,   \* bound: results that each thread counts
  MaxMsgs,     \* bound: control messages
  MaxMissing   \* bound: threads that are missing

Params   == <<"IOT_Device_Port", "Fusion_RxPort", "Fusion_TxPort">>
ParamSet == {"IOT_Device_Port", "Fusion_RxPort", "Fusion_TxPort"}
NoValue  == -1
\* A line of the file is what stands before its first ":" ("" when it is blank) and
\* the number after it, if any.

ASSUME ServiceAssumption ==
  /\ Configs \subseteq Seq([name : STRING, value : Nat \cup {NoValue}])
  /\ PoolSize \in Nat \ {0, 1} /\ MaxEvents \in Nat /\ MaxMsgs \in Nat
  /\ MaxMissing \in Nat

Pools   == <<"IOT_rxBuffer", "fusionRxMsgBuffer">>
PoolSet == {"IOT_rxBuffer", "fusionRxMsgBuffer"}
Sockets == <<"IOTSocket", "fusionRxSocket", "fusionTxSocket", "rUDPsocket">>
Fifos   == <<"IotThrInFifo", "IotThrOutFifo", "fusionThrInFifo", "fusionThrOutFifo",
             "rUdpThrInFifo">>
ResourceSet == {Sockets[i] : i \in 1..4} \cup {Fifos[i] : i \in 1..5}
Routines == <<"iot_receive", "iot_transmit", "fusion_transmit", "fusion_receive",
              "r_udp", "r_udp_req">>
RoutineSet == {Routines[i] : i \in 1..6}
Counters   == {"pkts_sent", "pkts_recv", "pkts_err"}
Opcodes    == {"disable", "enable", "stats", "unknown"}

\* The order of the steps of main() and start_udp_service.  Faulty variant.
OrderSpiLate == <<"check", "spi", "inotify", "config", "sockets", "fifos", "pools",
                  "terminals", "threads", "run">>
Order == <<"spi", "check", "inotify", "config", "sockets", "fifos", "pools",
           "terminals", "threads", "run">>

VARIABLES
  main, k,      \* main(): the place in Order, and the round in its loop
  file,         \* the file of the ports
  value, ports, \* the static buffer of get_config_param, and the ports taken from it
  made,         \* sockets and Fifos that exist
  head, fed,    \* of each pool: its head, and the buffers put in the Fifo
  thread,       \* of each routine: "off", "starting", "on", "ended"
  controlOn,    \* whether service_control runs
  sockTx, fusionSock, \* whether r_udp_routine, r_udp_req_routine have set them
  service_disabled,
  iot, itx,     \* iot_receive_routine and iot_transmit_routine
  toFusion, kept, toDevice, \* fragments in IotThrOutFifo, history, fusionThrOutFifo
  stats,        \* the global of sensor_stats.c
  ctl,          \* service_control
  status,       \* "run"; "failed", main() returned; or what pointer was NULL
  counted,      \* history variable: the results that were to be counted
  lastSwitch,   \* history variable: the last of "disable" and "enable" to be taken
  since,        \* history variable: the switch from udp_recv to its check
  nMsgs         \* control messages with a known opcode

startVars == <<main, k, file, value, ports, made, head, fed>>
setVars   == <<sockTx, fusionSock>>
flowVars  == <<toFusion, kept, toDevice>>
ctlVars   == <<ctl, service_disabled, lastSwitch, nMsgs>>
ghosts    == <<counted, since>>
vars == <<startVars, thread, controlOn, setVars, iot, itx, flowVars, stats, ctlVars,
          status, ghosts>>

Running   == status = "run"
At(step)  == Running /\ Order[main] = step
On(r)     == Running /\ thread[r] = "on"
Zero      == [c \in Counters |-> 0]
IotIdle   == [pc |-> "recv", res |-> "none", val |-> 0]
ItxIdle   == [pc |-> "get", val |-> 0]
CtlIdle   == [pc |-> "poll", op |-> "unknown", copy |-> Zero, seen |-> Zero, todo |-> {}]

Init ==
  /\ main = 1 /\ k = 1
  /\ file \in Configs /\ value = NoValue /\ ports = [p \in ParamSet |-> 0]
  /\ made = {} /\ head = [p \in PoolSet |-> 0] /\ fed = [p \in PoolSet |-> <<>>]
  /\ thread = [r \in RoutineSet |-> "off"] /\ controlOn = FALSE
  /\ sockTx = FALSE /\ fusionSock = FALSE /\ service_disabled = FALSE
  /\ iot = IotIdle /\ itx = ItxIdle
  /\ toFusion = 0 /\ kept = 0 /\ toDevice = 0
  /\ stats = Zero /\ ctl = CtlIdle /\ status = "run"
  /\ counted = Zero /\ lastSwitch = "none" /\ since = {} /\ nMsgs = 0

-------------------------------------------------------------------------------
(* main() and start_udp_service *)

\* On to the next round of a loop of n, or to the next step.
Round(n)   == IF k < n THEN k' = k + 1 /\ main' = main
                       ELSE k' = 1 /\ main' = main + 1
Step       == Round(1)
\* An error: main() returns, and the process ends.
StartFails == status' = "failed" /\ UNCHANGED <<main, k>>
threadVars == <<setVars, iot, itx, flowVars, stats, ghosts>>

\* read_spi_conf, which does not read: service_id is SERVICE_ID_UDP.
ReadSpiConf ==
  /\ At("spi") /\ Step
  /\ service_disabled' = FALSE
  /\ UNCHANGED <<file, value, ports, made, head, fed, thread, controlOn, threadVars,
                 ctl, lastSwitch, nMsgs, status>>

\* start_service_check binds its socket and starts service_control.
StartServiceCheck ==
  /\ At("check")
  /\ \/ Step /\ controlOn' = TRUE /\ UNCHANGED status
     \/ StartFails /\ UNCHANGED controlOn
  /\ UNCHANGED <<file, value, ports, made, head, fed, thread, threadVars, ctlVars>>

\* start_inotify_service.
StartInotify ==
  /\ At("inotify")
  /\ \/ Step /\ UNCHANGED status
     \/ StartFails
  /\ UNCHANGED <<file, value, ports, made, head, fed, thread, controlOn, threadVars, ctlVars>>

\* get_config_param: the first line with the name, unless a blank line comes before.
\* (Without it, it may return the name in a last line that is not ended: no number,
\* and refused like no value.)
Stops(name) == {i \in DOMAIN file : file[i].name \in {name, ""}}
GetConfigParam(name) ==
  IF \E i \in Stops(name) : file[i].name = name /\ \A j \in Stops(name) : i <= j
  THEN LET i == CHOOSE i \in Stops(name) : \A j \in Stops(name) : i <= j IN file[i].value
  ELSE NoValue

\* get_configuration, one parameter.  It is copied from the static buffer at once
\* and cut to 16 bits.  Faulty variants: it is not cut; the pointers are kept, and
\* copied later.
PortMod == 65536
NotCut(n)    == n
CutTo16(n)   == n % PortMod
Refused(n)   == n = NoValue \/ CutTo16(n) = 0
ConfigParamKept ==
  /\ At("config")
  /\ value' = GetConfigParam(Params[k])
  /\ ports' = [p \in ParamSet |-> IF p \in {Params[i] : i \in 1..k} THEN CutTo16(value') ELSE 0]
  /\ IF Refused(value') THEN StartFails ELSE Round(3) /\ UNCHANGED status
  /\ UNCHANGED <<file, made, head, fed, thread, controlOn, threadVars, ctlVars>>
ConfigParam ==
  /\ At("config")
  /\ value' = GetConfigParam(Params[k])
  /\ ports' = IF value' = NoValue THEN ports
                                  ELSE [ports EXCEPT ![Params[k]] = CutTo16(value')]
  /\ IF Refused(value') THEN StartFails ELSE Round(3) /\ UNCHANGED status
  /\ UNCHANGED <<file, made, head, fed, thread, controlOn, threadVars, ctlVars>>

\* create_server_socket and create_client_socket.
CreateSocket ==
  /\ At("sockets")
  /\ \/ Round(4) /\ made' = made \cup {Sockets[k]} /\ UNCHANGED status
     \/ StartFails /\ UNCHANGED made
  /\ UNCHANGED <<file, value, ports, head, fed, thread, controlOn, threadVars, ctlVars>>

\* Fifo_create.
CreateFifo ==
  /\ At("fifos")
  /\ \/ Round(5) /\ made' = made \cup {Fifos[k]} /\ UNCHANGED status
     \/ StartFails /\ UNCHANGED made
  /\ UNCHANGED <<file, value, ports, head, fed, thread, controlOn, threadVars, ctlVars>>

\* create_bufpool fails.
CreatePoolFails ==
  /\ At("pools") /\ fed[Pools[k]] = <<>>
  /\ StartFails
  /\ UNCHANGED <<file, value, ports, made, head, fed, thread, controlOn, threadVars, ctlVars>>

\* bufpool_getNextFreeBuffer and Fifo_put.  Nothing is ever put back in a pool: its
\* tail is 0, and who finds it full waits for ever.  Faulty variants.
CircSpace(p)  == (0 - (head[p] + 1)) % PoolSize
FeedAll       == PoolSize
HeadStays(p)  == head[p]
FeedCount     == PoolSize - 1
NextHead(p)   == (head[p] + 1) % PoolSize
FeedBuffer ==
  LET p == Pools[k]
  IN  /\ At("pools") /\ CircSpace(p) >= 1
      /\ fed' = [fed EXCEPT ![p] = Append(@, head[p])]
      /\ head' = [head EXCEPT ![p] = NextHead(p)]
      /\ IF Len(fed'[p]) = FeedCount THEN Round(2) ELSE UNCHANGED <<main, k>>
      /\ UNCHANGED <<file, value, ports, made, thread, controlOn, threadVars, ctlVars, status>>

\* init_terminal_cluster checks the wrong pointer: without memory it writes to NULL.
InitTerminalCluster ==
  /\ At("terminals")
  /\ \/ Step /\ UNCHANGED status
     \/ status' = "nullTable" /\ UNCHANGED <<main, k>>
  /\ UNCHANGED <<file, value, ports, made, head, fed, thread, controlOn, threadVars, ctlVars>>

Missing == {r \in RoutineSet : thread[r] = "ended"}
CanMiss == Cardinality(Missing) < MaxMissing

\* pthread_create returns a positive error, which is taken for success: the thread is
\* missing.  So is one that gets no epoll instance, and nobody notices either.
Setters == {"r_udp", "r_udp_req"}
CreateThread ==
  LET r == Routines[k]
  IN  /\ At("threads")
      /\ Round(6)
      /\ \/ thread' = [thread EXCEPT ![r] = IF r \in Setters THEN "starting" ELSE "on"]
         \/ CanMiss /\ thread' = [thread EXCEPT ![r] = "ended"]
      /\ UNCHANGED <<file, value, ports, made, head, fed, controlOn, threadVars, ctlVars,
                     status>>

\* pthread_attr_init fails.
AttrInitFails ==
  /\ At("threads") /\ k = 1
  /\ StartFails
  /\ UNCHANGED <<file, value, ports, made, head, fed, thread, controlOn, threadVars, ctlVars>>

Main == ReadSpiConf \/ StartServiceCheck \/ StartInotify \/ ConfigParam \/ CreateSocket
          \/ CreateFifo \/ CreatePoolFails \/ FeedBuffer \/ InitTerminalCluster
          \/ CreateThread \/ AttrInitFails

-------------------------------------------------------------------------------
(* The six threads *)

\* r_udp_routine sets sockTx, and r_udp_req_routine fusionSock, for all.
SetSocket(r) ==
  /\ Running /\ thread[r] = "starting"
  /\ thread' = [thread EXCEPT ![r] = "on"]
  /\ sockTx' = (sockTx \/ r = "r_udp")
  /\ fusionSock' = (fusionSock \/ r = "r_udp_req")
  /\ UNCHANGED <<startVars, controlOn, iot, itx, flowVars, stats, ctlVars, status, ghosts>>

\* iot_receive_routine: udp_recv, and then a look at the switch.
IotReceive ==
  /\ On("iot_receive") /\ iot.pc = "recv"
  /\ \E res \in {"data", "none", "error"} : iot' = [iot EXCEPT !.pc = "check", !.res = res]
  /\ since' = {service_disabled}
  /\ UNCHANGED <<startVars, thread, controlOn, setVars, itx, flowVars, stats, ctlVars,
                 status, counted>>

IotCheckSkipped ==                                             \* faulty variant
  /\ On("iot_receive") /\ iot.pc = "check"
  /\ iot' = IF iot.res = "none" THEN IotIdle ELSE [iot EXCEPT !.pc = "cut"]
  /\ since' = {}
  /\ UNCHANGED <<startVars, thread, controlOn, setVars, itx, flowVars, stats, ctlVars,
                 status, counted>>
IotCheck ==
  /\ On("iot_receive") /\ iot.pc = "check"
  /\ iot' = IF service_disabled \/ iot.res = "none" THEN IotIdle ELSE [iot EXCEPT !.pc = "cut"]
  /\ since' = {}
  /\ UNCHANGED <<startVars, thread, controlOn, setVars, itx, flowVars, stats, ctlVars,
                 status, counted>>

\* The fragments of the datagram are queued and its result is counted, by a load
\* and a store.  update_stats_pkts_recv adds to pkts_sent.
IotCounter == IF iot.res = "data" THEN "pkts_sent" ELSE "pkts_err"
IotCut ==
  /\ On("iot_receive") /\ iot.pc = "cut" /\ counted[IotCounter] < MaxEvents
  /\ toFusion' = IF iot.res = "data" THEN toFusion + 1 ELSE toFusion
  /\ counted' = [counted EXCEPT ![IotCounter] = @ + 1]
  /\ iot' = [iot EXCEPT !.pc = "store", !.val = stats[IotCounter]]
  /\ UNCHANGED <<startVars, thread, controlOn, setVars, itx, kept, toDevice, stats,
                 ctlVars, status, since>>
IotCountStore ==
  /\ On("iot_receive") /\ iot.pc = "store"
  /\ stats' = [stats EXCEPT ![IotCounter] = iot.val + 1]
  /\ iot' = IotIdle
  /\ UNCHANGED <<startVars, thread, controlOn, setVars, itx, flowVars, ctlVars, status, ghosts>>

\* fusion_transmit_routine sends a fragment and keeps it; r_udp_routine frees it.
FusionTransmit ==
  /\ On("fusion_transmit") /\ toFusion > 0
  /\ toFusion' = toFusion - 1 /\ kept' = kept + 1
  /\ UNCHANGED <<startVars, thread, controlOn, setVars, iot, itx, toDevice, stats,
                 ctlVars, status, ghosts>>
FreeHistory ==
  /\ On("r_udp") /\ kept > 0
  /\ kept' = kept - 1
  /\ UNCHANGED <<startVars, thread, controlOn, setVars, iot, itx, toFusion, toDevice,
                 stats, ctlVars, status, ghosts>>

\* fusion_receive_routine: a fragment for the device, or a request for one that was
\* sent.  Only when it is found is there a reply, through sockTx.
Findable(n) == n >= 0                                          \* faulty variant
Found(n)    == n > 0
FusionReceiveFragment ==
  /\ On("fusion_receive") /\ counted["pkts_recv"] + toDevice < MaxEvents
  /\ toDevice' = toDevice + 1
  /\ UNCHANGED <<startVars, thread, controlOn, setVars, iot, itx, toFusion, kept, stats,
                 ctlVars, status, ghosts>>
HandleLostRequest ==
  /\ On("fusion_receive") /\ Found(kept) /\ ~sockTx
  /\ status' = "nullTx"
  /\ UNCHANGED <<startVars, thread, controlOn, setVars, iot, itx, flowVars, stats,
                 ctlVars, ghosts>>

\* iot_transmit_routine takes a fragment.  When it finds that others are missing, it
\* asks for them through fusionSock.  update_stats_pkts_sent adds to pkts_recv.
RecvCounterShared == "pkts_sent"                               \* faulty variant
RecvCounter       == "pkts_recv"
IotTransmit ==
  /\ On("iot_transmit") /\ itx.pc = "get" /\ toDevice > 0
  /\ toDevice' = toDevice - 1
  /\ \/ /\ itx' = [pc |-> "store", val |-> stats[RecvCounter]]
        /\ counted' = [counted EXCEPT !["pkts_recv"] = @ + 1]
        /\ UNCHANGED status
     \/ ~fusionSock /\ status' = "nullReq" /\ UNCHANGED <<itx, counted>>
  /\ UNCHANGED <<startVars, thread, controlOn, setVars, iot, toFusion, kept, stats,
                 ctlVars, since>>
IotTransmitStore ==
  /\ On("iot_transmit") /\ itx.pc = "store"
  /\ stats' = [stats EXCEPT ![RecvCounter] = itx.val + 1]
  /\ itx' = ItxIdle
  /\ UNCHANGED <<startVars, thread, controlOn, setVars, iot, flowVars, ctlVars, status, ghosts>>

Threads ==
  \/ \E r \in Setters : SetSocket(r)
  \/ IotReceive \/ IotCheck \/ IotCut \/ IotCountStore
  \/ FusionTransmit \/ FreeHistory \/ FusionReceiveFragment \/ HandleLostRequest
  \/ IotTransmit \/ IotTransmitStore

-------------------------------------------------------------------------------
(* service_control: process_term_app_msg *)

\* A message is taken.  An unknown opcode has no answer.  The switch is set before
\* the answer goes out.
ControlReceive(op) ==
  /\ Running /\ controlOn /\ ctl.pc = "poll" /\ nMsgs < MaxMsgs
  /\ nMsgs' = IF op = "unknown" THEN nMsgs ELSE nMsgs + 1
  /\ ctl' = CASE op = "unknown" -> ctl
              [] op = "stats"   -> [ctl EXCEPT !.pc = "copy", !.op = op, !.seen = stats,
                                               !.todo = Counters]
              [] OTHER          -> [ctl EXCEPT !.pc = "send", !.op = op]
  /\ IF op \in {"disable", "enable"}
     THEN /\ service_disabled' = (op = "disable") /\ lastSwitch' = op
          /\ since' = IF iot.pc = "check" THEN since \cup {op = "disable"} ELSE since
     ELSE UNCHANGED <<service_disabled, lastSwitch, since>>
  /\ UNCHANGED <<startVars, thread, controlOn, setVars, iot, itx, flowVars, stats, status,
                 counted>>

\* get_sensor_stats copies the counters one by one, without a lock, in their order.
\* Faulty variant: the last of them is left out.
InOrder(c) == CASE c = "pkts_sent" -> ctl.todo = Counters
                [] c = "pkts_recv" -> ctl.todo = {"pkts_recv", "pkts_err"}
                [] c = "pkts_err"  -> ctl.todo = {"pkts_err"}
CopyStatsShort(c) ==
  /\ Running /\ ctl.pc = "copy" /\ InOrder(c)
  /\ ctl' = [ctl EXCEPT !.copy[c] = IF c = "pkts_err" THEN 0 ELSE stats[c],
                        !.todo = @ \ {c}, !.pc = IF ctl.todo = {c} THEN "send" ELSE "copy"]
  /\ UNCHANGED <<startVars, thread, controlOn, setVars, iot, itx, flowVars, stats,
                 service_disabled, lastSwitch, nMsgs, status, ghosts>>
CopyStats(c) ==
  /\ Running /\ ctl.pc = "copy" /\ InOrder(c)
  /\ ctl' = [ctl EXCEPT !.copy[c] = stats[c],
                        !.todo = @ \ {c}, !.pc = IF ctl.todo = {c} THEN "send" ELSE "copy"]
  /\ UNCHANGED <<startVars, thread, controlOn, setVars, iot, itx, flowVars, stats,
                 service_disabled, lastSwitch, nMsgs, status, ghosts>>

\* term_udp_send.  Nothing is made of its failure.
ControlAnswer ==
  /\ Running /\ ctl.pc = "send"
  /\ ctl' = CtlIdle
  /\ UNCHANGED <<startVars, thread, controlOn, setVars, iot, itx, flowVars, stats,
                 service_disabled, lastSwitch, nMsgs, status, ghosts>>

Answering == ControlAnswer \/ \E c \in Counters : CopyStats(c)

Next == Main \/ Threads \/ Answering \/ \E op \in Opcodes : ControlReceive(op)

Spec == Init /\ [][Next]_vars

\* main() goes on.
FairSpec == Spec /\ WF_vars(Main)

-------------------------------------------------------------------------------
(* Properties *)

Value == Nat \cup {NoValue}

\* The type of every variable.
TypeOK ==
  /\ main \in 1..10 /\ k \in 1..6
  /\ file \in Configs /\ value \in Value /\ ports \in [ParamSet -> 0..(PortMod - 1)]
  /\ made \subseteq ResourceSet
  /\ head \in [PoolSet -> 0..(PoolSize - 1)] /\ fed \in [PoolSet -> Seq(Nat)]
  /\ thread \in [RoutineSet -> {"off", "starting", "on", "ended"}] /\ controlOn \in BOOLEAN
  /\ sockTx \in BOOLEAN /\ fusionSock \in BOOLEAN /\ service_disabled \in BOOLEAN
  /\ iot \in [pc : {"recv", "check", "cut", "store"}, res : {"data", "none", "error"}, val : Nat]
  /\ itx \in [pc : {"get", "store"}, val : Nat]
  /\ toFusion \in Nat /\ kept \in Nat /\ toDevice \in Nat
  /\ stats \in [Counters -> Nat]
  /\ ctl \in [pc : {"poll", "copy", "send"}, op : Opcodes, copy : [Counters -> Nat],
              seen : [Counters -> Nat], todo : SUBSET Counters]
  /\ status \in {"run", "failed", "nullTable", "nullTx", "nullReq"}
  /\ counted \in [Counters -> Nat] /\ lastSwitch \in {"none", "disable", "enable"}
  /\ since \subseteq BOOLEAN /\ nMsgs \in Nat

After(step) == \E i \in 1..(main - 1) : Order[i] = step

\* Each port is what a line with its name says, cut to 16 bits, and is not zero: the
\* three parameters, read through one static buffer, are not mixed up.
PortsConfigured ==
  After("config") => \A p \in ParamSet :
    /\ ports[p] # 0
    /\ \E i \in DOMAIN file : file[i].name = p /\ ports[p] = file[i].value % PortMod

\* A thread finds all that start_udp_service makes for it: the sockets and Fifos, and
\* in each of the two that are fed as many different buffers as its pool lends.
ThreadsEquipped ==
  \A r \in RoutineSet : thread[r] # "off" =>
    /\ made = ResourceSet
    /\ \A p \in PoolSet :
         /\ Len(fed[p]) = PoolSize - 1
         /\ \A i, j \in 1..(PoolSize - 1) :
              fed[p][i] \in 0..(PoolSize - 1) /\ (fed[p][i] = fed[p][j] => i = j)

\* Nothing is put back in a pool while it is fed, so feeding must not wait for that:
\* the pool has a free buffer whenever start_udp_service asks it for one.
FeedNeverWaits == At("pools") => CircSpace(Pools[k]) >= 1

\* The threads that use sockTx and fusionSock are started before those that set them,
\* which may not start at all.  The process is lost to a NULL socket only then, and only
\* after traffic: to that of handle_lost_request when a datagram of the device has come
\* all the way to the history, to that of defragment when fusion_receive_routine has
\* taken a fragment for the device.  Requests alone are harmless, and so is the device.
NullNeedsTraffic ==
  /\ status = "nullTx" =>
       ~sockTx /\ thread["r_udp"] # "on" /\ counted["pkts_sent"] > 0
  /\ status = "nullReq" =>
       ~fusionSock /\ thread["r_udp_req"] # "on" /\ thread["fusion_receive"] = "on"

\* The switch is where the last control message put it: read_spi_conf, which sets it
\* too, does not undo a message.
ControlDecides == service_disabled = (lastSwitch = "disable")

\* What the device sends is forwarded only if the service was enabled at some time
\* since it was received, and dumped only if it was disabled.
SwitchObeyed ==
  [][(iot.pc = "check" /\ iot.res # "none") =>
       /\ iot'.pc = "cut" => FALSE \in since
       /\ iot'.pc = "recv" => TRUE \in since]_vars

\* No count is lost, although the counters have no lock: each is stored by one thread.
StatsExact ==
  \A c \in Counters :
    counted[c] = stats[c] + (IF iot.pc = "store" /\ IotCounter = c THEN 1 ELSE 0)
                          + (IF itx.pc = "store" /\ c = "pkts_recv" THEN 1 ELSE 0)

\* Each counter in an answer lies between its values when the request came and when
\* the answer goes out.
StatsBracketed ==
  (ctl.pc = "send" /\ ctl.op = "stats") =>
    \A c \in Counters : ctl.seen[c] <= ctl.copy[c] /\ ctl.copy[c] <= stats[c]

\* Start-up ends: everything is started or main() has returned.  It does not wait for
\* a buffer that nobody would put back.
StartupEnds == <>(At("run") \/ ~Running)
===============================================================================
