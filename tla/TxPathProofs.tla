----------------------------- MODULE TxPathProofs -----------------------------
(***************************************************************************)
(* Proofs about TxPath, for every number of buffers, every size of message *)
(* and every timeout: its type invariant, that it implements BufferRing,   *)
(* that no buffer is lost or owned twice, and that they are used in turn.  *)
(***************************************************************************)
EXTENDS TxPath, TLAPS, SequenceTheorems

(* The type invariant *)

\* What a pending linger starts from: it stays within the bounds of TypeOK, as does the
\* timeout that a fragment is linked in with.
LingerBound ==
  /\ frx.pc = "linger" => time[frx.buf] < Timeout + MaxLinger
  /\ frx.pc = "lingerStore" => frx.time < Timeout + MaxLinger
  /\ ftx.time <= Timeout
TypeInv == TypeOK /\ LingerBound

\* A datagram is cut in a natural number of fragments.
LEMMA FragmentsNat == \A n \in Nat : Fragments(n) \in Nat
<1> TAKE n \in Nat
<1>1. n \div MaxMsgSize \in Nat /\ n % MaxMsgSize \in Nat
  BY TxAssumption
<1> QED BY <1>1 DEF Fragments

\* A sequence number fits in the header.
LEMMA ModRange == \A a \in Int : \A n \in Nat \ {0} : a % n \in 0..(n - 1)
  OBVIOUS

LEMMA InitTypeInv == Init => TypeInv
<1> SUFFICES ASSUME Init PROVE TypeInv
  OBVIOUS
<1> USE TxAssumption DEF Init, Bufs, NoBuf
<1>1. [i \in Bufs |-> i] \in Seq(Bufs)
  OBVIOUS
<1>2. Blank \in Headers
  BY DEF Blank, Headers, MaxFragments, FragMod
<1>3. FifosOK
  BY <1>1 DEF FifosOK
<1>4. msg \in [Bufs -> Headers]
  BY <1>2
<1>5. TimesOK
  BY DEF TimesOK, Lives
<1>6. IotOK
  BY DEF IotOK, IotIdle
<1>7. FtxOK
  BY DEF FtxOK, FtxIdle, Lives
<1>8. FrxOK
  BY DEF FrxOK, FrxIdle, NoRequest, Requests, Lives, MaxFragments, FragMod
<1>9. CountersOK
  BY DEF CountersOK
<1>10. FlagsOK
  BY DEF FlagsOK
<1>11. LingerBound
  BY DEF LingerBound, FrxIdle, FtxIdle
<1>12. DueOK
  BY DEF DueOK
<1> QED BY <1>3, <1>4, <1>5, <1>6, <1>7, <1>8, <1>9, <1>10, <1>11, <1>12
        DEF TypeInv, TypeOK

\* The threads that handle buffers keep the sequences sequences of buffers.
LEMMA StepFifosOK == TypeInv /\ [Next]_vars => FifosOK'
<1> SUFFICES ASSUME TypeInv, [Next]_vars PROVE FifosOK'
  OBVIOUS
<1> USE DEF TypeInv, TypeOK, FifosOK
<1>1. ASSUME NEW n \in Sizes, IotReceive(n) PROVE FifosOK'
  BY <1>1 DEF IotReceive, fifos
<1>2. CASE IotReceiveNothing
  BY <1>2 DEF IotReceiveNothing, fifos
<1>3. CASE IotFillFragment
  BY <1>3, HeadTailProperties DEF IotFillFragment
<1>4. CASE IotPutFragment
  BY <1>4, AppendProperties DEF IotPutFragment, IotOK
<1>5. CASE FusionTransmit
  BY <1>5, HeadTailProperties DEF FusionTransmit
<1>6. CASE HistPushFrag
  BY <1>6, AppendProperties DEF HistPushFrag, FtxOK
<1>7. CASE HistPopFrag
  <2>1. Head(history) \in Bufs /\ Tail(history) \in Seq(Bufs)
    BY <1>7, HeadTailProperties DEF HistPopFrag, HeadTimedOut
  <2> QED BY <1>7, <2>1, AppendProperties DEF HistPopFrag
<1>8. CASE FreeHistoryLock \/ FreeHistoryUnlock
  BY <1>8 DEF FreeHistoryLock, FreeHistoryUnlock, fifos
<1>9. ASSUME NEW r \in Requests, HistFindFrag(r) PROVE FifosOK'
  BY <1>9 DEF HistFindFrag, fifos
<1>10. CASE Serving
  BY <1>10 DEF Serving, LingerLoad, LingerStore, ReplyCodeLoad, ReplyCodeStore, SendReply,
     fifos
<1>11. CASE Tick \/ ServiceControl \/ FusionTakes
  BY <1>11 DEF Tick, ServiceControl, FusionTakes, fifos
<1>12. CASE UNCHANGED vars
  BY <1>12 DEF vars, fifos
<1> QED BY <1>1, <1>2, <1>3, <1>4, <1>5, <1>6, <1>7, <1>8, <1>9, <1>10, <1>11, <1>12
        DEF Next, IotThread, FtxThread, RUdpThread, FrxThread

\* Only iot_receive_routine, fusion_transmit_routine and a reply write to a header.
LEMMA StepHeadersOK == TypeInv /\ [Next]_vars => (msg \in [Bufs -> Headers])'
<1> SUFFICES ASSUME TypeInv, [Next]_vars PROVE msg' \in [Bufs -> Headers]
  OBVIOUS
<1> USE DEF TypeInv, TypeOK
<1> DEFINE Touches == IotFillFragment \/ FusionTransmit \/ ReplyCodeStore
<1>1. CASE IotFillFragment
  <2> DEFINE b   == Head(IotThrInFifo)
             len == IF MaxMsgSize < iot.res THEN MaxMsgSize ELSE iot.res
             h   == [msg[b] EXCEPT !.seqNum = txSeqNum % 256, !.frgmnts = iot.frgmnts % FragMod,
                       !.msgLen = len, !.frgmntIdx = iot.frgmntIdx % FragMod,
                       !.data = [pkt |-> txSeqNum, off |-> iot.frgmntIdx,
                                 rest |-> iot.res - len]]
  <2>1. b \in Bufs
    BY <1>1, HeadTailProperties DEF IotFillFragment, FifosOK
  <2>2. len \in 0..MaxMsgSize /\ iot.res - len \in Nat
    BY TxAssumption DEF IotOK
  <2>3. /\ txSeqNum % 256 \in 0..255 /\ txSeqNum \in Nat
        /\ iot.frgmnts % FragMod \in 0..MaxFragments
        /\ iot.frgmntIdx % FragMod \in 0..MaxFragments /\ iot.frgmntIdx \in Nat
    BY TxAssumption DEF IotOK, CountersOK, FragMod, MaxFragments
  <2>4. h \in Headers
    <3> HIDE DEF len, b
    <3>1. [pkt |-> txSeqNum, off |-> iot.frgmntIdx, rest |-> iot.res - len]
            \in [pkt : Nat, off : Nat, rest : Nat]
      BY <2>2, <2>3
    <3>2. msg[b] \in Headers
      BY <2>1
    <3> QED BY <3>1, <3>2, <2>2, <2>3, ZenonT(60) DEF Headers
  <2>5. msg' = [msg EXCEPT ![b] = h]
    BY <1>1 DEF IotFillFragment
  <2> HIDE DEF b, h
  <2> QED BY <2>1, <2>4, <2>5
<1>2. CASE FusionTransmit
  <2> DEFINE b == Head(IotThrOutFifo)
  <2>1. b \in Bufs
    BY <1>2, HeadTailProperties DEF FusionTransmit, FifosOK
  <2>2. msg[b] \in Headers
    BY <2>1
  <2>3. msg[b].seqNum % SeqSpace \in 0..(SeqSpace - 1)
    <3>1. msg[b].seqNum \in Int
      BY <2>2 DEF Headers
    <3> QED BY <3>1, ModRange, TxAssumption
  <2>4. msg' = [msg EXCEPT ![b] = [msg[b] EXCEPT !.hdrSeqNum = msg[b].seqNum % SeqSpace]]
    BY <1>2 DEF FusionTransmit, HdrSeq
  <2> HIDE DEF b
  <2>5. [msg[b] EXCEPT !.hdrSeqNum = msg[b].seqNum % SeqSpace] \in Headers
    BY <2>2, <2>3 DEF Headers
  <2> QED BY <2>1, <2>4, <2>5
<1>3. CASE ReplyCodeStore
  <2>1. frx.buf \in Bufs /\ frx.idx \in 0..MaxFragments /\ frx.low \in 0..1
    BY <1>3 DEF ReplyCodeStore, FrxOK
  <2> DEFINE m == msg[frx.buf]
             h == [m EXCEPT !.frgmntIdx = frx.idx, !.frgmnts = 2 * (@ \div 2) + frx.low]
  <2>2. m \in Headers
    BY <2>1
  <2>3. 2 * (m.frgmnts \div 2) + frx.low \in 0..MaxFragments
    BY <2>1, <2>2 DEF Headers, MaxFragments, FragMod
  <2>4. h \in Headers
    BY <2>1, <2>2, <2>3 DEF Headers
  <2>5. msg' = [msg EXCEPT ![frx.buf] = h]
    BY <1>3, <2>1 DEF ReplyCodeStore
  <2> QED BY <2>1, <2>4, <2>5
<1>4. CASE ~Touches
  <2>1. msg' = msg
    BY <1>4 DEF Next, IotThread, FtxThread, RUdpThread, FrxThread, Serving, vars,
       IotReceive, IotReceiveNothing, IotPutFragment, HistPushFrag, FreeHistoryLock,
       HistPopFrag, FreeHistoryUnlock, HistFindFrag, LingerLoad, LingerStore,
       ReplyCodeLoad, SendReply, Tick, ServiceControl, FusionTakes
  <2> QED BY <2>1
<1> QED BY <1>1, <1>2, <1>3, <1>4

\* A timeout is lifted by a second at a time, and sinks no lower than Older lets it.
LEMMA StepTimes == TypeInv /\ [Next]_vars => (TimesOK /\ LingerBound)'
<1> SUFFICES ASSUME TypeInv, [Next]_vars PROVE TimesOK' /\ LingerBound'
  OBVIOUS
<1> USE TxAssumption DEF TypeInv, TypeOK, TimesOK, LingerBound
<1>1. \A t \in Lives : t \in Int /\ Older(t) \in Lives /\ Older(t) <= t
  BY DEF Older, Lives
<1>2. CASE HistPushFrag
  <2>1. ftx.buf \in Bufs /\ ftx.time \in Lives /\ ftx.time <= Timeout
    BY <1>2 DEF HistPushFrag, FtxOK
  <2>2. time' = [time EXCEPT ![ftx.buf] = ftx.time] /\ ftx'.time = 0 /\ frx' = frx
    BY <1>2 DEF HistPushFrag, FtxIdle
  <2>3. frx.pc = "linger" => frx.buf \in Bufs
    BY DEF FrxOK
  <2> QED BY <1>1, <2>1, <2>2, <2>3
<1>3. CASE LingerLoad
  <2>1. /\ frx'.pc = "lingerStore" /\ frx'.time = time[frx.buf] /\ frx.pc = "linger"
        /\ UNCHANGED <<time, ftx>>
    BY <1>3 DEF LingerLoad, FrxOK
  <2> QED BY <2>1
<1>4. CASE LingerStore
  <2>1. /\ frx.buf \in Bufs /\ frx.time \in Lives /\ frx'.pc = "code"
        /\ frx.time < Timeout + MaxLinger /\ ftx' = ftx
    BY <1>4 DEF LingerStore, FrxOK
  <2>2. PICK t \in Lifted(frx.time) : time' = [time EXCEPT ![frx.buf] = t]
    BY <1>4 DEF LingerStore
  <2>3. t \in Lives
    BY <2>1, <2>2 DEF Lifted, Lives
  <2> QED BY <2>1, <2>2, <2>3
<1>5. CASE Tick
  <2>1. /\ frx'.pc = frx.pc /\ frx'.buf = frx.buf
        /\ frx.pc = "lingerStore" => frx'.time = Older(frx.time)
        /\ ftx'.time = ftx.time \/ ftx'.time = Older(ftx.time)
    BY <1>5 DEF Tick, FrxOK, FtxOK
  <2>2. time' = [b \in Bufs |-> Older(time[b])]
    BY <1>5 DEF Tick
  <2>3. frx.time \in Lives /\ ftx.time \in Lives /\ (frx.pc = "linger" => frx.buf \in Bufs)
    BY DEF FrxOK, FtxOK
  <2>4. TimesOK'
    BY <1>1, <2>2
  <2>5. ftx'.time <= Timeout
    <3>1. Timeout \in Int /\ ftx.time \in Int /\ Older(ftx.time) <= ftx.time /\ Older(ftx.time) \in Int
      BY <1>1, <2>3
    <3> QED BY <2>1, <3>1
  <2>6. frx'.pc = "linger" => time'[frx'.buf] < Timeout + MaxLinger
    <3> SUFFICES ASSUME frx'.pc = "linger" PROVE time'[frx.buf] < Timeout + MaxLinger
      BY <2>1
    <3>1. frx.buf \in Bufs /\ time[frx.buf] < Timeout + MaxLinger /\ time[frx.buf] \in Lives
      BY <2>1, <2>3
    <3>2. time'[frx.buf] = Older(time[frx.buf])
      BY <2>2, <3>1
    <3>3. Older(time[frx.buf]) <= time[frx.buf] /\ Older(time[frx.buf]) \in Int /\ time[frx.buf] \in Int
      BY <1>1, <3>1
    <3> QED BY <3>1, <3>2, <3>3
  <2>7. frx'.pc = "lingerStore" => frx'.time < Timeout + MaxLinger
    <3>1. Older(frx.time) <= frx.time /\ Older(frx.time) \in Int /\ frx.time \in Int
      BY <1>1, <2>3
    <3> QED BY <2>1, <3>1
  <2> QED BY <2>4, <2>5, <2>6, <2>7
<1>6. ASSUME NEW r \in Requests, HistFindFrag(r) PROVE TimesOK' /\ LingerBound'
  <2>1. UNCHANGED <<time, ftx>>
    BY <1>6 DEF HistFindFrag
  <2>2. \/ frx' = frx
        \/ frx'.pc = "linger" /\ time[frx'.buf] < Timeout + MaxLinger
    BY <1>6 DEF HistFindFrag, Found, FrxIdle
  <2> QED BY <2>1, <2>2
<1>7. CASE FusionTransmit
  <2>1. ftx'.time = Timeout /\ UNCHANGED <<time, frx>>
    BY <1>7 DEF FusionTransmit
  <2> QED BY <2>1
<1>8. CASE HistPopFrag
  <2>1. frx'.pc = frx.pc /\ frx'.time = frx.time /\ frx'.buf = frx.buf /\ UNCHANGED <<time, ftx>>
    BY <1>8 DEF HistPopFrag, FrxOK
  <2> QED BY <2>1
<1>9. CASE ReplyCodeLoad \/ ReplyCodeStore \/ SendReply
  <2>1. frx'.pc \in {"codeStore", "send", "idle"} /\ UNCHANGED <<time, ftx>>
    <3>1. CASE ReplyCodeLoad
      BY <3>1 DEF ReplyCodeLoad, FrxOK
    <3>2. CASE ReplyCodeStore
      BY <3>2 DEF ReplyCodeStore, FrxOK
    <3>3. CASE SendReply
      BY <3>3 DEF SendReply, FrxIdle
    <3> QED BY <1>9, <3>1, <3>2, <3>3
  <2> QED BY <2>1
<1>10. CASE IotThread
  BY <1>10 DEF IotThread, IotReceive, IotReceiveNothing, IotFillFragment, IotPutFragment
<1>11. CASE \/ FreeHistoryLock \/ FreeHistoryUnlock \/ ServiceControl \/ FusionTakes
            \/ UNCHANGED vars
  BY <1>11 DEF FreeHistoryLock, FreeHistoryUnlock, ServiceControl, FusionTakes, vars
<1> QED BY <1>2, <1>3, <1>4, <1>5, <1>6, <1>7, <1>8, <1>9, <1>10, <1>11
        DEF Next, FtxThread, RUdpThread, FrxThread, Serving

\* The history variables that follow the timeouts.
LEMMA StepDueOK == TypeInv /\ [Next]_vars => DueOK'
<1> SUFFICES ASSUME TypeInv, [Next]_vars PROVE DueOK'
  OBVIOUS
<1> USE TxAssumption DEF TypeInv, TypeOK, DueOK
<1>1. CASE UNCHANGED <<due, lifted>>
  BY <1>1
<1>2. CASE HistPushFrag
  <2>1. ftx.time \in Int
    BY DEF FtxOK, Lives
  <2> QED BY <1>2, <2>1 DEF HistPushFrag
<1>3. CASE HistPopFrag
  <2> DEFINE h == Head(history)
  <2>0. h \in Bufs
    BY <1>3, HeadTailProperties DEF HistPopFrag, HeadTimedOut, FifosOK
  <2>1. due' = [due EXCEPT ![h] = 0] /\ lifted' = [lifted EXCEPT ![h] = "nobody"]
    BY <1>3 DEF HistPopFrag
  <2> HIDE DEF h
  <2>2. due' \in [Bufs -> Int]
    BY <2>0, <2>1
  <2>3. lifted' \in [Bufs -> {"nobody", "request", "late"}]
    BY <2>1
  <2> QED BY <2>2, <2>3
<1>4. CASE LingerStore
  <2>1. PICK t \in Lifted(frx.time) :
               Lift(frx.buf, IF due[frx.buf] = -MaxLinger THEN t - frx.time ELSE 1)
    BY <1>4 DEF LingerStore
  <2>2. frx.time \in Int /\ t \in Int /\ frx.buf \in Bufs
    BY <1>4, <2>1 DEF LingerStore, FrxOK, Lives, Lifted
  <2> DEFINE seconds == IF due[frx.buf] = -MaxLinger THEN t - frx.time ELSE 1
  <2>3. seconds \in Int /\ Lift(frx.buf, seconds)
    BY <2>1, <2>2
  <2> HIDE DEF seconds
  <2>4. PICK n \in Int : due' = [due EXCEPT ![frx.buf] = n]
    <3>1. due[frx.buf] \in Int /\ due[frx.buf] + seconds \in Int
      BY <2>2, <2>3
    <3> QED BY <2>3, <3>1 DEF Lift
  <2>5. PICK v \in {"nobody", "request", "late"} : lifted' = [lifted EXCEPT ![frx.buf] = v]
    <3>1. lifted[frx.buf] \in {"nobody", "request", "late"}
      BY <2>2
    <3> QED BY <2>3, <3>1 DEF Lift
  <2>6. due' \in [Bufs -> Int]
    BY <2>4
  <2>7. lifted' \in [Bufs -> {"nobody", "request", "late"}]
    BY <2>5
  <2> QED BY <2>6, <2>7
<1>5. CASE Tick
  <2>1. \A n \in Int : Older(n) \in Int
    BY DEF Older
  <2> QED BY <1>5, <2>1 DEF Tick
<1>6. ASSUME NEW r \in Requests, HistFindFrag(r) PROVE DueOK'
  BY <1>1, <1>6 DEF HistFindFrag, ghosts
<1>7. CASE LingerLoad \/ ReplyCodeLoad \/ ReplyCodeStore \/ SendReply
  BY <1>1, <1>7 DEF LingerLoad, ReplyCodeLoad, ReplyCodeStore, SendReply, ghosts
<1>8. CASE IotThread \/ FusionTransmit
  BY <1>1, <1>8 DEF IotThread, IotReceive, IotReceiveNothing, IotFillFragment, IotPutFragment,
     FusionTransmit, ghosts
<1>9. CASE \/ FreeHistoryLock \/ FreeHistoryUnlock \/ ServiceControl \/ FusionTakes
           \/ UNCHANGED vars
  BY <1>1, <1>9 DEF FreeHistoryLock, FreeHistoryUnlock, ServiceControl, FusionTakes, vars,
     ghosts
<1> QED BY <1>2, <1>3, <1>4, <1>5, <1>6, <1>7, <1>8, <1>9
        DEF Next, FtxThread, RUdpThread, FrxThread, Serving

\* The threads: each holds a buffer at the points at which TypeOK says so.
LEMMA StepIotOK == TypeInv /\ [Next]_vars => IotOK'
<1> SUFFICES ASSUME TypeInv, [Next]_vars PROVE IotOK'
  OBVIOUS
<1> USE TxAssumption DEF TypeInv, TypeOK, IotOK
<1>1. ASSUME NEW n \in Sizes, IotReceive(n) PROVE IotOK'
  <2>1. n \in Nat
    BY DEF FragMod
  <2>2. Fragments(n) \in Nat
    BY <2>1, FragmentsNat
  <2>3. iot.pc = "recv" /\ iot' = [iot EXCEPT !.pc = "get", !.res = n,
                                             !.frgmnts = Fragments(n), !.frgmntIdx = 0]
    BY <1>1 DEF IotReceive
  <2> DEFINE f == Fragments(n)
  <2>4. f \in Nat /\ iot' = [iot EXCEPT !.pc = "get", !.res = n, !.frgmnts = f, !.frgmntIdx = 0]
    BY <2>2, <2>3
  <2> DEFINE Iots == [pc : {"recv", "get", "put"}, res : Nat, frgmnts : Nat, frgmntIdx : Nat,
                      buf : Bufs \cup {NoBuf}]
  <2>5. iot \in Iots /\ iot.buf = NoBuf
    BY <2>3
  <2> HIDE DEF f
  <2>6. iot' = [pc |-> "get", res |-> n, frgmnts |-> f, frgmntIdx |-> 0, buf |-> iot.buf]
    BY <2>4, <2>5
  <2> QED BY <2>1, <2>4, <2>5, <2>6
<1>2. CASE IotFillFragment
  <2>1. IotThrInFifo \in Seq(Bufs) /\ IotThrInFifo # <<>>
    BY <1>2 DEF IotFillFragment, FifosOK
  <2>2. NoBuf \notin Bufs
    BY DEF Bufs, NoBuf
  <2>3. Head(IotThrInFifo) \in Bufs /\ NoBuf \notin Bufs
    BY <2>1, <2>2, HeadTailProperties
  <2> DEFINE len == IF MaxMsgSize < iot.res THEN MaxMsgSize ELSE iot.res
  <2>4. iot.res - len \in Nat /\ iot.frgmntIdx + 1 \in Nat
    OBVIOUS
  <2>5. iot' = [iot EXCEPT !.pc = "put", !.buf = Head(IotThrInFifo), !.res = iot.res - len,
                           !.frgmntIdx = iot.frgmntIdx + 1]
    BY <1>2 DEF IotFillFragment
  <2> HIDE DEF len
  <2> QED BY <2>3, <2>4, <2>5
<1>3. CASE IotPutFragment
  <2>1. iot' = [iot EXCEPT !.pc = "get", !.buf = NoBuf] \/ iot' = IotIdle
    BY <1>3 DEF IotPutFragment
  <2>3. CASE iot' = [iot EXCEPT !.pc = "get", !.buf = NoBuf]
    BY <2>3
  <2>4. CASE iot' = IotIdle
    BY <2>4 DEF IotIdle
  <2> QED BY <2>1, <2>3, <2>4
<1>4. CASE iot' = iot
  BY <1>4
<1>5. CASE IotReceiveNothing \/ FtxThread \/ RUdpThread \/ Serving
  BY <1>4, <1>5 DEF IotReceiveNothing, FtxThread, FusionTransmit, HistPushFrag, RUdpThread,
     FreeHistoryLock, HistPopFrag, FreeHistoryUnlock, Serving, LingerLoad, LingerStore,
     ReplyCodeLoad, ReplyCodeStore, SendReply
<1>6. ASSUME NEW r \in Requests, HistFindFrag(r) PROVE IotOK'
  BY <1>4, <1>6 DEF HistFindFrag
<1>7. CASE Tick \/ ServiceControl \/ FusionTakes \/ UNCHANGED vars
  BY <1>4, <1>7 DEF Tick, ServiceControl, FusionTakes, vars
<1> QED BY <1>1, <1>2, <1>3, <1>5, <1>6, <1>7 DEF Next, IotThread, FrxThread

LEMMA StepFtxOK == TypeInv /\ [Next]_vars => FtxOK'
<1> SUFFICES ASSUME TypeInv, [Next]_vars PROVE FtxOK'
  OBVIOUS
<1> USE TxAssumption DEF TypeInv, TypeOK, FtxOK
<1>1. CASE FusionTransmit
  <2>1. Head(IotThrOutFifo) \in Bufs
    <3>1. IotThrOutFifo \in Seq(Bufs) /\ IotThrOutFifo # <<>>
      BY <1>1 DEF FusionTransmit, FifosOK
    <3> QED BY ONLY <3>1, HeadTailProperties
  <2>2. NoBuf \notin Bufs /\ Timeout \in Lives
    BY DEF Bufs, NoBuf, Lives
  <2> QED BY <1>1, <2>1, <2>2 DEF FusionTransmit
<1>2. CASE HistPushFrag
  BY <1>2 DEF HistPushFrag, FtxIdle, Lives
<1>3. CASE Tick
  <2>1. Older(ftx.time) \in Lives
    BY DEF Older, Lives
  <2> QED BY <1>3, <2>1 DEF Tick
<1>4. CASE ftx' = ftx
  BY <1>4
<1>5. ASSUME NEW n \in Sizes, IotReceive(n) PROVE FtxOK'
  BY <1>4, <1>5 DEF IotReceive
<1>6. CASE IotReceiveNothing \/ IotFillFragment \/ IotPutFragment \/ RUdpThread \/ Serving
  BY <1>4, <1>6 DEF IotReceiveNothing, IotFillFragment, IotPutFragment, RUdpThread,
     FreeHistoryLock, HistPopFrag, FreeHistoryUnlock, Serving, LingerLoad, LingerStore,
     ReplyCodeLoad, ReplyCodeStore, SendReply
<1>7. ASSUME NEW r \in Requests, HistFindFrag(r) PROVE FtxOK'
  BY <1>4, <1>7 DEF HistFindFrag
<1>8. CASE ServiceControl \/ FusionTakes \/ UNCHANGED vars
  BY <1>4, <1>8 DEF ServiceControl, FusionTakes, vars
<1> QED BY <1>1, <1>2, <1>3, <1>5, <1>6, <1>7, <1>8 DEF Next, IotThread, FtxThread, FrxThread

LEMMA StepFrxOK == TypeInv /\ [Next]_vars => FrxOK'
<1> SUFFICES ASSUME TypeInv, [Next]_vars PROVE FrxOK'
  OBVIOUS
<1> USE TxAssumption DEF TypeInv, TypeOK, FrxOK
<1>1. ASSUME NEW r \in Requests, HistFindFrag(r) PROVE FrxOK'
  <2>1. \A i \in FirstMatch(r) : history[i] \in Bufs /\ NoBuf \notin Bufs
    BY ElementOfSeq DEF FirstMatch, FifosOK, Bufs, NoBuf
  <2>3. frx' = frx \/ \E i \in FirstMatch(r) : frx' = Found(history[i], r)
    BY <1>1 DEF HistFindFrag
  <2>4. 0 \in Lives /\ 0 \in 0..MaxFragments
    BY DEF Lives, MaxFragments, FragMod
  <2>5. ASSUME NEW i \in FirstMatch(r), frx' = Found(history[i], r) PROVE FrxOK'
    <3>1. history[i] \in Bufs /\ NoBuf \notin Bufs
      BY <2>1
    <3>2. frx' = [pc |-> "linger", req |-> r, buf |-> history[i], time |-> 0, idx |-> 0,
                  low |-> 0, fresh |-> TRUE]
      BY <2>5 DEF Found, FrxIdle
    <3>3. TRUE \in BOOLEAN
      BY Zenon
    <3>4. frx'.pc = "linger" /\ frx'.buf = history[i]
      BY <3>2
    <3> QED BY <3>1, <3>2, <2>4, <3>3, <3>4
  <2>6. CASE frx' = frx
    BY <2>6
  <2> QED BY <2>3, <2>5, <2>6
<1>2. CASE LingerLoad
  BY <1>2 DEF LingerLoad, TimesOK
<1>3. CASE LingerStore
  <2>1. frx' = [frx EXCEPT !.pc = "code", !.time = 0] /\ frx.pc = "lingerStore"
    BY <1>3 DEF LingerStore
  <2>2. 0 \in Lives
    BY DEF Lives
  <2> QED BY <2>1, <2>2
<1>4. CASE ReplyCodeLoad
  <2>1. msg[frx.buf] \in Headers
    BY <1>4 DEF ReplyCodeLoad
  <2>2. msg[frx.buf].frgmntIdx \in 0..MaxFragments /\ msg[frx.buf].frgmnts % 2 \in 0..1
    BY <2>1 DEF Headers, MaxFragments, FragMod
  <2> QED BY <1>4, <2>2 DEF ReplyCodeLoad
<1>5. CASE ReplyCodeStore
  <2>1. frx' = [frx EXCEPT !.pc = "send", !.idx = 0, !.low = 0] /\ frx.pc = "codeStore"
    BY <1>5 DEF ReplyCodeStore
  <2>2. 0 \in 0..MaxFragments /\ 0 \in 0..1
    BY DEF MaxFragments, FragMod
  <2>3. frx'.pc = "send" /\ frx'.buf = frx.buf /\ frx.buf # NoBuf
    BY <2>1
  <2>4. frx' \in [pc : {"idle", "linger", "lingerStore", "code", "codeStore", "send"},
                  req : Requests \cup {NoRequest}, buf : Bufs \cup {NoBuf}, time : Lives,
                  idx : 0..MaxFragments, low : 0..1, fresh : BOOLEAN]
    BY <2>1, <2>2
  <2> QED BY <2>3, <2>4
<1>6. CASE SendReply
  BY <1>6 DEF SendReply, FrxIdle, Lives, MaxFragments, FragMod
<1>7. CASE HistPopFrag
  BY <1>7 DEF HistPopFrag
<1>8. CASE Tick
  <2>1. Older(frx.time) \in Lives
    BY DEF Older, Lives
  <2> QED BY <1>8, <2>1 DEF Tick
<1>9. CASE frx' = frx
  BY <1>9
<1>10. ASSUME NEW n \in Sizes, IotReceive(n) PROVE FrxOK'
  BY <1>9, <1>10 DEF IotReceive
<1>11. CASE IotReceiveNothing \/ IotFillFragment \/ IotPutFragment \/ FtxThread
  BY <1>9, <1>11 DEF IotReceiveNothing, IotFillFragment, IotPutFragment, FtxThread,
     FusionTransmit, HistPushFrag
<1>12. CASE \/ FreeHistoryLock \/ FreeHistoryUnlock \/ ServiceControl \/ FusionTakes
            \/ UNCHANGED vars
  BY <1>9, <1>12 DEF FreeHistoryLock, FreeHistoryUnlock, ServiceControl, FusionTakes, vars
<1> QED BY <1>1, <1>2, <1>3, <1>4, <1>5, <1>6, <1>7, <1>8, <1>10, <1>11, <1>12
        DEF Next, IotThread, FtxThread, RUdpThread, FrxThread, Serving

LEMMA StepCountersOK == TypeInv /\ [Next]_vars => CountersOK'
<1> SUFFICES ASSUME TypeInv, [Next]_vars PROVE CountersOK'
  OBVIOUS
<1> USE TxAssumption DEF TypeInv, TypeOK, CountersOK
<1>1. ASSUME NEW n \in Sizes, IotReceive(n) PROVE CountersOK'
  BY <1>1 DEF IotReceive
<1>2. CASE IotReceiveNothing \/ IotFillFragment \/ IotPutFragment
  <2>1. \/ stats' = stats
        \/ stats' = [stats EXCEPT !.pkts_err = @ + 1]
        \/ stats' = [stats EXCEPT !.pkts_sent = @ + 1]
    BY <1>2 DEF IotReceiveNothing, IotFillFragment, IotPutFragment
  <2>2. stats' \in [pkts_sent : Nat, pkts_err : Nat]
    BY <2>1
  <2>3. UNCHANGED sync_hist /\ txSeqNum' \in 0..MaxSeq
    BY <1>2 DEF IotReceiveNothing, IotFillFragment, IotPutFragment
  <2> QED BY <2>2, <2>3
<1>3. CASE FtxThread
  BY <1>3 DEF FtxThread, FusionTransmit, HistPushFrag
<1>4. CASE RUdpThread
  BY <1>4 DEF RUdpThread, FreeHistoryLock, HistPopFrag, FreeHistoryUnlock
<1>5. ASSUME NEW r \in Requests, HistFindFrag(r) PROVE CountersOK'
  BY <1>5 DEF HistFindFrag
<1>6. CASE Serving
  BY <1>6 DEF Serving, LingerLoad, LingerStore, ReplyCodeLoad, ReplyCodeStore, SendReply
<1>7. CASE Tick \/ ServiceControl \/ FusionTakes \/ UNCHANGED vars
  BY <1>7 DEF Tick, ServiceControl, FusionTakes, vars
<1> QED BY <1>1, <1>2, <1>3, <1>4, <1>5, <1>6, <1>7 DEF Next, IotThread, FrxThread

LEMMA StepFlagsOK == TypeInv /\ [Next]_vars => FlagsOK'
<1> SUFFICES ASSUME TypeInv, [Next]_vars PROVE FlagsOK'
  OBVIOUS
<1> USE DEF TypeInv, TypeOK, FlagsOK
<1>1. CASE LingerStore \/ ReplyCodeStore
  BY <1>1, Zenon DEF LingerStore, ReplyCodeStore
<1>2. CASE ServiceControl
  BY <1>2, Zenon DEF ServiceControl, ghosts
<1>3. CASE UNCHANGED <<service_disabled, staleWrite>>
  BY <1>3, Zenon
<1>4. CASE IotThread
  BY <1>3, <1>4, Zenon DEF IotThread, IotReceive, IotReceiveNothing, IotFillFragment,
     IotPutFragment, ghosts
<1>5. CASE FtxThread \/ RUdpThread
  BY <1>3, <1>5, Zenon DEF FtxThread, FusionTransmit, HistPushFrag, RUdpThread,
     FreeHistoryLock, HistPopFrag, FreeHistoryUnlock, ghosts
<1>6. ASSUME NEW r \in Requests, HistFindFrag(r) PROVE FlagsOK'
  BY <1>3, <1>6, Zenon DEF HistFindFrag, ghosts
<1>7. CASE LingerLoad \/ ReplyCodeLoad \/ SendReply \/ Tick \/ FusionTakes \/ UNCHANGED vars
  BY <1>3, <1>7, Zenon DEF LingerLoad, ReplyCodeLoad, SendReply, Tick, FusionTakes, vars,
     ghosts
<1> QED BY <1>1, <1>2, <1>4, <1>5, <1>6, <1>7, Zenon DEF Next, FrxThread, Serving

LEMMA StepTypeInv == TypeInv /\ [Next]_vars => TypeInv'
BY StepFifosOK, StepHeadersOK, StepTimes, StepDueOK, StepIotOK, StepFtxOK, StepFrxOK,
   StepCountersOK, StepFlagsOK DEF TypeInv, TypeOK

\* The type invariant of TxPath (iot_receive_routine, fusion_transmit_routine,
\* r_udp_routine, handle_lost_request): which buffer each thread holds at which point.
THEOREM TypeInvariant == Spec => []TypeOK
<1>1. TypeInv => TypeOK
  BY DEF TypeInv
<1> QED BY InitTypeInv, StepTypeInv, <1>1, PTL DEF Spec

-------------------------------------------------------------------------------
(* Facts about sequences *)

\* The first element of t may as well stand at the end of s.
LEMMA MoveHead ==
  ASSUME NEW S, NEW s \in Seq(S), NEW t \in Seq(S), t # <<>>
  PROVE  (s \o <<Head(t)>>) \o Tail(t) = s \o t
<1>1. Head(t) \in S /\ Tail(t) \in Seq(S) /\ <<Head(t)>> \in Seq(S)
  BY HeadTailProperties
<1>2. <<Head(t)>> \o Tail(t) = t
  <2>1. Len(<<Head(t)>> \o Tail(t)) = Len(t)
    BY <1>1, ConcatProperties, HeadTailProperties, LenProperties
  <2>2. ASSUME NEW i \in 1..Len(t) PROVE (<<Head(t)>> \o Tail(t))[i] = t[i]
    <3>1. Len(<<Head(t)>>) = 1 /\ Len(Tail(t)) = Len(t) - 1 /\ Len(t) \in Nat
      BY HeadTailProperties, LenProperties
    <3>2. (<<Head(t)>> \o Tail(t))[i] = IF i <= 1 THEN <<Head(t)>>[i] ELSE Tail(t)[i - 1]
      BY <1>1, <3>1, ConcatProperties
    <3>3. CASE i = 1
      BY <3>2, <3>3
    <3>4. CASE i # 1
      BY <3>1, <3>2, <3>4, HeadTailProperties
    <3> QED BY <3>3, <3>4
  <2>3. <<Head(t)>> \o Tail(t) \in Seq(S)
    BY <1>1, ConcatProperties
  <2> QED BY <2>1, <2>2, <2>3, SeqEqual
<1>3. (s \o <<Head(t)>>) \o Tail(t) = s \o (<<Head(t)>> \o Tail(t))
  BY <1>1, ConcatAssociative
<1> QED BY <1>2, <1>3

\* What stands before the rest is the head of the whole, the rest its tail.
LEMMA HeadTailConcat ==
  ASSUME NEW S, NEW h \in S, NEW r \in Seq(S)
  PROVE  /\ <<h>> \o r # <<>>
         /\ Head(<<h>> \o r) = h
         /\ Tail(<<h>> \o r) = r
<1> DEFINE w == <<h>> \o r
<1>1. <<h>> \in Seq(S) /\ Len(<<h>>) = 1 /\ Len(r) \in Nat
  BY LenProperties
<1>2. w \in Seq(S) /\ Len(w) = 1 + Len(r) /\ w # <<>>
  BY <1>1, ConcatProperties, EmptySeq
<1>3. \A i \in 1..Len(w) : w[i] = IF i <= 1 THEN <<h>>[i] ELSE r[i - 1]
  BY <1>1, <1>2, ConcatProperties
<1> HIDE DEF w
<1>4. Head(w) = h
  BY <1>1, <1>2, <1>3
<1>5. Tail(w) = r
  <2>1. /\ Tail(w) \in Seq(S) /\ Len(Tail(w)) = Len(r)
        /\ \A i \in 1..Len(Tail(w)) : Tail(w)[i] = w[i + 1]
    BY <1>1, <1>2, HeadTailProperties
  <2>2. \A i \in 1..Len(r) : Tail(w)[i] = r[i]
    BY <1>1, <1>2, <1>3, <2>1
  <2> QED BY <2>1, <2>2, SeqEqual
<1> QED BY <1>2, <1>4, <1>5 DEF w

\* Turning a sequence by one neither loses nor repeats an element.
LEMMA Turning ==
  ASSUME NEW S, NEW s \in Seq(S), s # <<>>
  PROVE  LET t == Append(Tail(s), Head(s))
         IN  /\ t \in Seq(S) /\ Len(t) = Len(s)
             /\ Range(t) = Range(s)
             /\ IsInjective(s) => IsInjective(t)
<1> DEFINE t == Append(Tail(s), Head(s))
           n == Len(s)
<1>1. /\ n \in Nat \ {0} /\ Head(s) \in S /\ Tail(s) \in Seq(S) /\ Len(Tail(s)) = n - 1
      /\ \A i \in 1..(n - 1) : Tail(s)[i] = s[i + 1]
      /\ Head(s) = s[1]
  BY HeadTailProperties, EmptySeq, LenProperties
<1>2. /\ t \in Seq(S) /\ Len(t) = n
      /\ \A i \in 1..(n - 1) : t[i] = s[i + 1]
      /\ t[n] = s[1]
  BY <1>1, AppendProperties
<1>3. DOMAIN s = 1..n /\ DOMAIN t = 1..n
  BY <1>2, LenProperties
<1> HIDE DEF t, n
<1>4. Range(t) = Range(s)
  <2>1. \A i \in 1..n : \E j \in 1..n : t[i] = s[j]
    BY <1>1, <1>2
  <2>2. \A j \in 1..n : \E i \in 1..n : t[i] = s[j]
    <3> TAKE j \in 1..n
    <3>1. CASE j = 1
      BY <1>1, <1>2, <3>1
    <3>2. CASE j # 1
      <4>1. j - 1 \in 1..(n - 1) /\ j - 1 \in 1..n /\ (j - 1) + 1 = j
        BY <1>1, <3>2
      <4> QED BY <1>2, <4>1
    <3> QED BY <3>1, <3>2
  <2>3. Range(t) = {t[i] : i \in 1..n} /\ Range(s) = {s[j] : j \in 1..n}
    BY <1>3 DEF Range
  <2>4. ASSUME NEW x PROVE x \in Range(t) <=> x \in Range(s)
    BY <2>1, <2>2, <2>3, Zenon
  <2> QED BY <2>4, Zenon
<1>5. ASSUME IsInjective(s) PROVE IsInjective(t)
  <2>1. \A i, j \in 1..n : s[i] = s[j] => i = j
    BY <1>3, <1>5 DEF IsInjective
  <2>2. ASSUME NEW i \in 1..n, NEW j \in 1..n, t[i] = t[j] PROVE i = j
    BY <1>1, <1>2, <2>1, <2>2
  <2> QED BY <1>3, <2>2 DEF IsInjective
<1> QED BY <1>2, <1>4, <1>5 DEF t, n

-------------------------------------------------------------------------------
(* The path implements BufferRing *)

LEMMA RingTyped ==
  TypeInv => /\ FtxHeld \in Seq(Bufs) /\ IotHeld \in Seq(Bufs)
             /\ Filled \in Seq(Bufs) /\ Ring \in Seq(Bufs)
<1> SUFFICES ASSUME TypeInv
             PROVE  /\ FtxHeld \in Seq(Bufs) /\ IotHeld \in Seq(Bufs)
                    /\ Filled \in Seq(Bufs) /\ Ring \in Seq(Bufs)
  OBVIOUS
<1>1. FtxHeld \in Seq(Bufs)
  BY DEF TypeInv, TypeOK, FtxOK, FtxHeld
<1>2. IotHeld \in Seq(Bufs)
  BY DEF TypeInv, TypeOK, IotOK, IotHeld
<1>3. history \in Seq(Bufs) /\ IotThrOutFifo \in Seq(Bufs) /\ IotThrInFifo \in Seq(Bufs)
  BY DEF TypeInv, TypeOK, FifosOK
<1>4. history \o FtxHeld \in Seq(Bufs)
  BY <1>1, <1>3, ConcatProperties
<1>5. (history \o FtxHeld) \o IotThrOutFifo \in Seq(Bufs)
  BY <1>3, <1>4, ConcatProperties
<1>6. Filled \in Seq(Bufs)
  BY <1>2, <1>5, ConcatProperties DEF Filled
<1>7. Ring \in Seq(Bufs)
  BY <1>3, <1>6, ConcatProperties DEF Ring
<1> QED BY <1>1, <1>2, <1>6, <1>7

\* The stages of the ring add up to it.
LEMMA RingLength ==
  TypeInv => Len(Ring) = Len(history) + Len(FtxHeld) + Len(IotThrOutFifo) + Len(IotHeld)
                         + Len(IotThrInFifo)
<1> SUFFICES ASSUME TypeInv
             PROVE  Len(Ring) = Len(history) + Len(FtxHeld) + Len(IotThrOutFifo)
                                + Len(IotHeld) + Len(IotThrInFifo)
  OBVIOUS
<1>1. /\ history \in Seq(Bufs) /\ IotThrOutFifo \in Seq(Bufs) /\ IotThrInFifo \in Seq(Bufs)
      /\ FtxHeld \in Seq(Bufs) /\ IotHeld \in Seq(Bufs) /\ Filled \in Seq(Bufs)
  BY RingTyped DEF TypeInv, TypeOK, FifosOK
<1>2. /\ history \o FtxHeld \in Seq(Bufs)
      /\ Len(history \o FtxHeld) = Len(history) + Len(FtxHeld)
  BY <1>1, ConcatProperties
<1>3. /\ (history \o FtxHeld) \o IotThrOutFifo \in Seq(Bufs)
      /\ Len((history \o FtxHeld) \o IotThrOutFifo)
           = Len(history) + Len(FtxHeld) + Len(IotThrOutFifo)
  BY <1>1, <1>2, ConcatProperties
<1>4. Len(Filled) = Len(history) + Len(FtxHeld) + Len(IotThrOutFifo) + Len(IotHeld)
  BY <1>1, <1>3, ConcatProperties DEF Filled
<1> QED BY <1>1, <1>4, ConcatProperties DEF Ring

\* iot_receive_routine takes the free buffer that follows the filled ones.
LEMMA FillStep == TypeInv /\ IotFillFragment /\ Len(Ring) = NBufs => Circulation!Fill
<1> SUFFICES ASSUME TypeInv, IotFillFragment, Len(Ring) = NBufs
             PROVE  Circulation!Fill
  OBVIOUS
<1> DEFINE before == (history \o FtxHeld) \o IotThrOutFifo
<1>1. /\ history \in Seq(Bufs) /\ IotThrOutFifo \in Seq(Bufs) /\ IotThrInFifo \in Seq(Bufs)
      /\ FtxHeld \in Seq(Bufs) /\ IotThrInFifo # <<>>
  BY RingTyped DEF TypeInv, TypeOK, FifosOK, IotFillFragment
<1>2. IotHeld = <<>> /\ IotHeld' = <<Head(IotThrInFifo)>>
  BY DEF IotFillFragment, IotHeld, TypeInv, TypeOK, IotOK
<1>3. /\ IotThrInFifo' = Tail(IotThrInFifo) /\ history' = history /\ FtxHeld' = FtxHeld
      /\ IotThrOutFifo' = IotThrOutFifo
  BY DEF IotFillFragment, FtxHeld
<1>4. before \in Seq(Bufs)
  BY <1>1, ConcatProperties
<1>5. Ring = before \o IotThrInFifo
  BY <1>2, <1>4, ConcatEmptySeq DEF Ring, Filled
<1>6. Ring' = (before \o <<Head(IotThrInFifo)>>) \o Tail(IotThrInFifo)
  BY <1>2, <1>3 DEF Ring, Filled
<1>7. Ring' = Ring
  <2> HIDE DEF before
  <2> QED BY <1>1, <1>4, <1>5, <1>6, MoveHead
<1>8. Len(IotHeld) = 0 /\ Len(IotHeld') = 1
  BY <1>2
<1>9. Len(history) + Len(FtxHeld) + Len(IotThrOutFifo) < NBufs
  <2>1. /\ Len(history) \in Nat /\ Len(FtxHeld) \in Nat /\ Len(IotThrOutFifo) \in Nat
        /\ Len(IotThrInFifo) \in Nat \ {0}
    BY <1>1, LenProperties, EmptySeq
  <2> QED BY <1>8, <2>1, RingLength
<1> QED BY <1>3, <1>7, <1>8, <1>9 DEF Circulation!Fill

\* What it put into IotThrOutFifo stands where it stood in its hands.
LEMMA PublishStep == TypeInv /\ IotPutFragment => Circulation!Publish
<1> SUFFICES ASSUME TypeInv, IotPutFragment PROVE Circulation!Publish
  OBVIOUS
<1> DEFINE before == history \o FtxHeld
<1>1. /\ history \in Seq(Bufs) /\ IotThrOutFifo \in Seq(Bufs) /\ FtxHeld \in Seq(Bufs)
      /\ iot.buf \in Bufs /\ <<iot.buf>> \in Seq(Bufs)
  BY RingTyped DEF TypeInv, TypeOK, FifosOK, IotPutFragment, IotOK
<1>2. IotHeld = <<iot.buf>> /\ IotHeld' = <<>>
  <2>1. iot'.pc # "put"
    <3>1. iot' = [iot EXCEPT !.pc = "get", !.buf = NoBuf] \/ iot' = IotIdle
      BY DEF IotPutFragment
    <3>2. IotIdle.pc = "recv"
      BY DEF IotIdle
    <3>3. [iot EXCEPT !.pc = "get", !.buf = NoBuf].pc = "get"
      BY DEF TypeInv, TypeOK, IotOK
    <3> QED BY <3>1, <3>2, <3>3
  <2> QED BY <2>1 DEF IotPutFragment, IotHeld
<1>3. /\ IotThrInFifo' = IotThrInFifo /\ history' = history /\ FtxHeld' = FtxHeld
      /\ IotThrOutFifo' = IotThrOutFifo \o <<iot.buf>>
  BY <1>1, AppendIsConcat DEF IotPutFragment, FtxHeld
<1>4. before \in Seq(Bufs) /\ before \o (IotThrOutFifo \o <<iot.buf>>) \in Seq(Bufs)
  BY <1>1, ConcatProperties
<1>5. Filled = (before \o IotThrOutFifo) \o <<iot.buf>>
  BY <1>2 DEF Filled
<1>6. Filled' = (before \o (IotThrOutFifo \o <<iot.buf>>)) \o <<>>
  BY <1>2, <1>3 DEF Filled
<1>7. Filled' = Filled
  <2> HIDE DEF before
  <2> QED BY <1>1, <1>4, <1>5, <1>6, ConcatEmptySeq, ConcatAssociative
<1>8. Ring' = Ring
  BY <1>3, <1>7 DEF Ring
<1>9. Len(IotHeld) = 1 /\ Len(IotHeld') = 0 /\ Len(IotThrOutFifo') = Len(IotThrOutFifo) + 1
  BY <1>1, <1>2, AppendProperties DEF IotPutFragment
<1> QED BY <1>3, <1>8, <1>9 DEF Circulation!Publish

\* fusion_transmit_routine takes the one that has waited longest.
LEMMA TakeStep == TypeInv /\ FusionTransmit => Circulation!Take
<1> SUFFICES ASSUME TypeInv, FusionTransmit PROVE Circulation!Take
  OBVIOUS
<1>1. /\ history \in Seq(Bufs) /\ IotThrOutFifo \in Seq(Bufs) /\ IotThrOutFifo # <<>>
  BY DEF TypeInv, TypeOK, FifosOK, FusionTransmit
<1>2. FtxHeld = <<>> /\ FtxHeld' = <<Head(IotThrOutFifo)>>
  BY DEF FusionTransmit, FtxHeld
<1>3. /\ IotThrInFifo' = IotThrInFifo /\ history' = history /\ IotHeld' = IotHeld
      /\ IotThrOutFifo' = Tail(IotThrOutFifo)
  BY DEF FusionTransmit, IotHeld
<1>4. (history \o FtxHeld') \o IotThrOutFifo' = (history \o FtxHeld) \o IotThrOutFifo
  BY <1>1, <1>2, <1>3, ConcatEmptySeq, MoveHead
<1>5. Ring' = Ring
  BY <1>3, <1>4 DEF Ring, Filled
<1>6. /\ Len(FtxHeld) = 0 /\ Len(FtxHeld') = 1
      /\ Len(IotThrOutFifo) > 0 /\ Len(IotThrOutFifo') = Len(IotThrOutFifo) - 1
  BY <1>1, <1>2, <1>3, HeadTailProperties, EmptySeq
<1> QED BY <1>3, <1>5, <1>6 DEF Circulation!Take

\* hist_push_frag links it in behind the ones that are kept.
LEMMA LinkStep == TypeInv /\ HistPushFrag => Circulation!Link
<1> SUFFICES ASSUME TypeInv, HistPushFrag PROVE Circulation!Link
  OBVIOUS
<1>1. history \in Seq(Bufs) /\ ftx.buf \in Bufs /\ <<ftx.buf>> \in Seq(Bufs)
  BY DEF TypeInv, TypeOK, FifosOK, HistPushFrag, FtxOK
<1>2. FtxHeld = <<ftx.buf>> /\ FtxHeld' = <<>>
  BY DEF HistPushFrag, FtxHeld, FtxIdle
<1>3. /\ IotThrInFifo' = IotThrInFifo /\ IotHeld' = IotHeld
      /\ IotThrOutFifo' = IotThrOutFifo /\ history' = history \o <<ftx.buf>>
  BY <1>1, AppendIsConcat DEF HistPushFrag, IotHeld
<1>4. history' \o FtxHeld' = history \o FtxHeld
  BY <1>1, <1>2, <1>3, ConcatProperties, ConcatEmptySeq
<1>5. Ring' = Ring
  BY <1>3, <1>4 DEF Ring, Filled
<1>6. Len(FtxHeld) = 1 /\ Len(FtxHeld') = 0 /\ Len(history') = Len(history) + 1
  BY <1>1, <1>2, AppendProperties DEF HistPushFrag
<1> QED BY <1>3, <1>5, <1>6 DEF Circulation!Link

\* free_history takes the head of the list and puts it behind the free buffers: the
\* ring turns by one.
LEMMA ReleaseStep == TypeInv /\ HistPopFrag => Circulation!Release /\ Ring # <<>>
<1> SUFFICES ASSUME TypeInv, HistPopFrag PROVE Circulation!Release /\ Ring # <<>>
  OBVIOUS
<1> DEFINE h == Head(history)
           T == Tail(history)
           F == FtxHeld
           O == IotThrOutFifo
           I == IotHeld
           J == IotThrInFifo
           rest == (((T \o F) \o O) \o I) \o J
<1>1. /\ history \in Seq(Bufs) /\ history # <<>> /\ h \in Bufs /\ T \in Seq(Bufs)
      /\ F \in Seq(Bufs) /\ O \in Seq(Bufs) /\ I \in Seq(Bufs) /\ J \in Seq(Bufs)
      /\ <<h>> \in Seq(Bufs)
  BY RingTyped, HeadTailProperties DEF TypeInv, TypeOK, FifosOK, HistPopFrag, HeadTimedOut
<1>2. history = <<h>> \o T
  BY <1>1, MoveHead, EmptySeq, ConcatEmptySeq
<1>3. /\ history' = T /\ FtxHeld' = F /\ IotThrOutFifo' = O /\ IotHeld' = I
      /\ IotThrInFifo' = J \o <<h>>
  BY <1>1, AppendIsConcat DEF HistPopFrag, FtxHeld, IotHeld
<1>4. Ring = (((<<h>> \o T) \o F) \o O) \o I \o J
  BY <1>2 DEF Ring, Filled
<1>5. Ring' = ((((T \o F) \o O) \o I) \o (J \o <<h>>))
  BY <1>3 DEF Ring, Filled
<1> HIDE DEF h, T, F, O, I, J
<1>6. /\ T \o F \in Seq(Bufs) /\ (T \o F) \o O \in Seq(Bufs)
      /\ ((T \o F) \o O) \o I \in Seq(Bufs) /\ rest \in Seq(Bufs)
  <2>1. T \o F \in Seq(Bufs)
    BY <1>1, ConcatProperties
  <2>2. (T \o F) \o O \in Seq(Bufs)
    BY <1>1, <2>1, ConcatProperties
  <2>3. ((T \o F) \o O) \o I \in Seq(Bufs)
    BY <1>1, <2>2, ConcatProperties
  <2> QED BY <1>1, <2>1, <2>2, <2>3, ConcatProperties
<1>7. Ring = <<h>> \o rest
  <2>1. (<<h>> \o T) \o F = <<h>> \o (T \o F)
    <3>1. <<h>> \in Seq(Bufs) /\ T \in Seq(Bufs) /\ F \in Seq(Bufs)
      BY <1>1, <1>6
    <3> QED BY ONLY <3>1, ConcatAssociative
  <2>2. (<<h>> \o (T \o F)) \o O = <<h>> \o ((T \o F) \o O)
    <3>1. <<h>> \in Seq(Bufs) /\ T \o F \in Seq(Bufs) /\ O \in Seq(Bufs)
      BY <1>1, <1>6
    <3> QED BY ONLY <3>1, ConcatAssociative
  <2>3. (<<h>> \o ((T \o F) \o O)) \o I = <<h>> \o (((T \o F) \o O) \o I)
    <3>1. <<h>> \in Seq(Bufs) /\ (T \o F) \o O \in Seq(Bufs) /\ I \in Seq(Bufs)
      BY <1>1, <1>6
    <3> QED BY ONLY <3>1, ConcatAssociative, SMTT(40)
  <2>4. (<<h>> \o (((T \o F) \o O) \o I)) \o J = <<h>> \o ((((T \o F) \o O) \o I) \o J)
    <3>1. <<h>> \in Seq(Bufs) /\ ((T \o F) \o O) \o I \in Seq(Bufs) /\ J \in Seq(Bufs)
      BY <1>1, <1>6
    <3> QED BY ONLY <3>1, ConcatAssociative, SMTT(40)
  <2>5. ((<<h>> \o T) \o F) \o O = <<h>> \o ((T \o F) \o O)
    BY ONLY <2>1, <2>2
  <2>6. (((<<h>> \o T) \o F) \o O) \o I = <<h>> \o (((T \o F) \o O) \o I)
    BY ONLY <2>3, <2>5
  <2>7. ((((<<h>> \o T) \o F) \o O) \o I) \o J = <<h>> \o ((((T \o F) \o O) \o I) \o J)
    BY ONLY <2>4, <2>6
  <2> QED BY ONLY <1>4, <2>7
<1>8. Ring' = rest \o <<h>>
  <2>1. (((T \o F) \o O) \o I) \o (J \o <<h>>) = ((((T \o F) \o O) \o I) \o J) \o <<h>>
    <3>1. ((T \o F) \o O) \o I \in Seq(Bufs) /\ J \in Seq(Bufs) /\ <<h>> \in Seq(Bufs)
      BY <1>1, <1>6
    <3> QED BY ONLY <3>1, ConcatAssociative, SMTT(40)
  <2> QED BY ONLY <1>5, <2>1
<1> HIDE DEF rest
<1>9. Ring # <<>> /\ Head(Ring) = h /\ Tail(Ring) = rest
  BY <1>1, <1>6, <1>7, HeadTailConcat
<1>10. Ring' = Append(Tail(Ring), Head(Ring))
  BY <1>1, <1>6, <1>8, <1>9, AppendIsConcat
<1>11. Len(history) > 0 /\ Len(history') = Len(history) - 1
  BY <1>1, HeadTailProperties, EmptySeq DEF HistPopFrag
<1>12. UNCHANGED <<Len(FtxHeld), Len(IotThrOutFifo), Len(IotHeld)>>
  BY DEF HistPopFrag, FtxHeld, IotHeld
<1> QED BY <1>9, <1>10, <1>11, <1>12 DEF Circulation!Release, Circulation!Turned

\* Every other step leaves the ring and its stages alone.
LEMMA StutterStep ==
  ASSUME TypeInv, [Next]_vars,
         ~IotFillFragment, ~IotPutFragment, ~FusionTransmit, ~HistPushFrag, ~HistPopFrag
  PROVE  UNCHANGED Circulation!all
<1>1. ASSUME UNCHANGED <<fifos, FtxHeld, IotHeld>> PROVE UNCHANGED Circulation!all
  BY <1>1 DEF fifos, Circulation!all, Circulation!stages, Ring, Filled
<1>2. ASSUME UNCHANGED fifos, UNCHANGED <<iot, ftx>> PROVE UNCHANGED Circulation!all
  BY <1>1, <1>2 DEF FtxHeld, IotHeld
<1>3. ASSUME NEW n \in Sizes, IotReceive(n) PROVE UNCHANGED Circulation!all
  <2>1. iot.pc # "put" /\ iot'.pc # "put"
    BY <1>3 DEF IotReceive, TypeInv, TypeOK, IotOK
  <2>2. UNCHANGED <<IotHeld, FtxHeld>> /\ UNCHANGED fifos
    BY <1>3, <2>1 DEF IotReceive, IotHeld, FtxHeld
  <2> QED BY <1>1, <2>2
<1>4. CASE Tick
  <2>1. UNCHANGED FtxHeld
    BY <1>4 DEF Tick, FtxHeld, TypeInv, TypeOK, FtxOK
  <2>2. UNCHANGED IotHeld /\ UNCHANGED fifos
    BY <1>4 DEF Tick, IotHeld
  <2> QED BY <1>1, <2>1, <2>2
<1>5. ASSUME NEW r \in Requests, HistFindFrag(r) PROVE UNCHANGED Circulation!all
  BY <1>2, <1>5 DEF HistFindFrag
<1>6. CASE IotReceiveNothing \/ FreeHistoryLock \/ FreeHistoryUnlock \/ Serving
  BY <1>2, <1>6 DEF IotReceiveNothing, FreeHistoryLock, FreeHistoryUnlock, Serving,
     LingerLoad, LingerStore, ReplyCodeLoad, ReplyCodeStore, SendReply
<1>7. CASE ServiceControl \/ FusionTakes \/ UNCHANGED vars
  BY <1>2, <1>7 DEF ServiceControl, FusionTakes, vars
<1> QED BY <1>3, <1>4, <1>5, <1>6, <1>7 DEF Next, IotThread, FtxThread, RUdpThread, FrxThread

\* What is known of the ring besides its type: no buffer is missing, none is there
\* twice.  The length is what the guard of Circulation!Fill needs.
RingInv == Len(Ring) = NBufs /\ Ownership

LEMMA InitRing == Init => Circulation!Init /\ RingInv
<1> SUFFICES ASSUME Init PROVE Circulation!Init /\ RingInv
  OBVIOUS
<1>1. IotThrInFifo = [i \in Bufs |-> i] /\ history = <<>> /\ IotThrOutFifo = <<>>
  BY DEF Init
<1>2. FtxHeld = <<>> /\ IotHeld = <<>>
  BY DEF Init, FtxIdle, IotIdle, FtxHeld, IotHeld
<1>3. IotThrInFifo \in Seq(Bufs) /\ <<>> \in Seq(Bufs)
  BY InitTypeInv, EmptySeq DEF TypeInv, TypeOK, FifosOK
<1>4. Ring = IotThrInFifo
  BY <1>1, <1>2, <1>3, ConcatEmptySeq DEF Ring, Filled
<1>5. DOMAIN Ring = Bufs /\ Len(Ring) = NBufs
  BY <1>1, <1>3, <1>4, TxAssumption, LenProperties DEF Bufs
<1>6. Ownership
  BY <1>1, <1>4, <1>5 DEF Ownership, IsInjective, Range
<1>7. Circulation!Init
  BY <1>1, <1>2, <1>4 DEF Circulation!Init, Bufs
<1> QED BY <1>5, <1>6, <1>7 DEF RingInv

LEMMA StepRing ==
  TypeInv /\ RingInv /\ [Next]_vars => [Circulation!Next]_(Circulation!all) /\ RingInv'
<1> SUFFICES ASSUME TypeInv, RingInv, [Next]_vars
             PROVE  [Circulation!Next]_(Circulation!all) /\ RingInv'
  OBVIOUS
<1>1. ASSUME Ring' = Ring PROVE RingInv'
  BY <1>1 DEF RingInv, Ownership
<1>2. CASE IotFillFragment
  BY <1>1, <1>2, FillStep DEF RingInv, Circulation!Next, Circulation!Fill
<1>3. CASE IotPutFragment
  BY <1>1, <1>3, PublishStep DEF Circulation!Next, Circulation!Publish
<1>4. CASE FusionTransmit
  BY <1>1, <1>4, TakeStep DEF Circulation!Next, Circulation!Take
<1>5. CASE HistPushFrag
  BY <1>1, <1>5, LinkStep DEF Circulation!Next, Circulation!Link
<1>6. CASE HistPopFrag
  <2>1. Circulation!Release /\ Ring # <<>> /\ Ring \in Seq(Bufs)
    BY <1>6, ReleaseStep, RingTyped
  <2>2. Ring' = Append(Tail(Ring), Head(Ring))
    BY <2>1 DEF Circulation!Release, Circulation!Turned
  <2>3. RingInv'
    BY <2>1, <2>2, Turning DEF RingInv, Ownership
  <2> QED BY <2>1, <2>3 DEF Circulation!Next
<1>7. CASE /\ ~IotFillFragment /\ ~IotPutFragment /\ ~FusionTransmit /\ ~HistPushFrag
           /\ ~HistPopFrag
  BY <1>1, <1>7, StutterStep DEF Circulation!all
<1> QED BY <1>2, <1>3, <1>4, <1>5, <1>6, <1>7

\* The fifos, the history and the hands of the threads implement the ring of
\* buffers: a buffer goes from IotThrInFifo through IotThrOutFifo and the history
\* back to IotThrInFifo, in the order in which it started, and none is overtaken.
THEOREM RefinesBufferRing == Spec => ImplementsBufferRing
<1>1. TypeInv /\ RingInv /\ [Next]_vars => TypeInv' /\ RingInv'
  BY StepRing, StepTypeInv
<1>2. TypeInv /\ RingInv /\ [Next]_vars => [Circulation!Next]_(Circulation!all)
  BY StepRing
<1> QED
  BY InitTypeInv, InitRing, <1>1, <1>2, PTL DEF Spec, ImplementsBufferRing, Circulation!Spec

\* No buffer is lost and none is in two places, for any number of buffers: neither
\* by the four threads nor by the pointer that hist_find_frag hands out.
THEOREM BuffersOwned == Spec => []Ownership
<1>1. TypeInv /\ RingInv /\ [Next]_vars => TypeInv' /\ RingInv'
  BY StepRing, StepTypeInv
<1>2. RingInv => Ownership
  BY DEF RingInv
<1> QED BY InitTypeInv, InitRing, <1>1, <1>2, PTL DEF Spec
LEMMA ModInTurn ==
  ASSUME NEW n \in Nat \ {0}, NEW i \in 1..n
  PROVE  i % n = IF i = n THEN 0 ELSE i
<1>1. PICK q \in Int, r \in 0..(n - 1) : i = n * q + r /\ r = i % n
  OBVIOUS
<1>2. q >= 0
  <2>1. SUFFICES ASSUME q <= -1 PROVE FALSE
    OBVIOUS
  <2>2. n * q <= n * (-1)
    BY <2>1
  <2> QED BY <1>1, <2>2
<1>3. q <= 1
  <2>1. SUFFICES ASSUME q >= 2 PROVE FALSE
    OBVIOUS
  <2>2. n * q >= n * 2
    BY <2>1
  <2> QED BY <1>1, <2>2
<1>4. q = 0 \/ q = 1
  BY <1>2, <1>3
<1> QED BY <1>1, <1>4

\* A turn of the ring keeps it a ring.
LEMMA TurnInTurn ==
  ASSUME NEW n \in Nat \ {0}, NEW S, NEW s \in Seq(S), Len(s) = n,
         \A i \in 1..n : s[(i % n) + 1] = (s[i] % n) + 1
  PROVE  LET t == Append(Tail(s), Head(s))
         IN  \A i \in 1..n : t[(i % n) + 1] = (t[i] % n) + 1
<1> DEFINE t == Append(Tail(s), Head(s))
<1>1. /\ Head(s) \in S /\ Tail(s) \in Seq(S) /\ Len(Tail(s)) = n - 1
      /\ \A i \in 1..(n - 1) : Tail(s)[i] = s[i + 1]
      /\ Head(s) = s[1]
  BY HeadTailProperties, EmptySeq, LenProperties
<1>2. (\A i \in 1..(n - 1) : t[i] = s[i + 1]) /\ t[n] = s[1]
  BY <1>1, AppendProperties
<1> HIDE DEF t
<1>3. ASSUME NEW i \in 1..(n - 1) PROVE (i % n) + 1 = i + 1
  <2>1. i \in 1..n /\ i # n
    OBVIOUS
  <2>2. i % n = i
    BY <2>1, ModInTurn
  <2> QED BY <2>2
<1>4. (n % n) + 1 = 1
  BY ModInTurn
<1>5. \A i \in 1..n : t[i] = s[(i % n) + 1]
  BY <1>2, <1>3, <1>4
<1>6. \A i \in 1..n : (i % n) + 1 \in 1..n
  BY <1>3, <1>4
<1>7. ASSUME NEW i \in 1..n PROVE t[(i % n) + 1] = (t[i] % n) + 1
  <2>1. PICK j \in 1..n : j = (i % n) + 1
    BY <1>6
  <2>2. t[j] = s[(j % n) + 1] /\ t[i] = s[j]
    BY <1>5, <2>1
  <2>3. s[(j % n) + 1] = (s[j] % n) + 1
    OBVIOUS
  <2> QED BY <2>1, <2>2, <2>3, Zenon
<1> QED BY <1>7 DEF t

LEMMA InitInTurn == Init => UsedInTurn
<1> SUFFICES ASSUME Init, NEW i \in 1..NBufs
             PROVE  Ring[(i % NBufs) + 1] = (Ring[i] % NBufs) + 1
  BY DEF UsedInTurn, Circulation!InTurn
<1>1. Ring = [k \in 1..NBufs |-> k]
  BY InitRing DEF Circulation!Init
<1>2. (i % NBufs) + 1 \in 1..NBufs
  BY TxAssumption
<1> QED BY <1>1, <1>2

LEMMA StepInTurn == TypeInv /\ RingInv /\ UsedInTurn /\ [Next]_vars => UsedInTurn'
<1> SUFFICES ASSUME TypeInv, RingInv, UsedInTurn, [Next]_vars PROVE UsedInTurn'
  OBVIOUS
<1>1. Ring' = Ring \/ Ring' = Append(Tail(Ring), Head(Ring))
  BY StepRing DEF Circulation!Next, Circulation!all, Circulation!Fill, Circulation!Publish,
     Circulation!Take, Circulation!Link, Circulation!Release, Circulation!Turned
<1>2. Ring \in Seq(Bufs) /\ Len(Ring) = NBufs /\ NBufs \in Nat \ {0}
  BY RingTyped, TxAssumption DEF RingInv
<1>3. \A i \in 1..NBufs : Ring[(i % NBufs) + 1] = (Ring[i] % NBufs) + 1
  BY DEF UsedInTurn, Circulation!InTurn
<1>4. \A i \in 1..NBufs : Ring'[(i % NBufs) + 1] = (Ring'[i] % NBufs) + 1
  <2>1. CASE Ring' = Ring
    BY <1>3, <2>1
  <2>2. CASE Ring' = Append(Tail(Ring), Head(Ring))
    <3>1. LET t == Append(Tail(Ring), Head(Ring))
          IN  \A i \in 1..NBufs : t[(i % NBufs) + 1] = (t[i] % NBufs) + 1
      BY <1>2, <1>3, TurnInTurn
    <3> QED BY <2>2, <3>1, Zenon
  <2> QED BY <1>1, <2>1, <2>2
<1> QED BY <1>4 DEF UsedInTurn, Circulation!InTurn

\* In whatever order the threads run, the buffers follow each other in the order of
\* their numbers, so a fragment that was sent is overwritten only after all the other
\* buffers were filled: the history is given back oldest first.
THEOREM BuffersUsedInTurn == Spec => []UsedInTurn
BY InitTypeInv, InitRing, InitInTurn, StepTypeInv, StepRing, StepInTurn, PTL DEF Spec
===============================================================================
