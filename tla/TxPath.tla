-------------------------------- MODULE TxPath --------------------------------
(***************************************************************************)
(* The terminal's path from the IoT device to fusion (the satellite side), *)
(* with its retransmission history.  Four threads share one pool of        *)
(* Msg_Buf_t buffers that circulates through                               *)
(*                                                                         *)
(*   IotThrInFifo -> iot_receive_routine -> IotThrOutFifo                  *)
(*     -> fusion_transmit_routine -> history -> r_udp_routine -> ...       *)
(*                                                                         *)
(* and fusion_receive_routine, which serves the hub's requests for lost    *)
(* fragments out of the history through a pointer it keeps after it has    *)
(* released sync_hist.                                                     *)
(*                                                                         *)
(* Every thread is taken past its start-up code: sockTx is already set.    *)
(***************************************************************************)
EXTENDS Integers, Sequences, Functions

CONSTANTS
  NBufs,         \* buffers fed into IotThrInFifo (MAX_BUFFER_ELEMS - 1 = 63)
  MaxMsgSize,    \* MAX_MSG_SIZE, payload bytes in one fragment (60)
  Sizes,         \* sizes of the datagrams that the device sends
  SeqSpace,      \* SEQ_MASK + 1, sequence numbers in a fragment header (16)
  Timeout,       \* R_UDP_TIMEOUT, seconds a fragment is kept (40)
  WireCap,       \* datagrams the transmit socket holds
  MaxSeq,        \* bound: increments of txSeqNum
  MaxLinger      \* bound: seconds by which requests lift a timeout over Timeout

FragMod == 32                                    \* FRAG_MASK + 1
Bufs    == 1..NBufs
NoBuf   == 0

ASSUME TxAssumption ==
  /\ NBufs \in Nat \ {0} /\ MaxMsgSize \in Nat \ {0}
  /\ Sizes \subseteq 1..((FragMod - 1) * MaxMsgSize)
  /\ SeqSpace \in Nat \ {0} /\ 256 % SeqSpace = 0 /\ Timeout \in Nat \ {0}
  /\ WireCap \in Nat /\ MaxSeq \in Nat /\ MaxLinger \in Nat \ {0}

VARIABLES
  IotThrInFifo,      \* free buffers
  IotThrOutFifo,     \* filled buffers, not yet sent
  history,           \* buffers from ListHead to ListTail
  sync_hist,         \* "free", or "r_udp" while free_history holds the mutex
  msg,               \* contents of the buffers
  time,              \* Msg_Buf_t.time of each buffer, relative to the clock
  iot,               \* iot_receive_routine: pc and locals
  ftx,               \* fusion_transmit_routine: pc and locals
  frx,               \* fusion_receive_routine inside handle_lost_request
  txSeqNum,          \* its increments; the uint8_t is this modulo 256
  service_disabled,
  stats,             \* the global of sensor_stats.c, the fields of this path
  wire,              \* datagrams sent to fusion and not yet taken from it
  due,               \* history variable: what time should be in the history
  lifted,            \* history variable: who has lifted it since it was linked in
  staleWrite         \* history variable: msgCode was set in a recycled buffer

fifos  == <<IotThrInFifo, IotThrOutFifo, history>>
ghosts == <<due, lifted, staleWrite>>
vars   == <<fifos, sync_hist, msg, time, iot, ftx, frx, txSeqNum,
            service_disabled, stats, wire, ghosts>>

-------------------------------------------------------------------------------
(* Datagrams are cut in fragments.  A payload is named by the datagram it   *)
(* comes from, the position of the fragment in it, and the number of bytes  *)
(* of the datagram that follow it.                                          *)

FragmentsRoundedDown(n) == n \div MaxMsgSize                \* faulty variant
Fragments(n) == n \div MaxMsgSize + (IF n % MaxMsgSize > 0 THEN 1 ELSE 0)
MaxFragments == FragMod - 1

\* A request for a fragment, as rUdpFragmntReq_t carries it.
Requests == [fragmntLost : 0..MaxFragments, seqNum : 0..(SeqSpace - 1)]
NoRequest == [fragmntLost |-> -1, seqNum |-> -1]

Blank == [frgmntIdx |-> 0, frgmnts |-> 0, hdrSeqNum |-> 0, msgLen |-> 0,
          seqNum |-> 0, data |-> [pkt |-> 0, off |-> 0, rest |-> 0]]

IotIdle == [pc |-> "recv", res |-> 0, frgmnts |-> 0, frgmntIdx |-> 0, buf |-> NoBuf]
FtxIdle == [pc |-> "get", buf |-> NoBuf, time |-> 0]
FrxIdle == [pc |-> "idle", req |-> NoRequest, buf |-> NoBuf, time |-> 0,
            idx |-> 0, low |-> 0, fresh |-> FALSE]

\* What udp_send reads from a buffer.  served names the request that a reply
\* answers; it is not part of the datagram.
Datagram(m, served) ==
  [frgmntIdx |-> m.frgmntIdx, frgmnts |-> m.frgmnts, seqNum |-> m.hdrSeqNum,
   msgLen |-> m.msgLen, served |-> served]

\* sendto on the nonblocking socket: a full socket (EAGAIN) loses the datagram.
UdpSend(d) == wire' = IF Len(wire) < WireCap THEN Append(wire, d) ELSE wire

Init ==
  /\ IotThrInFifo = [i \in Bufs |-> i]
  /\ IotThrOutFifo = <<>>
  /\ history = <<>>
  /\ sync_hist = "free"
  /\ msg = [b \in Bufs |-> Blank]
  /\ time = [b \in Bufs |-> 0]
  /\ iot = IotIdle
  /\ ftx = FtxIdle
  /\ frx = FrxIdle
  /\ txSeqNum = 0
  /\ service_disabled = FALSE
  /\ stats = [pkts_sent |-> 0, pkts_err |-> 0]
  /\ wire = <<>>
  /\ due = [b \in Bufs |-> 0] /\ lifted = [b \in Bufs |-> "nobody"]
  /\ staleWrite = FALSE

-------------------------------------------------------------------------------
(* iot_receive_routine *)

\* A datagram of n bytes.  While the service is disabled it is dumped.
IotReceive(n) ==
  /\ iot.pc = "recv" /\ ~service_disabled /\ txSeqNum < MaxSeq
  /\ txSeqNum' = txSeqNum + 1
  /\ iot' = [iot EXCEPT !.pc = "get", !.res = n, !.frgmnts = Fragments(n), !.frgmntIdx = 0]
  /\ UNCHANGED <<fifos, sync_hist, msg, time, ftx, frx, service_disabled, stats,
                 wire, ghosts>>

\* udp_recv returns 0 or -1; only an error other than EAGAIN is counted.  The
\* sequence number is consumed all the same.
IotReceiveNothing ==
  /\ iot.pc = "recv" /\ ~service_disabled /\ txSeqNum < MaxSeq
  /\ txSeqNum' = txSeqNum + 1
  /\ \/ stats' = [stats EXCEPT !.pkts_err = @ + 1]
     \/ UNCHANGED stats
  /\ UNCHANGED <<fifos, sync_hist, msg, time, iot, ftx, frx, service_disabled,
                 wire, ghosts>>

\* Fifo_get blocks until there is a free buffer; then the fragment is filled in.
IotFillFragment ==
  /\ iot.pc = "get" /\ IotThrInFifo # <<>>
  /\ LET b   == Head(IotThrInFifo)
         len == IF MaxMsgSize < iot.res THEN MaxMsgSize ELSE iot.res
     IN  /\ msg' = [msg EXCEPT ![b] =
                      [@ EXCEPT !.seqNum = txSeqNum % 256, !.frgmnts = iot.frgmnts % FragMod,
                                !.msgLen = len, !.frgmntIdx = iot.frgmntIdx % FragMod,
                                !.data = [pkt |-> txSeqNum, off |-> iot.frgmntIdx,
                                          rest |-> iot.res - len]]]
         /\ iot' = [iot EXCEPT !.pc = "put", !.buf = b, !.res = @ - len, !.frgmntIdx = @ + 1]
  /\ IotThrInFifo' = Tail(IotThrInFifo)
  /\ UNCHANGED <<IotThrOutFifo, history, sync_hist, time, ftx, frx, txSeqNum,
                 service_disabled, stats, wire, ghosts>>

\* update_stats_pkts_recv(1) adds to the field pkts_sent.
IotPutFragment ==
  /\ iot.pc = "put"
  /\ IotThrOutFifo' = Append(IotThrOutFifo, iot.buf)
  /\ IF iot.res > 0
     THEN /\ iot' = [iot EXCEPT !.pc = "get", !.buf = NoBuf]
          /\ UNCHANGED stats
     ELSE /\ iot' = IotIdle
          /\ stats' = [stats EXCEPT !.pkts_sent = @ + 1]
  /\ UNCHANGED <<IotThrInFifo, history, sync_hist, msg, time, ftx, frx, txSeqNum,
                 service_disabled, wire, ghosts>>

-------------------------------------------------------------------------------
(* fusion_transmit_routine *)

\* seqNum & SEQ_MASK.  Faulty variant: the mask is taken for the modulus.
HdrSeqModMask(n) == n % (SeqSpace - 1)
HdrSeq(n) == n % SeqSpace

\* Takes a fragment, completes its header, sends it, and in hist_push_frag reads
\* the clock before it asks for the mutex.
FusionTransmit ==
  /\ ftx.pc = "get" /\ IotThrOutFifo # <<>>
  /\ LET b == Head(IotThrOutFifo)
     IN  /\ msg' = [msg EXCEPT ![b].hdrSeqNum = HdrSeq(msg[b].seqNum)]
         /\ UdpSend(Datagram(msg'[b], NoRequest))
         /\ ftx' = [pc |-> "push", buf |-> b, time |-> Timeout]
  /\ IotThrOutFifo' = Tail(IotThrOutFifo)
  /\ UNCHANGED <<IotThrInFifo, history, sync_hist, time, iot, frx, txSeqNum,
                 service_disabled, stats, ghosts>>

\* Faulty variant: links the fragment in at ListHead.
HistPushFragAtHead ==
  /\ ftx.pc = "push" /\ sync_hist = "free"
  /\ time' = [time EXCEPT ![ftx.buf] = ftx.time]
  /\ due' = [due EXCEPT ![ftx.buf] = ftx.time]
  /\ history' = <<ftx.buf>> \o history
  /\ ftx' = FtxIdle
  /\ UNCHANGED <<IotThrInFifo, IotThrOutFifo, sync_hist, msg, iot, frx, txSeqNum,
                 service_disabled, stats, wire, lifted, staleWrite>>

HistPushFrag ==
  /\ ftx.pc = "push" /\ sync_hist = "free"
  /\ time' = [time EXCEPT ![ftx.buf] = ftx.time]
  /\ due' = [due EXCEPT ![ftx.buf] = ftx.time]
  /\ history' = Append(history, ftx.buf)
  /\ ftx' = FtxIdle
  /\ UNCHANGED <<IotThrInFifo, IotThrOutFifo, sync_hist, msg, iot, frx, txSeqNum,
                 service_disabled, stats, wire, lifted, staleWrite>>

-------------------------------------------------------------------------------
(* r_udp_routine: once a second, release what has timed out *)

\* Faulty variant: == for <=.
HeadTimedOutNow == history # <<>> /\ time[Head(history)] = 0
HeadTimedOut == history # <<>> /\ time[Head(history)] <= 0

FreeHistoryLock ==
  /\ sync_hist = "free"
  /\ sync_hist' = "r_udp"
  /\ UNCHANGED <<fifos, msg, time, iot, ftx, frx, txSeqNum, service_disabled, stats,
                 wire, ghosts>>

\* Faulty variants: keep the buffer on the list, or never put it back.
HistPopFragKept ==
  /\ sync_hist = "r_udp" /\ HeadTimedOut
  /\ IotThrInFifo' = Append(IotThrInFifo, Head(history))
  /\ sync_hist' = "free"
  /\ UNCHANGED <<IotThrOutFifo, history, msg, time, iot, ftx, frx, txSeqNum,
                 service_disabled, stats, wire, ghosts>>

HistPopFragLeaked ==
  /\ sync_hist = "r_udp" /\ HeadTimedOut
  /\ history' = Tail(history)
  /\ UNCHANGED <<IotThrInFifo, IotThrOutFifo, sync_hist, msg, time, iot, ftx, frx,
                 txSeqNum, service_disabled, stats, wire, ghosts>>

\* The buffer is back in circulation before the mutex is released.
HistPopFrag ==
  /\ sync_hist = "r_udp" /\ HeadTimedOut
  /\ history' = Tail(history)
  /\ IotThrInFifo' = Append(IotThrInFifo, Head(history))
  /\ frx' = [frx EXCEPT !.fresh = @ /\ frx.buf # Head(history)]
  /\ due' = [due EXCEPT ![Head(history)] = 0]
  /\ lifted' = [lifted EXCEPT ![Head(history)] = "nobody"]
  /\ UNCHANGED <<IotThrOutFifo, sync_hist, msg, time, iot, ftx, txSeqNum,
                 service_disabled, stats, wire, staleWrite>>

FreeHistoryUnlock ==
  /\ sync_hist = "r_udp" /\ ~HeadTimedOut
  /\ sync_hist' = "free"
  /\ UNCHANGED <<fifos, msg, time, iot, ftx, frx, txSeqNum, service_disabled, stats,
                 wire, ghosts>>

-------------------------------------------------------------------------------
(* fusion_receive_routine: handle_lost_request and hist_find_frag *)

Matching(b, r) == msg[b].frgmntIdx = r.fragmntLost /\ msg[b].hdrSeqNum = r.seqNum

\* The place in the history of the first fragment with this identity, if any.
\* Faulty variant: the comparison forgets the fragment index.
FirstMatchBySeq(r) ==
  {i \in 1..Len(history) : msg[history[i]].hdrSeqNum = r.seqNum}
FirstMatch(r) ==
  {i \in 1..Len(history) : /\ Matching(history[i], r)
                           /\ \A j \in 1..(i - 1) : ~Matching(history[j], r)}

\* Lives: the timeouts that are told apart (the lowest stands for itself and less).
\* Lifted: a timeout and one second more.  Faulty variant: a linger that adds nothing.
Lives     == (-MaxLinger)..(Timeout + MaxLinger)
LiftedByNothing(t) == {t}
Lifted(t) == IF t = -MaxLinger THEN {t, t + 1} ELSE {t + 1}

Found(b, r) == [FrxIdle EXCEPT !.pc = "linger", !.req = r, !.fresh = TRUE, !.buf = b]

\* Faulty variant: the handler uses the result without the NULL check.
HistFindFragUnchecked(r) ==
  /\ frx.pc = "idle" /\ sync_hist = "free"
  /\ \/ FirstMatch(r) = {} /\ frx' = Found(NoBuf, r)
     \/ \E i \in FirstMatch(r) : frx' = Found(history[i], r)
  /\ UNCHANGED <<fifos, sync_hist, msg, time, iot, ftx, txSeqNum, service_disabled,
                 stats, wire, ghosts>>

\* The walk of the list is done under the mutex; what follows is not.  A request is
\* not served while it would lift a timeout over the bound.
HistFindFrag(r) ==
  /\ frx.pc = "idle" /\ sync_hist = "free"
  /\ \/ FirstMatch(r) = {} /\ UNCHANGED frx
     \/ \E i \in FirstMatch(r) : /\ time[history[i]] < Timeout + MaxLinger
                                 /\ frx' = Found(history[i], r)
  /\ UNCHANGED <<fifos, sync_hist, msg, time, iot, ftx, txSeqNum, service_disabled,
                 stats, wire, ghosts>>

\* n->time.tv_sec += 1 is a load and a store.
LingerLoad ==
  /\ frx.pc = "linger"
  /\ frx' = [frx EXCEPT !.pc = "lingerStore", !.time = time[frx.buf]]
  /\ UNCHANGED <<fifos, sync_hist, msg, time, iot, ftx, txSeqNum, service_disabled,
                 stats, wire, ghosts>>

\* Of the fragments in the history: what a request adds to their time, or that the
\* time was overwritten by one for an earlier use of the buffer.
Lift(b, seconds) ==
  IF frx.fresh
  THEN /\ due' = [due EXCEPT ![b] = IF lifted[b] = "late" THEN @ ELSE @ + seconds]
       /\ lifted' = [lifted EXCEPT ![b] = IF @ = "late" THEN @ ELSE "request"]
  ELSE /\ due' = [due EXCEPT ![b] = 0]
       /\ lifted' = [lifted EXCEPT ![b] = IF b \in Range(history) THEN "late" ELSE @]

LingerStore ==
  /\ frx.pc = "lingerStore"
  /\ \E t \in Lifted(frx.time) : /\ time' = [time EXCEPT ![frx.buf] = t]
                                 /\ Lift(frx.buf, IF due[frx.buf] = -MaxLinger THEN t - frx.time ELSE 1)
  /\ frx' = [frx EXCEPT !.pc = "code", !.time = 0]
  /\ UNCHANGED <<fifos, sync_hist, msg, iot, ftx, txSeqNum, service_disabled, stats,
                 wire, staleWrite>>

\* msgCode shares its byte with frgmntIdx and the low bit of frgmnts, so setting
\* it loads and stores those as well.
ReplyCodeLoad ==
  /\ frx.pc = "code"
  /\ frx' = [frx EXCEPT !.pc = "codeStore", !.idx = msg[frx.buf].frgmntIdx,
                        !.low = msg[frx.buf].frgmnts % 2]
  /\ UNCHANGED <<fifos, sync_hist, msg, time, iot, ftx, txSeqNum, service_disabled,
                 stats, wire, ghosts>>

ReplyCodeStore ==
  /\ frx.pc = "codeStore"
  /\ msg' = [msg EXCEPT ![frx.buf].frgmntIdx = frx.idx,
                        ![frx.buf].frgmnts = 2 * (@ \div 2) + frx.low]
  /\ frx' = [frx EXCEPT !.pc = "send", !.idx = 0, !.low = 0]
  /\ staleWrite' = (staleWrite \/ ~frx.fresh)
  /\ UNCHANGED <<fifos, sync_hist, time, iot, ftx, txSeqNum, service_disabled, stats,
                 wire, due, lifted>>

SendReply ==
  /\ frx.pc = "send"
  /\ UdpSend(Datagram(msg[frx.buf], frx.req))
  /\ frx' = FrxIdle
  /\ UNCHANGED <<fifos, sync_hist, msg, time, iot, ftx, txSeqNum, service_disabled,
                 stats, ghosts>>

-------------------------------------------------------------------------------
(* The clock, the control thread, and fusion *)

\* One second passes.
Older(t) == IF t > -MaxLinger THEN t - 1 ELSE t

\* Whether due says anything of a buffer.
Dated(b) == b \in Range(history) /\ lifted[b] # "late"

Tick ==
  /\ time' = [b \in Bufs |-> Older(time[b])]
  /\ due' = [b \in Bufs |-> IF Dated(b) THEN Older(due[b]) ELSE due[b]]
  /\ ftx' = IF ftx.pc = "push" THEN [ftx EXCEPT !.time = Older(@)] ELSE ftx
  /\ frx' = IF frx.pc = "lingerStore" THEN [frx EXCEPT !.time = Older(@)] ELSE frx
  /\ UNCHANGED <<fifos, sync_hist, msg, iot, txSeqNum, service_disabled, stats, wire,
                 lifted, staleWrite>>

\* process_term_app_msg on TERM_APP_SERVICE_DISABLE and TERM_APP_SERVICE_ENABLE.
ServiceControl ==
  /\ service_disabled' = ~service_disabled
  /\ UNCHANGED <<fifos, sync_hist, msg, time, iot, ftx, frx, txSeqNum, stats, wire, ghosts>>

FusionTakes ==
  /\ wire # <<>>
  /\ wire' = Tail(wire)
  /\ UNCHANGED <<fifos, sync_hist, msg, time, iot, ftx, frx, txSeqNum,
                 service_disabled, stats, ghosts>>

IotThread  == (\E n \in Sizes : IotReceive(n)) \/ IotReceiveNothing \/ IotFillFragment
                \/ IotPutFragment
FtxThread  == FusionTransmit \/ HistPushFrag
RUdpThread == FreeHistoryLock \/ HistPopFrag \/ FreeHistoryUnlock
Serving    == LingerLoad \/ LingerStore \/ ReplyCodeLoad \/ ReplyCodeStore \/ SendReply
FrxThread  == (\E r \in Requests : HistFindFrag(r)) \/ Serving

Next == IotThread \/ FtxThread \/ RUdpThread \/ FrxThread \/ Tick \/ ServiceControl \/ FusionTakes

Spec == Init /\ [][Next]_vars

\* No thread stops for ever.  fusion_transmit_routine competes for sync_hist with
\* r_udp_routine, which leaves it alone for a second between two rounds: it gets
\* it in the end (strong fairness).  Nothing is assumed of the device, of the
\* requests, or of the thread that serves them.
Fairness ==
  /\ WF_vars(IotFillFragment) /\ WF_vars(IotPutFragment)
  /\ WF_vars(FusionTransmit) /\ SF_vars(HistPushFrag)
  /\ WF_vars(RUdpThread) /\ WF_vars(Tick)

FairSpec == Spec /\ Fairness

-------------------------------------------------------------------------------
(* Properties *)

Headers == [frgmntIdx : 0..MaxFragments, frgmnts : 0..MaxFragments,
            hdrSeqNum : 0..(SeqSpace - 1), msgLen : 0..MaxMsgSize, seqNum : 0..255,
            data : [pkt : Nat, off : Nat, rest : Nat]]

FifosOK ==
  IotThrInFifo \in Seq(Bufs) /\ IotThrOutFifo \in Seq(Bufs) /\ history \in Seq(Bufs)

TimesOK == time \in [Bufs -> Lives]
DueOK   == due \in [Bufs -> Int] /\ lifted \in [Bufs -> {"nobody", "request", "late"}]

IotOK ==
  /\ iot \in [pc : {"recv", "get", "put"}, res : Nat, frgmnts : Nat,
              frgmntIdx : Nat, buf : Bufs \cup {NoBuf}]
  /\ iot.pc = "put" <=> iot.buf # NoBuf

FtxOK ==
  /\ ftx \in [pc : {"get", "push"}, buf : Bufs \cup {NoBuf}, time : Lives]
  /\ ftx.pc = "push" <=> ftx.buf # NoBuf

FrxOK ==
  /\ frx \in [pc : {"idle", "linger", "lingerStore", "code", "codeStore", "send"},
              req : Requests \cup {NoRequest}, buf : Bufs \cup {NoBuf}, time : Lives,
              idx : 0..MaxFragments, low : 0..1, fresh : BOOLEAN]
  /\ frx.pc # "idle" <=> frx.buf # NoBuf

CountersOK ==
  /\ sync_hist \in {"free", "r_udp"}
  /\ txSeqNum \in 0..MaxSeq
  /\ stats \in [pkts_sent : Nat, pkts_err : Nat]

FlagsOK == service_disabled \in BOOLEAN /\ staleWrite \in BOOLEAN

\* The type of every variable, and which buffer a thread holds at which point:
\* the handler of a request has one from the moment it found a match.
TypeOK ==
  /\ FifosOK /\ msg \in [Bufs -> Headers] /\ TimesOK
  /\ DueOK /\ IotOK /\ FtxOK /\ FrxOK /\ CountersOK /\ FlagsOK

\* Every buffer in the order in which it goes round: kept for retransmission,
\* being linked in, waiting to be sent, being filled, free.
FtxHeld == IF ftx.pc = "push" THEN <<ftx.buf>> ELSE <<>>
IotHeld == IF iot.pc = "put" THEN <<iot.buf>> ELSE <<>>
Filled  == history \o FtxHeld \o IotThrOutFifo \o IotHeld
Ring    == Filled \o IotThrInFifo

\* No buffer is lost, none has two owners: whatever the four threads do, the
\* fifos, the history and the hands of the threads hold each buffer exactly once.
Ownership == IsInjective(Ring) /\ Range(Ring) = Bufs

\* The path implements the circulation of BufferRing: a buffer moves from stage to
\* stage in the order of the ring, and none overtakes another.
Circulation == INSTANCE BufferRing
                 WITH N <- NBufs, ring <- Ring, kept <- Len(history),
                      linking <- Len(FtxHeld), waiting <- Len(IotThrOutFifo),
                      filling <- Len(IotHeld)
ImplementsBufferRing == Circulation!Spec

\* The buffers are used in turn: none is filled again before all the others were,
\* although four threads hand them on.
UsedInTurn == Circulation!InTurn

\* Between iot_receive_routine and the end of the history no fragment is skipped,
\* duplicated or overtaken: each is followed by the next of its datagram or, if
\* it is the last, by the first of a later one.  This holds of the payloads even
\* when a late reply damaged headers.
Contiguous ==
  \A i \in 1..(Len(Filled) - 1) :
    LET p == msg[Filled[i]].data
        q == msg[Filled[i + 1]].data
    IN  IF p.rest > 0 THEN q.pkt = p.pkt /\ q.off = p.off + 1
                      ELSE q.pkt > p.pkt /\ q.off = 0

\* The header of every filled buffer tells the truth about its payload: its
\* position, and that it is the last fragment exactly when nothing follows it
\* (a datagram that is a multiple of MAX_MSG_SIZE has no empty last fragment).
\* Only the store of a reply into a recycled buffer can break this.
HeadersTruthful ==
  ~staleWrite =>
    \A i \in 1..Len(Filled) :
      LET m == msg[Filled[i]]
      IN  /\ m.frgmntIdx = m.data.off
          /\ m.frgmntIdx + 1 + Fragments(m.data.rest) = m.frgmnts
          /\ i <= Len(history) => m.hdrSeqNum = m.data.pkt % SeqSpace

\* Sequence number and index identify a fragment in the history, although the number
\* has four bits and the history more buffers: two fragments with the same identity
\* are of datagrams a whole turn of the sequence numbers apart.  hist_find_frag then
\* finds the older one.
IdentityUnique ==
  ~staleWrite => \A i, j \in 1..Len(history) :
    LET m == msg[history[i]]
        n == msg[history[j]]
    IN  (i < j /\ m.frgmntIdx = n.frgmntIdx /\ m.hdrSeqNum = n.hdrSeqNum)
          => n.data.pkt >= m.data.pkt + SeqSpace

\* As long as the buffer that hist_find_frag returned has not been recycled, it
\* is still the fragment that was asked for, and it is still in the history.
FoundIsRequested ==
  (frx.pc # "idle" /\ frx.fresh) =>
    /\ frx.buf \in Range(history)
    /\ ~staleWrite => Matching(frx.buf, frx.req)

\* free_history stops at the first fragment that has not timed out, hist_peek_timed_head
\* looks at no other.  So a fragment holds back those behind it, which timed out before
\* it, only if a request made it linger or a late store hit one of them: otherwise the
\* list is in the order of the timeouts.
HistoryByAge ==
  \A i, j \in 1..Len(history) :
    LET a == history[i]
        b == history[j]
    IN  (i < j /\ lifted[a] = "nobody" /\ lifted[b] # "late") => time[a] <= time[b]

\* A fragment leaves the history only after R_UDP_TIMEOUT seconds and one more for every
\* request that was answered with it, unless a late store moved its timeout.
KeptForTimeout ==
  [][\A b \in Bufs : (b \in Range(history) /\ b \notin Range(history'))
                       => (due[b] <= 0 \/ lifted[b] = "late")]_vars

\* One fragment stays at the head for ever because requests lift its timeout again and
\* again: hist_find_frag adds a second on every one, and sets no limit.
HeadLingers == LingerStore /\ history # <<>> /\ frx.buf = Head(history)
HeadIs(b)   == history # <<>> /\ Head(history) = b
HeldByRequests == (\E b \in Bufs : <>[]HeadIs(b)) /\ []<><<HeadLingers>>_vars

\* iot_receive_routine does not wait for a free buffer for ever: the history gives them
\* back, unless requests hold its head.
ReceiveProceeds == (iot.pc = "get" ~> iot.pc = "put") \/ HeldByRequests

\* Every fragment that is kept is released, although free_history stops at the first
\* that has not expired and every request makes one linger, unless requests hold the head.
HistoryDrains ==
  (\A b \in Bufs : b \in Range(history) ~> b \in Range(IotThrInFifo)) \/ HeldByRequests

-------------------------------------------------------------------------------
(* What the comments and the log of the program say and the code does not do *)

\* "Successfully replied frag=.. seq=..": the reply is the fragment of the request.
ReplyServesRequest ==
  \A i \in 1..Len(wire) :
    wire[i].served # NoRequest =>
      /\ wire[i].frgmntIdx = wire[i].served.fragmntLost
      /\ wire[i].seqNum = wire[i].served.seqNum
===============================================================================
