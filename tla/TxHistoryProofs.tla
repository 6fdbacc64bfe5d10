--------------------------- MODULE TxHistoryProofs ---------------------------
(***************************************************************************)
(* Proofs about the retransmission history of TxPath, for every number of  *)
(* buffers, every timeout and any number of requests: it is in the order   *)
(* of the timeouts but for what requests lifted, what leaves it has timed  *)
(* out, and what hist_find_frag hands out is what was asked for as long as *)
(* it has not been recycled.                                               *)
(***************************************************************************)
EXTENDS TxPathProofs

RingKnown == TypeInv /\ RingInv

LEMMA InitRingKnown == Init => RingKnown
BY InitTypeInv, InitRing DEF RingKnown

LEMMA StepRingKnown == RingKnown /\ [Next]_vars => RingKnown'
BY StepTypeInv, StepRing DEF RingKnown

-------------------------------------------------------------------------------
(* Who is in the history is nowhere else *)

LEMMA ConcatPlaces ==
  ASSUME NEW S, NEW s \in Seq(S), NEW t \in Seq(S)
  PROVE  /\ s \o t \in Seq(S) /\ Len(s \o t) = Len(s) + Len(t)
         /\ \A i \in 1..Len(s) : (s \o t)[i] = s[i]
         /\ \A i \in 1..Len(t) : (s \o t)[Len(s) + i] = t[i]
<1>1. Len(s) \in Nat /\ Len(t) \in Nat
  BY LenProperties
<1>2. /\ s \o t \in Seq(S) /\ Len(s \o t) = Len(s) + Len(t)
      /\ \A i \in 1..(Len(s) + Len(t)) :
           (s \o t)[i] = IF i <= Len(s) THEN s[i] ELSE t[i - Len(s)]
  BY ConcatProperties
<1>3. ASSUME NEW i \in 1..Len(t) PROVE (s \o t)[Len(s) + i] = t[i]
  <2>1. Len(s) + i \in 1..(Len(s) + Len(t)) /\ ~(Len(s) + i <= Len(s))
        /\ (Len(s) + i) - Len(s) = i
    BY <1>1
  <2> QED BY <1>2, <2>1
<1>4. ASSUME NEW i \in 1..Len(s) PROVE (s \o t)[i] = s[i]
  BY <1>1, <1>2
<1> QED BY <1>2, <1>3, <1>4

\* Where the ring has what the threads and the fifos hold.
LEMMA Places ==
  ASSUME TypeInv
  PROVE  /\ Len(history) \in Nat /\ Len(Filled) \in Nat /\ Len(history) <= Len(Filled)
         /\ Ring \in Seq(Bufs) /\ DOMAIN Ring = 1..Len(Ring) /\ Len(Filled) <= Len(Ring)
         /\ Range(history) = {history[i] : i \in 1..Len(history)}
         /\ \A i \in 1..Len(history) : Ring[i] = history[i] /\ Filled[i] = history[i]
         /\ \A i \in 1..Len(Filled) : Ring[i] = Filled[i]
         /\ ftx.pc = "push" => /\ Len(history) + 1 <= Len(Filled)
                               /\ Filled[Len(history) + 1] = ftx.buf
         /\ IotThrOutFifo # <<>> =>
              /\ Len(history) + Len(FtxHeld) + 1 <= Len(Filled)
              /\ Filled[Len(history) + Len(FtxHeld) + 1] = Head(IotThrOutFifo)
         /\ IotThrInFifo # <<>> => /\ Len(Filled) + 1 <= Len(Ring)
                                   /\ Ring[Len(Filled) + 1] = Head(IotThrInFifo)
<1> DEFINE a == history \o FtxHeld
           b == a \o IotThrOutFifo
<1>1. /\ history \in Seq(Bufs) /\ IotThrOutFifo \in Seq(Bufs) /\ IotThrInFifo \in Seq(Bufs)
      /\ FtxHeld \in Seq(Bufs) /\ IotHeld \in Seq(Bufs) /\ Filled \in Seq(Bufs)
      /\ Ring \in Seq(Bufs)
  BY RingTyped DEF TypeInv, TypeOK, FifosOK
<1>2. /\ Len(history) \in Nat /\ Len(FtxHeld) \in Nat /\ Len(IotThrOutFifo) \in Nat
      /\ Len(IotHeld) \in Nat /\ Len(IotThrInFifo) \in Nat /\ Len(Filled) \in Nat
      /\ DOMAIN history = 1..Len(history) /\ DOMAIN Ring = 1..Len(Ring)
  BY <1>1, LenProperties
<1>3. /\ a \in Seq(Bufs) /\ Len(a) = Len(history) + Len(FtxHeld)
      /\ \A i \in 1..Len(history) : a[i] = history[i]
      /\ \A i \in 1..Len(FtxHeld) : a[Len(history) + i] = FtxHeld[i]
  BY <1>1, ConcatPlaces
<1> HIDE DEF a
<1>4. /\ b \in Seq(Bufs) /\ Len(b) = Len(a) + Len(IotThrOutFifo)
      /\ \A i \in 1..Len(a) : b[i] = a[i]
      /\ \A i \in 1..Len(IotThrOutFifo) : b[Len(a) + i] = IotThrOutFifo[i]
  <2>1. a \in Seq(Bufs) /\ IotThrOutFifo \in Seq(Bufs)
    BY <1>1, <1>3
  <2> QED BY ONLY <2>1, ConcatPlaces
<1> HIDE DEF b
<1>5. /\ Len(Filled) = Len(b) + Len(IotHeld)
      /\ \A i \in 1..Len(b) : Filled[i] = b[i]
  <2>1. Filled = b \o IotHeld
    BY DEF Filled, a, b
  <2>2. b \in Seq(Bufs) /\ IotHeld \in Seq(Bufs)
    BY <1>1, <1>4
  <2> QED BY ONLY <2>1, <2>2, ConcatPlaces
<1>6. /\ Len(Ring) = Len(Filled) + Len(IotThrInFifo)
      /\ \A i \in 1..Len(Filled) : Ring[i] = Filled[i]
      /\ \A i \in 1..Len(IotThrInFifo) : Ring[Len(Filled) + i] = IotThrInFifo[i]
  BY <1>1, ConcatPlaces DEF Ring
<1>7. ASSUME NEW i \in 1..Len(history) PROVE Ring[i] = history[i] /\ Filled[i] = history[i]
  <2>1. i \in 1..Len(a) /\ i \in 1..Len(b) /\ i \in 1..Len(Filled)
    BY <1>2, <1>3, <1>4, <1>5
  <2> QED BY <1>3, <1>4, <1>5, <1>6, <2>1
<1>8. ASSUME ftx.pc = "push"
      PROVE  Len(history) + 1 <= Len(Filled) /\ Filled[Len(history) + 1] = ftx.buf
  <2>1. Len(FtxHeld) = 1 /\ FtxHeld[1] = ftx.buf
    BY <1>8 DEF FtxHeld
  <2>2. Len(history) + 1 \in 1..Len(a) /\ Len(history) + 1 \in 1..Len(b) /\ 1 \in 1..Len(FtxHeld)
    BY <1>2, <1>3, <1>4, <2>1
  <2> QED BY <1>2, <1>3, <1>4, <1>5, <2>1, <2>2
<1>9. ASSUME IotThrOutFifo # <<>>
      PROVE  /\ Len(history) + Len(FtxHeld) + 1 <= Len(Filled)
             /\ Filled[Len(history) + Len(FtxHeld) + 1] = Head(IotThrOutFifo)
  <2>1. 1 \in 1..Len(IotThrOutFifo) /\ Head(IotThrOutFifo) = IotThrOutFifo[1]
    BY <1>1, <1>2, <1>9, HeadTailProperties, EmptySeq
  <2>2. Len(a) + 1 \in 1..Len(b) /\ b[Len(a) + 1] = IotThrOutFifo[1]
    BY <1>2, <1>3, <1>4, <2>1
  <2> QED BY <1>2, <1>3, <1>4, <1>5, <2>1, <2>2
<1>10. ASSUME IotThrInFifo # <<>>
       PROVE  Len(Filled) + 1 <= Len(Ring) /\ Ring[Len(Filled) + 1] = Head(IotThrInFifo)
  <2>1. 1 \in 1..Len(IotThrInFifo) /\ Head(IotThrInFifo) = IotThrInFifo[1]
    BY <1>1, <1>2, <1>10, HeadTailProperties, EmptySeq
  <2> QED BY <1>2, <1>6, <2>1
<1>11. Len(history) <= Len(Filled) /\ Len(Filled) <= Len(Ring)
  BY <1>2, <1>3, <1>4, <1>5, <1>6
<1>12. /\ Range(history) = {history[i] : i \in 1..Len(history)}
       /\ \A i \in 1..Len(Filled) : Ring[i] = Filled[i]
  BY <1>2, <1>6, <1>11 DEF Range
<1> QED BY <1>1, <1>2, <1>7, <1>8, <1>9, <1>10, <1>11, <1>12

\* A buffer that is being filled, sent or linked in is not in the history.
LEMMA Disjoint ==
  ASSUME RingKnown
  PROVE  /\ ftx.pc = "push" => ftx.buf \notin Range(history)
         /\ IotThrOutFifo # <<>> => Head(IotThrOutFifo) \notin Range(history)
         /\ IotThrInFifo # <<>> => Head(IotThrInFifo) \notin Range(history)
<1>1. \A i, j \in 1..Len(Ring) : Ring[i] = Ring[j] => i = j
  BY Places DEF RingKnown, RingInv, Ownership, IsInjective
<1>2. Len(FtxHeld) \in Nat
  BY RingTyped, LenProperties DEF RingKnown
<1>3. ASSUME NEW x, x \in Range(history)
      PROVE  \E i \in 1..Len(history) : i \in 1..Len(Ring) /\ Ring[i] = x
  BY <1>3, Places DEF RingKnown
<1>4. ASSUME NEW n \in 1..Len(Ring), n > Len(history), Ring[n] \in Range(history) PROVE FALSE
  <2>1. PICK i \in 1..Len(history) : i \in 1..Len(Ring) /\ Ring[i] = Ring[n]
    BY <1>3, <1>4
  <2> QED BY <1>1, <1>4, <2>1, Places DEF RingKnown
<1>5. ASSUME ftx.pc = "push" PROVE ftx.buf \notin Range(history)
  <2>1. /\ Len(history) + 1 \in 1..Len(Ring) /\ Len(history) + 1 > Len(history)
        /\ Ring[Len(history) + 1] = ftx.buf
    BY <1>5, Places DEF RingKnown
  <2> QED BY <1>4, <2>1
<1>6. ASSUME IotThrOutFifo # <<>> PROVE Head(IotThrOutFifo) \notin Range(history)
  <2> DEFINE n == Len(history) + Len(FtxHeld) + 1
  <2>1. n \in 1..Len(Ring) /\ n > Len(history) /\ Ring[n] = Head(IotThrOutFifo)
    BY <1>2, <1>6, Places DEF RingKnown
  <2> QED BY <1>4, <2>1
<1>7. ASSUME IotThrInFifo # <<>> PROVE Head(IotThrInFifo) \notin Range(history)
  <2>1. /\ Len(Filled) + 1 \in 1..Len(Ring) /\ Len(Filled) + 1 > Len(history)
        /\ Ring[Len(Filled) + 1] = Head(IotThrInFifo)
    BY <1>7, Places DEF RingKnown
  <2> QED BY <1>4, <2>1
<1> QED BY <1>5, <1>6, <1>7

-------------------------------------------------------------------------------
(* What hist_find_frag hands out *)

\* While the buffer that was found has not been recycled, it is in the history, it is
\* the one that was asked for, and what the store of msgCode will write back to its
\* neighbours in the byte is what they are.
FoundInv ==
  /\ FoundIsRequested
  /\ (frx.pc = "codeStore" /\ frx.fresh) =>
       frx.idx = msg[frx.buf].frgmntIdx /\ frx.low = msg[frx.buf].frgmnts % 2

\* Nobody but the thread that serves a request writes to a message in the history.
LEMMA HistoryMsg ==
  ASSUME RingKnown, FoundInv, [Next]_vars, NEW b \in Bufs, b \in Range(history)
  PROVE  \/ msg'[b] = msg[b]
         \/ ReplyCodeStore /\ frx.buf = b /\ ~frx.fresh
<1>0. msg \in [Bufs -> Headers]
  BY DEF RingKnown, TypeInv, TypeOK
<1>1. CASE IotFillFragment
  <2>1. Head(IotThrInFifo) # b
    BY <1>1, Disjoint DEF IotFillFragment
  <2> QED BY <1>0, <1>1, <2>1 DEF IotFillFragment
<1>2. CASE FusionTransmit
  <2>1. Head(IotThrOutFifo) # b
    BY <1>2, Disjoint DEF FusionTransmit
  <2> QED BY <1>0, <1>2, <2>1 DEF FusionTransmit
<1>3. CASE ReplyCodeStore
  <2> DEFINE m == msg[b]
             h == [m EXCEPT !.frgmntIdx = frx.idx, !.frgmnts = 2 * (m.frgmnts \div 2) + frx.low]
  <2>1. CASE frx.buf # b
    BY <1>0, <1>3, <2>1 DEF ReplyCodeStore
  <2>2. CASE frx.buf = b /\ frx.fresh
    <3>1. frx.idx = m.frgmntIdx /\ frx.low = m.frgmnts % 2 /\ m \in Headers
      BY <1>0, <1>3, <2>2 DEF FoundInv, ReplyCodeStore
    <3>2. m.frgmnts \in Nat
      BY <3>1 DEF Headers
    <3>3. 2 * (m.frgmnts \div 2) + frx.low = m.frgmnts
      BY <3>1, <3>2
    <3>4. msg'[b] = h
      BY <1>0, <1>3, <2>2 DEF ReplyCodeStore
    <3> HIDE DEF m
    <3>5. [m EXCEPT !.frgmntIdx = m.frgmntIdx, !.frgmnts = m.frgmnts] = m
      BY <3>1 DEF Headers
    <3>6. h = m
      BY <3>1, <3>3, <3>5
    <3> QED BY <3>4, <3>6 DEF m
  <2>3. CASE frx.buf = b /\ ~frx.fresh
    BY <1>3, <2>3
  <2> QED BY <2>1, <2>2, <2>3
<1>4. CASE ~IotFillFragment /\ ~FusionTransmit /\ ~ReplyCodeStore
  BY <1>4 DEF Next, IotThread, FtxThread, RUdpThread, FrxThread, Serving, vars,
     IotReceive, IotReceiveNothing, IotPutFragment, HistPushFrag, FreeHistoryLock,
     HistPopFrag, FreeHistoryUnlock, HistFindFrag, LingerLoad, LingerStore,
     ReplyCodeLoad, SendReply, Tick, ServiceControl, FusionTakes
<1> QED BY <1>1, <1>2, <1>3, <1>4

\* The history grows at its end, and loses its head.
LEMMA HistorySteps ==
  ASSUME TypeInv, [Next]_vars
  PROVE  \/ history' = history
         \/ /\ HistPushFrag /\ history' = Append(history, ftx.buf)
            /\ Range(history') = Range(history) \cup {ftx.buf}
         \/ /\ HistPopFrag /\ history' = Tail(history) /\ history # <<>>
            /\ Range(history) = Range(history') \cup {Head(history)}
<1>0. history \in Seq(Bufs) /\ (ftx.pc = "push" => ftx.buf \in Bufs)
  BY DEF TypeInv, TypeOK, FifosOK, FtxOK
<1>1. CASE HistPushFrag
  <2>1. history' = Append(history, ftx.buf) /\ ftx.buf \in Bufs
    BY <1>0, <1>1 DEF HistPushFrag
  <2>2. Range(Append(history, ftx.buf)) = Range(history) \cup {ftx.buf}
    <3>1. /\ DOMAIN history = 1..Len(history) /\ Len(history) \in Nat
          /\ DOMAIN Append(history, ftx.buf) = 1..(Len(history) + 1)
          /\ \A i \in 1..Len(history) : Append(history, ftx.buf)[i] = history[i]
          /\ Append(history, ftx.buf)[Len(history) + 1] = ftx.buf
      BY <1>0, <2>1, AppendProperties, LenProperties
    <3> QED BY <3>1 DEF Range
  <2> QED BY <1>1, <2>1, <2>2
<1>2. CASE HistPopFrag
  <2>1. history # <<>> /\ history' = Tail(history)
    BY <1>2 DEF HistPopFrag, HeadTimedOut
  <2>2. /\ DOMAIN history = 1..Len(history) /\ Len(history) \in Nat \ {0}
        /\ DOMAIN Tail(history) = 1..(Len(history) - 1)
        /\ \A i \in 1..(Len(history) - 1) : Tail(history)[i] = history[i + 1]
        /\ Head(history) = history[1]
    BY <1>0, <2>1, HeadTailProperties, LenProperties, EmptySeq
  <2>3. ASSUME NEW x, x \in Range(history)
        PROVE  x \in Range(Tail(history)) \cup {Head(history)}
    <3>1. PICK i \in 1..Len(history) : history[i] = x
      BY <2>2, <2>3 DEF Range
    <3>2. CASE i # 1
      <4>1. i - 1 \in DOMAIN Tail(history) /\ Tail(history)[i - 1] = x
        BY <2>2, <3>1, <3>2
      <4> QED BY <4>1 DEF Range
    <3> QED BY <2>2, <3>1, <3>2
  <2>4. ASSUME NEW x, x \in Range(Tail(history)) \cup {Head(history)}
        PROVE  x \in Range(history)
    BY <2>2, <2>4 DEF Range
  <2> QED BY <1>2, <2>1, <2>3, <2>4
<1>3. CASE ~HistPushFrag /\ ~HistPopFrag
  BY <1>3 DEF Next, IotThread, FtxThread, RUdpThread, FrxThread, Serving, vars, fifos,
     IotReceive, IotReceiveNothing, IotFillFragment, IotPutFragment, FusionTransmit,
     FreeHistoryLock, FreeHistoryUnlock, HistFindFrag, LingerLoad, LingerStore,
     ReplyCodeLoad, ReplyCodeStore, SendReply, Tick, ServiceControl, FusionTakes
<1> QED BY <1>1, <1>2, <1>3

LEMMA InitFound == Init => FoundInv
BY DEF Init, FoundInv, FoundIsRequested, FrxIdle

\* The buffer that was found stays in the history while it is fresh.
LEMMA FreshStays ==
  ASSUME TypeInv, [Next]_vars, frx.fresh, frx.buf \in Range(history),
         HistPopFrag => frx.buf # Head(history)
  PROVE  frx.buf \in Range(history')
BY HistorySteps

\* A request that goes on and is fresh has its buffer, and nobody writes to it.
LEMMA FrxKept ==
  ASSUME RingKnown, FoundInv, [Next]_vars, frx.pc # "idle", frx'.fresh,
         frx'.fresh => frx.fresh, frx'.buf = frx.buf, frx'.req = frx.req
  PROVE  /\ frx'.buf \in Range(history')
         /\ ~staleWrite' => Matching(frx.buf, frx.req)'
         /\ msg'[frx.buf] = msg[frx.buf]
<1>1. frx.fresh /\ frx.buf \in Range(history) /\ frx.buf \in Bufs
  BY DEF FoundInv, FoundIsRequested, RingKnown, TypeInv, TypeOK, FrxOK
<1>2. frx.buf \in Range(history')
  <2>1. HistPopFrag => frx.buf # Head(history)
    BY <1>1 DEF HistPopFrag, RingKnown, TypeInv, TypeOK, FrxOK
  <2> QED BY <1>1, <2>1, FreshStays DEF RingKnown
<1>3. msg'[frx.buf] = msg[frx.buf]
  BY <1>1, HistoryMsg
<1>4. staleWrite => staleWrite'
  BY DEF Next, IotThread, FtxThread, RUdpThread, FrxThread, Serving, vars, ghosts,
     IotReceive, IotReceiveNothing, IotFillFragment, IotPutFragment, FusionTransmit,
     HistPushFrag, FreeHistoryLock, HistPopFrag, FreeHistoryUnlock, HistFindFrag, LingerLoad,
     LingerStore, ReplyCodeLoad, ReplyCodeStore, SendReply, Tick, ServiceControl, FusionTakes
<1>5. ~staleWrite => Matching(frx.buf, frx.req)
  BY <1>1 DEF FoundInv, FoundIsRequested
<1> QED BY <1>2, <1>3, <1>4, <1>5 DEF Matching

LEMMA StepFound == RingKnown /\ FoundInv /\ [Next]_vars => FoundInv'
<1> SUFFICES ASSUME RingKnown, FoundInv, [Next]_vars PROVE FoundInv'
  OBVIOUS
<1>0. frx \in [pc : {"idle", "linger", "lingerStore", "code", "codeStore", "send"},
               req : Requests \cup {NoRequest}, buf : Bufs \cup {NoBuf}, time : Lives,
               idx : 0..MaxFragments, low : 0..1, fresh : BOOLEAN]
  BY DEF RingKnown, TypeInv, TypeOK, FrxOK
<1>1. ASSUME /\ frx.pc # "idle" => /\ frx'.buf = frx.buf /\ frx'.req = frx.req
                                   /\ frx'.fresh => frx.fresh
             /\ frx.pc = "idle" => frx'.pc = "idle"
             /\ (frx'.pc = "codeStore" /\ frx'.fresh) =>
                  frx'.idx = msg[frx.buf].frgmntIdx /\ frx'.low = msg[frx.buf].frgmnts % 2
      PROVE  FoundInv'
  BY <1>1, FrxKept DEF FoundInv, FoundIsRequested
<1>2. ASSUME NEW r \in Requests, HistFindFrag(r) PROVE FoundInv'
  <2>1. UNCHANGED <<history, msg, staleWrite>> /\ frx.pc = "idle"
    BY <1>2 DEF HistFindFrag, fifos, ghosts
  <2>2. CASE frx' = frx
    BY <2>1, <2>2 DEF FoundInv, FoundIsRequested
  <2>3. ASSUME NEW i \in FirstMatch(r), frx' = Found(history[i], r) PROVE FoundInv'
    <3>1. frx'.pc = "linger" /\ frx'.buf = history[i] /\ frx'.req = r
      BY <2>3 DEF Found, FrxIdle
    <3>2. Matching(history[i], r) /\ i \in 1..Len(history)
      BY DEF FirstMatch
    <3>3. history[i] \in Range(history)
      BY <3>2, Places DEF RingKnown
    <3> QED BY <2>1, <3>1, <3>2, <3>3 DEF FoundInv, FoundIsRequested, Matching
  <2> QED BY <1>2, <2>2, <2>3 DEF HistFindFrag
<1>3. CASE LingerLoad
  BY <1>0, <1>1, <1>3 DEF LingerLoad
<1>4. CASE LingerStore
  BY <1>0, <1>1, <1>4 DEF LingerStore
<1>5. CASE ReplyCodeLoad
  BY <1>0, <1>1, <1>5 DEF ReplyCodeLoad
<1>6. CASE ReplyCodeStore
  BY <1>0, <1>1, <1>6 DEF ReplyCodeStore
<1>7. CASE SendReply
  BY <1>7 DEF SendReply, FrxIdle, FoundInv, FoundIsRequested
<1>8. CASE HistPopFrag
  <2>1. frx' = [frx EXCEPT !.fresh = frx.fresh /\ frx.buf # Head(history)]
    BY <1>8 DEF HistPopFrag
  <2>2. /\ frx'.buf = frx.buf /\ frx'.req = frx.req /\ frx'.pc = frx.pc
        /\ frx'.idx = frx.idx /\ frx'.low = frx.low
        /\ frx'.fresh => frx.fresh
    BY <1>0, <2>1
  <2> QED BY <1>1, <2>2 DEF FoundInv
<1>9. CASE Tick
  <2>1. frx' = frx \/ frx' = [frx EXCEPT !.time = Older(frx.time)]
    BY <1>9 DEF Tick
  <2>2. /\ frx'.buf = frx.buf /\ frx'.req = frx.req /\ frx'.pc = frx.pc
        /\ frx'.idx = frx.idx /\ frx'.low = frx.low /\ frx'.fresh = frx.fresh
    BY <1>0, <2>1
  <2> QED BY <1>1, <2>2 DEF FoundInv
<1>10. CASE frx' = frx
  BY <1>1, <1>10 DEF FoundInv
<1>11. CASE \/ \E n \in Sizes : IotReceive(n)
            \/ IotReceiveNothing \/ IotFillFragment \/ IotPutFragment \/ FtxThread
            \/ FreeHistoryLock \/ FreeHistoryUnlock \/ ServiceControl \/ FusionTakes
            \/ UNCHANGED vars
  BY <1>10, <1>11 DEF IotReceive, IotReceiveNothing, IotFillFragment, IotPutFragment,
     FtxThread, FusionTransmit, HistPushFrag, FreeHistoryLock, FreeHistoryUnlock,
     ServiceControl, FusionTakes, vars
<1> QED BY <1>2, <1>3, <1>4, <1>5, <1>6, <1>7, <1>8, <1>9, <1>11
        DEF Next, IotThread, RUdpThread, FrxThread, Serving

\* As long as the buffer that hist_find_frag returned has not been recycled, it is the
\* fragment that was asked for, and in the history.
THEOREM WhatIsFoundIsRequested == Spec => []FoundIsRequested
<1>1. FoundInv => FoundIsRequested
  BY DEF FoundInv
<1> QED BY <1>1, InitRingKnown, StepRingKnown, InitFound, StepFound, PTL DEF Spec

-------------------------------------------------------------------------------
(* The history by age *)

\* Why the list is in the order of the timeouts.  What nobody has lifted is no later than
\* what is being linked in; due is what time is, unless a late store came in between; and
\* a linger that is under way starts from the timeout that its fragment still has.
AgeInv ==
  /\ HistoryByAge
  /\ \A b \in Bufs : b \notin Range(history) => lifted[b] = "nobody"
  /\ \A b \in Range(history) : lifted[b] # "late" => due[b] = time[b]
  /\ \A b \in Range(history) : lifted[b] = "nobody" => time[b] <= Timeout
  /\ ftx.pc = "push" =>
       \A b \in Range(history) : lifted[b] = "nobody" => time[b] <= ftx.time
  /\ (frx.pc = "lingerStore" /\ frx.fresh /\ lifted[frx.buf] # "late") =>
       frx.time = time[frx.buf]

LEMMA InitAge == Init => AgeInv
BY DEF Init, AgeInv, HistoryByAge, FtxIdle, FrxIdle, Range

LEMMA OlderKeepsOrder ==
  ASSUME NEW a \in Lives, NEW b \in Lives, a <= b
  PROVE  Older(a) <= Older(b)
BY TxAssumption DEF Older, Lives

\* The types that this part needs.
LEMMA AgeTypes ==
  ASSUME TypeInv
  PROVE  /\ history \in Seq(Bufs) /\ Range(history) \subseteq Bufs
         /\ Len(history) \in Nat
         /\ \A i \in 1..Len(history) : history[i] \in Range(history) /\ history[i] \in Bufs
         /\ time \in [Bufs -> Lives] /\ Lives \subseteq Int /\ due \in [Bufs -> Int]
         /\ lifted \in [Bufs -> {"nobody", "request", "late"}] /\ Timeout \in Int
         /\ ftx \in [pc : {"get", "push"}, buf : Bufs \cup {NoBuf}, time : Lives]
         /\ ftx.pc = "push" => ftx.buf \in Bufs
         /\ frx \in [pc : {"idle", "linger", "lingerStore", "code", "codeStore", "send"},
                     req : Requests \cup {NoRequest}, buf : Bufs \cup {NoBuf}, time : Lives,
                     idx : 0..MaxFragments, low : 0..1, fresh : BOOLEAN]
         /\ frx.pc # "idle" => frx.buf \in Bufs
<1>1. history \in Seq(Bufs) /\ Len(history) \in Nat /\ DOMAIN history = 1..Len(history)
  BY LenProperties DEF TypeInv, TypeOK, FifosOK
<1>2. \A i \in 1..Len(history) : history[i] \in Bufs /\ history[i] \in Range(history)
  BY <1>1, ElementOfSeq DEF Range
<1>3. Range(history) \subseteq Bufs
  BY <1>1, <1>2 DEF Range
<1>4. Lives \subseteq Int /\ Timeout \in Int
  BY TxAssumption DEF Lives
<1> QED BY <1>1, <1>2, <1>3, <1>4 DEF TypeInv, TypeOK, TimesOK, DueOK, FtxOK, FrxOK

LEMMA PushKeepsAge == RingKnown /\ FoundInv /\ AgeInv /\ HistPushFrag => AgeInv'
<1> SUFFICES ASSUME RingKnown, FoundInv, AgeInv, HistPushFrag PROVE AgeInv'
  OBVIOUS
<1> USE DEF RingKnown
<1>1. /\ ftx.pc = "push" /\ history' = Append(history, ftx.buf)
      /\ time' = [time EXCEPT ![ftx.buf] = ftx.time]
      /\ due' = [due EXCEPT ![ftx.buf] = ftx.time]
      /\ ftx'.pc = "get" /\ frx' = frx /\ lifted' = lifted
  BY DEF HistPushFrag, FtxIdle
<1>2. ftx.buf \in Bufs /\ ftx.buf \notin Range(history) /\ ftx.time \in Int /\ ftx.time <= Timeout
  BY <1>1, AgeTypes, Disjoint DEF TypeInv, LingerBound
<1>3. /\ due'[ftx.buf] = ftx.time /\ time'[ftx.buf] = ftx.time
      /\ \A b \in Range(history) : due'[b] = due[b] /\ time'[b] = time[b]
  BY <1>1, <1>2, AgeTypes
<1>4. Range(history') = Range(history) \cup {ftx.buf}
  <2>1. [Next]_vars /\ HistPushFrag
    BY DEF Next, FtxThread
  <2>2. ~HistPopFrag /\ history' # history
    <3>1. Len(history') = Len(history) + 1 /\ Len(history) \in Nat
      BY <1>1, <1>2, AgeTypes, AppendProperties
    <3>2. sync_hist = "free"
      BY DEF HistPushFrag
    <3> QED BY <3>1, <3>2 DEF HistPopFrag
  <2> QED BY <2>1, <2>2, HistorySteps
<1>5. HistoryByAge'
  <2>1. /\ Len(history') = Len(history) + 1 /\ Len(history) \in Nat
        /\ \A i \in 1..Len(history) : history'[i] = history[i]
        /\ history'[Len(history) + 1] = ftx.buf
    BY <1>1, <1>2, AgeTypes, AppendProperties
  <2>2. ASSUME NEW i \in 1..Len(history'), NEW j \in 1..Len(history'), i < j,
               lifted[history'[i]] = "nobody", lifted[history'[j]] # "late"
        PROVE  time'[history'[i]] <= time'[history'[j]]
    <3>0. i \in 1..Len(history)
      <4>1. i \in Nat /\ j \in Nat /\ 1 <= i /\ i < j /\ j <= Len(history) + 1
        BY <2>1, <2>2
      <4> QED BY <2>1, <4>1
    <3>1. i \in 1..Len(history) /\ history[i] \in Range(history) /\ history'[i] = history[i]
      BY <2>1, <3>0, AgeTypes
    <3>2. CASE j = Len(history) + 1
      <4>1. time[history[i]] <= ftx.time
        BY <1>1, <2>2, <3>1 DEF AgeInv
      <4> QED BY <1>3, <2>1, <3>1, <3>2, <4>1
    <3>3. CASE j # Len(history) + 1
      <4>1. j \in 1..Len(history)
        BY <2>1, <3>3
      <4>2. history[j] \in Range(history) /\ history'[j] = history[j]
        BY <2>1, <4>1, AgeTypes
      <4>3. time[history[i]] <= time[history[j]]
        BY <2>2, <3>1, <4>1, <4>2 DEF AgeInv, HistoryByAge
      <4> QED BY <1>3, <3>1, <4>2, <4>3
    <3> QED BY <3>2, <3>3
  <2> QED BY <1>1, <2>2 DEF HistoryByAge
<1>6. (frx'.pc = "lingerStore" /\ frx'.fresh /\ lifted'[frx'.buf] # "late")
        => frx'.time = time'[frx'.buf]
  BY <1>1, <1>3 DEF AgeInv, FoundInv, FoundIsRequested
<1>7. /\ \A b \in Bufs : b \notin Range(history') => lifted'[b] = "nobody"
      /\ \A b \in Range(history') : lifted'[b] # "late" => due'[b] = time'[b]
      /\ \A b \in Range(history') : lifted'[b] = "nobody" => time'[b] <= Timeout
  BY <1>1, <1>2, <1>3, <1>4 DEF AgeInv
<1> QED BY <1>1, <1>5, <1>6, <1>7 DEF AgeInv

LEMMA PopKeepsAge == RingKnown /\ AgeInv /\ HistPopFrag => AgeInv'
<1> SUFFICES ASSUME RingKnown, AgeInv, HistPopFrag PROVE AgeInv'
  OBVIOUS
<1> USE DEF RingKnown
<1> DEFINE h == Head(history)
<1>1. /\ history # <<>> /\ history' = Tail(history) /\ UNCHANGED <<time, ftx>>
      /\ due' = [due EXCEPT ![h] = 0] /\ lifted' = [lifted EXCEPT ![h] = "nobody"]
      /\ frx' = [frx EXCEPT !.fresh = frx.fresh /\ frx.buf # h]
  BY DEF HistPopFrag, HeadTimedOut
<1>2. /\ Len(history) \in Nat \ {0} /\ Len(history') = Len(history) - 1
      /\ \A i \in 1..Len(history') : history'[i] = history[i + 1]
      /\ h = history[1] /\ h \in Bufs
  BY <1>1, AgeTypes, HeadTailProperties, EmptySeq
<1> HIDE DEF h
<1>3. Range(history') \subseteq Range(history)
  <2>1. DOMAIN history' = 1..Len(history')
    BY <1>1, AgeTypes, HeadTailProperties, LenProperties
  <2>2. ASSUME NEW i \in 1..Len(history') PROVE history'[i] \in Range(history)
    <3>1. i + 1 \in 1..Len(history)
      BY <1>2
    <3> QED BY <1>2, <3>1, AgeTypes
  <2> QED BY <2>1, <2>2 DEF Range
<1>4. h \notin Range(history')
  <2>1. \A i, j \in 1..Len(Ring) : Ring[i] = Ring[j] => i = j
    BY Places DEF RingInv, Ownership, IsInjective
  <2>2. DOMAIN history' = 1..Len(history')
    BY <1>1, AgeTypes, HeadTailProperties, LenProperties
  <2>3. ASSUME NEW i \in 1..Len(history') PROVE history'[i] # h
    <3>1. /\ i + 1 \in 1..Len(history) /\ 1 \in 1..Len(history) /\ i + 1 # 1
          /\ Len(history) <= Len(Ring) /\ Len(Ring) \in Nat
      BY <1>2, Places, RingTyped, LenProperties
    <3>2. i + 1 \in 1..Len(Ring) /\ 1 \in 1..Len(Ring)
      BY <1>2, <3>1
    <3>3. Ring[i + 1] = history[i + 1] /\ Ring[1] = history[1]
      BY <3>1, Places
    <3> QED BY <1>2, <2>1, <3>1, <3>2, <3>3
  <2> QED BY <2>2, <2>3 DEF Range
<1>5. \A b \in Bufs : b # h => due'[b] = due[b] /\ lifted'[b] = lifted[b]
  BY <1>1, AgeTypes
<1>6. HistoryByAge'
  <2>1. ASSUME NEW i \in 1..Len(history'), NEW j \in 1..Len(history'), i < j,
               lifted'[history'[i]] = "nobody", lifted'[history'[j]] # "late"
        PROVE  time'[history'[i]] <= time'[history'[j]]
    <3>1. i + 1 \in 1..Len(history) /\ j + 1 \in 1..Len(history) /\ i + 1 < j + 1
      BY <1>2, <2>1
    <3>2. history[i + 1] \in Range(history') /\ history[j + 1] \in Range(history')
      <4>1. DOMAIN history' = 1..Len(history')
        BY <1>1, AgeTypes, HeadTailProperties, LenProperties
      <4> QED BY <1>2, <4>1 DEF Range
    <3>3. lifted[history[i + 1]] = "nobody" /\ lifted[history[j + 1]] # "late"
      BY <1>2, <1>4, <1>5, <2>1, <3>1, <3>2, AgeTypes
    <3> QED BY <1>1, <1>2, <3>1, <3>3 DEF AgeInv, HistoryByAge
  <2> QED BY <2>1 DEF HistoryByAge
<1>7. frx'.pc = frx.pc /\ frx'.buf = frx.buf /\ frx'.time = frx.time
      /\ (frx'.fresh => frx.fresh /\ frx.buf # h)
  BY <1>1, AgeTypes
<1>8. \A b \in Bufs : b \notin Range(history') => lifted'[b] = "nobody"
  <2> SUFFICES ASSUME NEW b \in Bufs, b \notin Range(history') PROVE lifted'[b] = "nobody"
    OBVIOUS
  <2>1. CASE b = h
    BY <1>1, <2>1, AgeTypes
  <2>2. CASE b # h
    <3>1. Range(history) = Range(history') \cup {h}
      <4>1. HistPopFrag /\ [Next]_vars /\ sync_hist = "r_udp"
        BY DEF Next, RUdpThread, HistPopFrag
      <4>2. ~HistPushFrag /\ Len(history') # Len(history)
        BY <1>2, <4>1 DEF HistPushFrag
      <4> QED BY <4>1, <4>2, HistorySteps DEF h
    <3> QED BY <1>5, <2>2, <3>1 DEF AgeInv
  <2> QED BY <2>1, <2>2
<1>9. /\ \A b \in Range(history') : lifted'[b] # "late" => due'[b] = time'[b]
      /\ \A b \in Range(history') : lifted'[b] = "nobody" => time'[b] <= Timeout
      /\ ftx.pc = "push" =>
           \A b \in Range(history') : lifted'[b] = "nobody" => time'[b] <= ftx.time
  BY <1>1, <1>3, <1>4, <1>5, AgeTypes DEF AgeInv
<1>10. (frx'.pc = "lingerStore" /\ frx'.fresh /\ lifted'[frx'.buf] # "late")
         => frx'.time = time'[frx'.buf]
  BY <1>1, <1>5, <1>7, AgeTypes DEF AgeInv
<1> QED BY <1>1, <1>6, <1>8, <1>9, <1>10 DEF AgeInv

LEMMA TickKeepsAge == TypeInv /\ FoundInv /\ AgeInv /\ Tick => AgeInv'
<1> SUFFICES ASSUME TypeInv, FoundInv, AgeInv, Tick PROVE AgeInv'
  OBVIOUS
<1>1. /\ UNCHANGED <<history, lifted>>
      /\ \A b \in Bufs : time'[b] = Older(time[b])
      /\ \A b \in Bufs : due'[b] = IF Dated(b) THEN Older(due[b]) ELSE due[b]
  BY DEF Tick, fifos
<1>2. \A b \in Bufs : time[b] \in Lives
  BY AgeTypes
<1>3. HistoryByAge'
  <2>1. ASSUME NEW i \in 1..Len(history), NEW j \in 1..Len(history), i < j,
               lifted[history[i]] = "nobody", lifted[history[j]] # "late"
        PROVE  time'[history[i]] <= time'[history[j]]
    <3>1. history[i] \in Bufs /\ history[j] \in Bufs
      BY AgeTypes
    <3>2. time[history[i]] <= time[history[j]]
      BY <2>1 DEF AgeInv, HistoryByAge
    <3> QED BY <1>1, <1>2, <3>1, <3>2, OlderKeepsOrder
  <2> QED BY <1>1, <2>1 DEF HistoryByAge
<1>4. ftx'.pc = "push" =>
        \A b \in Range(history') : lifted'[b] = "nobody" => time'[b] <= ftx'.time
  <2>1. ftx'.pc = ftx.pc /\ (ftx.pc = "push" => ftx'.time = Older(ftx.time))
    BY AgeTypes DEF Tick
  <2>2. ftx.time \in Lives
    BY AgeTypes
  <2> QED BY <1>1, <1>2, <2>1, <2>2, AgeTypes, OlderKeepsOrder DEF AgeInv
<1>5. \A b \in Range(history') : lifted'[b] # "late" => due'[b] = time'[b]
  BY <1>1, AgeTypes DEF AgeInv, Dated
<1>6. \A b \in Range(history') : lifted'[b] = "nobody" => time'[b] <= Timeout
  <2>1. \A t \in Lives : Older(t) <= t /\ Older(t) \in Int /\ t \in Int
    BY TxAssumption DEF Older, Lives
  <2> SUFFICES ASSUME NEW b \in Range(history), lifted[b] = "nobody" PROVE time'[b] <= Timeout
    BY <1>1
  <2>2. b \in Bufs /\ time[b] <= Timeout
    BY AgeTypes DEF AgeInv
  <2> QED BY <1>1, <1>2, <2>1, <2>2, AgeTypes
<1>7. (frx'.pc = "lingerStore" /\ frx'.fresh /\ lifted'[frx'.buf] # "late")
        => frx'.time = time'[frx'.buf]
  <2>1. /\ frx'.pc = frx.pc /\ frx'.fresh = frx.fresh /\ frx'.buf = frx.buf
        /\ frx.pc = "lingerStore" => frx'.time = Older(frx.time)
    BY AgeTypes DEF Tick
  <2>2. frx.pc = "lingerStore" => frx.buf \in Bufs
    BY AgeTypes
  <2> QED BY <1>1, <2>1, <2>2 DEF AgeInv
<1> QED BY <1>1, <1>3, <1>4, <1>5, <1>6, <1>7 DEF AgeInv

\* The second that a request adds, and what a late store does.
LEMMA LingerKeepsAge == TypeInv /\ FoundInv /\ AgeInv /\ LingerStore => AgeInv'
<1> SUFFICES ASSUME TypeInv, FoundInv, AgeInv, LingerStore PROVE AgeInv'
  OBVIOUS
<1> DEFINE f == frx.buf
<1>1. /\ frx.pc = "lingerStore" /\ frx'.pc = "code" /\ UNCHANGED <<history, ftx>>
      /\ f \in Bufs /\ frx.time \in Lives /\ frx.fresh \in BOOLEAN
  BY AgeTypes DEF LingerStore, fifos
<1>2. PICK t \in Lifted(frx.time) :
        /\ time' = [time EXCEPT ![f] = t]
        /\ Lift(f, IF due[f] = -MaxLinger THEN t - frx.time ELSE 1)
  BY DEF LingerStore
<1>3. t \in Int /\ frx.time \in Int /\ frx.time <= t
      /\ (frx.time # -MaxLinger => t = frx.time + 1)
  BY <1>1, AgeTypes DEF Lifted
<1>4. \A b \in Bufs : b # f => /\ time'[b] = time[b] /\ due'[b] = due[b]
                              /\ lifted'[b] = lifted[b]
  BY <1>1, <1>2, AgeTypes DEF Lift
<1>5. time'[f] = t
  BY <1>1, <1>2, AgeTypes
<1>6. ASSUME f \in Range(history)
      PROVE  /\ lifted'[f] # "nobody"
             /\ lifted'[f] # "late" => /\ lifted[f] # "late" /\ frx.time = time[f]
                                       /\ due'[f] = t
  <2>1. CASE frx.fresh
    <3>1. lifted'[f] = IF lifted[f] = "late" THEN "late" ELSE "request"
      BY <1>1, <1>2, <2>1, AgeTypes DEF Lift
    <3>2. ASSUME lifted[f] # "late" PROVE frx.time = time[f] /\ due'[f] = t
      <4>1. frx.time = time[f] /\ due[f] = time[f]
        BY <1>1, <1>6, <2>1, <3>2 DEF AgeInv
      <4>2. due'[f] = due[f] + (IF due[f] = -MaxLinger THEN t - frx.time ELSE 1)
        BY <1>1, <1>2, <2>1, <3>2, AgeTypes DEF Lift
      <4> QED BY <1>3, <4>1, <4>2
    <3> QED BY <3>1, <3>2
  <2>2. CASE ~frx.fresh
    <3>1. lifted'[f] = "late"
      BY <1>1, <1>2, <1>6, <2>2, AgeTypes DEF Lift
    <3> QED BY <3>1
  <2> QED BY <1>1, <2>1, <2>2
<1>7. f \notin Range(history) => lifted'[f] = lifted[f]
  <2>1. frx.fresh => f \in Range(history)
    BY <1>1 DEF FoundInv, FoundIsRequested
  <2> QED BY <1>1, <1>2, <2>1, AgeTypes DEF Lift
<1> HIDE DEF f
<1>8. HistoryByAge'
  <2>1. ASSUME NEW i \in 1..Len(history), NEW j \in 1..Len(history), i < j,
               lifted'[history[i]] = "nobody", lifted'[history[j]] # "late"
        PROVE  time'[history[i]] <= time'[history[j]]
    <3> DEFINE a == history[i]
               b == history[j]
    <3>1. a \in Range(history) /\ b \in Range(history) /\ a \in Bufs /\ b \in Bufs
      BY AgeTypes
    <3>2. a # f /\ time'[a] = time[a] /\ lifted[a] = "nobody"
      BY <1>4, <1>6, <2>1, <3>1
    <3>3. lifted[b] # "late" /\ time'[b] >= time[b]
      <4>1. CASE b = f
        BY <1>3, <1>5, <1>6, <2>1, <3>1, <4>1
      <4>2. CASE b # f
        <5>1. time'[b] = time[b] /\ lifted'[b] = lifted[b] /\ time[b] \in Int
          BY <1>4, <3>1, <4>2, AgeTypes
        <5> QED BY <2>1, <5>1
      <4> QED BY <4>1, <4>2
    <3>4. time[a] <= time[b]
      BY <2>1, <3>2, <3>3 DEF AgeInv, HistoryByAge
    <3>5. time[a] \in Int /\ time[b] \in Int /\ time'[b] \in Int
      BY <1>3, <1>4, <1>5, <3>1, AgeTypes
    <3> QED BY <3>2, <3>3, <3>4, <3>5
  <2> QED BY <1>1, <2>1 DEF HistoryByAge
<1>9. \A b \in Bufs : b \notin Range(history') => lifted'[b] = "nobody"
  BY <1>1, <1>4, <1>7 DEF AgeInv
<1>10. \A b \in Range(history') : lifted'[b] # "late" => due'[b] = time'[b]
  BY <1>1, <1>4, <1>5, <1>6, AgeTypes DEF AgeInv
<1>11. /\ \A b \in Range(history') : lifted'[b] = "nobody" => time'[b] <= Timeout
       /\ ftx'.pc = "push" =>
            \A b \in Range(history') : lifted'[b] = "nobody" => time'[b] <= ftx'.time
  BY <1>1, <1>4, <1>6, AgeTypes DEF AgeInv
<1> QED BY <1>1, <1>8, <1>9, <1>10, <1>11 DEF AgeInv

LEMMA ServingKeepsAge == TypeInv /\ FoundInv /\ AgeInv /\ Serving => AgeInv'
<1> SUFFICES ASSUME TypeInv, FoundInv, AgeInv, Serving PROVE AgeInv'
  OBVIOUS
<1>1. ASSUME UNCHANGED <<history, time, due, lifted, ftx>>,
             frx'.pc = "lingerStore" => frx.pc = "linger" /\ frx'.time = time[frx'.buf]
      PROVE  AgeInv'
  BY <1>1 DEF AgeInv, HistoryByAge
<1>2. CASE LingerLoad
  <2>1. frx'.buf = frx.buf /\ frx'.time = time[frx.buf] /\ frx.pc = "linger"
    BY <1>2, AgeTypes DEF LingerLoad
  <2> QED BY <1>1, <1>2, <2>1 DEF LingerLoad, fifos, ghosts
<1>3. CASE ReplyCodeLoad \/ ReplyCodeStore \/ SendReply
  <2>1. frx'.pc # "lingerStore"
    <3>1. CASE ReplyCodeLoad
      BY <3>1, AgeTypes DEF ReplyCodeLoad
    <3>2. CASE ReplyCodeStore
      BY <3>2, AgeTypes DEF ReplyCodeStore
    <3>3. CASE SendReply
      BY <3>3 DEF SendReply, FrxIdle
    <3> QED BY <1>3, <3>1, <3>2, <3>3
  <2> QED BY <1>1, <1>3, <2>1 DEF ReplyCodeLoad, ReplyCodeStore, SendReply, fifos, ghosts
<1> QED BY <1>2, <1>3, LingerKeepsAge DEF Serving

LEMMA StepAge == RingKnown /\ FoundInv /\ AgeInv /\ [Next]_vars => AgeInv'
<1> SUFFICES ASSUME RingKnown, FoundInv, AgeInv, [Next]_vars PROVE AgeInv'
  OBVIOUS
<1> USE DEF RingKnown
<1>1. CASE UNCHANGED <<history, due, lifted, time, ftx, frx>>
  BY <1>1 DEF AgeInv, HistoryByAge
<1>2. ASSUME NEW r \in Requests, HistFindFrag(r) PROVE AgeInv'
  <2>1. UNCHANGED <<history, due, lifted, time, ftx>>
    BY <1>2 DEF HistFindFrag, fifos, ghosts
  <2>2. frx'.pc # "lingerStore"
    BY <1>2 DEF HistFindFrag, Found, FrxIdle
  <2> QED BY <2>1, <2>2 DEF AgeInv, HistoryByAge
<1>3. CASE FusionTransmit
  <2>1. UNCHANGED <<history, due, lifted, time, frx>> /\ ftx'.time = Timeout
    BY <1>3 DEF FusionTransmit, fifos, ghosts
  <2> QED BY <2>1 DEF AgeInv, HistoryByAge
<1>4. CASE \/ \E n \in Sizes : IotReceive(n)
           \/ IotReceiveNothing \/ IotFillFragment \/ IotPutFragment
           \/ FreeHistoryLock \/ FreeHistoryUnlock \/ ServiceControl \/ FusionTakes
           \/ UNCHANGED vars
  BY <1>1, <1>4 DEF IotReceive, IotReceiveNothing, IotFillFragment, IotPutFragment,
     FreeHistoryLock, FreeHistoryUnlock, ServiceControl, FusionTakes, vars, fifos, ghosts
<1> QED BY <1>2, <1>3, <1>4, PushKeepsAge, PopKeepsAge, TickKeepsAge, ServingKeepsAge
        DEF Next, IotThread, FtxThread, RUdpThread, FrxThread

\* A fragment in the history holds back one behind it that has timed out before it only if
\* a request has made it linger, or a late store of a request hit one of the two
\* (hist_push_frag, hist_find_frag, hist_peek_timed_head).
THEOREM HistoryIsByAge == Spec => []HistoryByAge
<1>1. AgeInv => HistoryByAge
  BY DEF AgeInv
<1> QED BY <1>1, InitRingKnown, StepRingKnown, InitFound, StepFound, InitAge, StepAge,
           PTL DEF Spec

\* A fragment leaves the history only after R_UDP_TIMEOUT seconds and one more for every
\* request answered with it, unless a late store moved its timeout (free_history).
THEOREM FragmentsAreKept == Spec => KeptForTimeout
<1>1. RingKnown /\ AgeInv /\ [Next]_vars =>
        [\A b \in Bufs : (b \in Range(history) /\ b \notin Range(history'))
                           => (due[b] <= 0 \/ lifted[b] = "late")]_vars
  <2> SUFFICES ASSUME RingKnown, AgeInv, [Next]_vars, NEW b \in Bufs,
                      b \in Range(history), b \notin Range(history'), lifted[b] # "late"
               PROVE  due[b] <= 0
    OBVIOUS
  <2>1. HistPopFrag /\ b = Head(history)
    BY HistorySteps DEF RingKnown
  <2>2. time[b] <= 0 /\ due[b] = time[b]
    BY <2>1 DEF HistPopFrag, HeadTimedOut, AgeInv
  <2> QED BY <2>2
<1> QED BY <1>1, InitRingKnown, StepRingKnown, InitFound, StepFound, InitAge, StepAge,
           PTL DEF Spec, KeptForTimeout
===============================================================================
