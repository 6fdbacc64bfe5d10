---------------------------- MODULE TxOrderProofs ----------------------------
(***************************************************************************)
(* Proofs about the order and the contents of the fragments of TxPath, for *)
(* every number of buffers and every size of datagram: none is skipped,    *)
(* repeated or overtaken, the headers tell the truth, and what is in them  *)
(* identifies a fragment.                                                  *)
(***************************************************************************)
EXTENDS TxHistoryProofs, WellFoundedInduction

(* Arithmetic of the fragments *)

LEMMA DivModUnique ==
  ASSUME NEW m \in Nat \ {0}, NEW q \in Int, NEW r \in 0..(m - 1), NEW n \in Int,
         n = m * q + r
  PROVE  n \div m = q /\ n % m = r
OBVIOUS

LEMMA DivMod ==
  ASSUME NEW m \in Nat \ {0}, NEW n \in Nat
  PROVE  \E q \in Nat : \E r \in 0..(m - 1) : n = m * q + r
<1>1. PICK r \in 0..(m - 1) : r = n % m
  OBVIOUS
<1>2. PICK q \in Int : q = n \div m
  OBVIOUS
<1>3. n = m * q + r
  BY <1>1, <1>2
<1>4. q >= 0
  <2>1. SUFFICES ASSUME q <= -1 PROVE FALSE
    OBVIOUS
  <2>2. m * q <= m * (-1)
    BY <2>1
  <2> QED BY <1>3, <2>2
<1> QED BY <1>3, <1>4

\* A datagram that is not empty is a fragment and the rest.
LEMMA FragStep ==
  ASSUME NEW n \in Nat \ {0}
  PROVE  LET len == IF MaxMsgSize < n THEN MaxMsgSize ELSE n
         IN  Fragments(n) = 1 + Fragments(n - len)
<1> USE TxAssumption
<1> DEFINE m == MaxMsgSize
<1>0. m \in Nat \ {0}
  OBVIOUS
<1>1. CASE n < m
  <2>1. n \div m = 0 /\ n % m = n
    <3>1. n = m * 0 + n /\ n \in 0..(m - 1)
      BY <1>0, <1>1
    <3> QED BY <1>0, <3>1, DivModUnique
  <2>2. 0 \div m = 0 /\ 0 % m = 0
    BY <1>0
  <2> QED BY <1>1, <2>1, <2>2 DEF Fragments
<1>2. CASE n >= m
  <2>1. PICK q \in Nat : \E r \in 0..(m - 1) : n = m * q + r
    BY <1>0, DivMod
  <2>2. PICK r \in 0..(m - 1) : n = m * q + r
    BY <2>1
  <2>3. q > 0
    BY <1>0, <1>2, <2>2
  <2>4. n - m = m * (q - 1) + r
    BY <1>0, <2>2
  <2>5. n \div m = q /\ n % m = r
    BY <1>0, <2>2, DivModUnique
  <2>6. (n - m) \div m = q - 1 /\ (n - m) % m = r
    <3>1. PICK n2 \in Int, q2 \in Int : n2 = n - m /\ q2 = q - 1
      BY <1>0
    <3>2. n2 = m * q2 + r
      BY <2>4, <3>1
    <3>3. n2 \div m = q2 /\ n2 % m = r
      BY <1>0, <3>2, DivModUnique
    <3> QED BY <3>1, <3>3
  <2>7. (IF MaxMsgSize < n THEN MaxMsgSize ELSE n) = m
    BY <1>0, <1>2
  <2> QED BY <1>0, <2>5, <2>6, <2>7 DEF Fragments
<1> QED BY <1>1, <1>2

LEMMA FragBound ==
  ASSUME NEW n \in 1..((FragMod - 1) * MaxMsgSize)
  PROVE  Fragments(n) \in 1..(FragMod - 1)
<1> USE TxAssumption DEF FragMod
<1> DEFINE m == MaxMsgSize
<1>0. m \in Nat \ {0} /\ n \in Nat
  OBVIOUS
<1>1. PICK q \in Nat : \E r \in 0..(m - 1) : n = m * q + r
  BY <1>0, DivMod
<1>2. PICK r \in 0..(m - 1) : n = m * q + r
  BY <1>1
<1>3. n \div m = q /\ n % m = r
  BY <1>0, <1>2, DivModUnique
<1>4. q <= 31
  <2>1. SUFFICES ASSUME q >= 32 PROVE FALSE
    BY <1>0
  <2>2. m * q >= m * 32
    BY <1>0, <2>1
  <2> QED BY <1>0, <1>2, <2>2
<1>5. q = 31 => r = 0
  BY <1>0, <1>2
<1>6. q = 0 => r > 0
  BY <1>0, <1>2
<1> HIDE DEF m
<1>7. Fragments(n) = q + (IF r > 0 THEN 1 ELSE 0)
  BY <1>3 DEF Fragments, m
<1> QED BY <1>4, <1>5, <1>6, <1>7

\* What is cut to m and then to a divisor of m.
LEMMA ModMod ==
  ASSUME NEW a \in Nat, NEW m \in Nat \ {0}, NEW n \in Nat \ {0}, m % n = 0
  PROVE  (a % m) % n = a % n
<1>1. PICK q \in Nat, r \in 0..(m - 1) : a = m * q + r
  BY DivMod
<1>2. a % m = r
  BY <1>1, DivModUnique
<1>3. PICK d \in Nat, x \in 0..(n - 1) : m = n * d + x
  BY DivMod
<1>4. m = n * d
  <2>1. m % n = x
    BY <1>3, DivModUnique
  <2> QED BY <1>3, <2>1
<1>5. PICK e \in Nat, y \in 0..(n - 1) : r = n * e + y
  <2>1. r \in Nat
    OBVIOUS
  <2> QED BY <2>1, DivMod
<1>6. r % n = y
  BY <1>5, DivModUnique
<1>7. PICK z \in Nat : z = d * q + e
  OBVIOUS
<1>8. a = n * z + y
  <2>1. m * q = n * (d * q)
    BY <1>4
  <2>2. n * z = n * (d * q) + n * e
    BY <1>7
  <2> QED BY <1>1, <1>5, <2>1, <2>2
<1>9. a % n = y
  BY <1>8, DivModUnique
<1> QED BY <1>2, <1>6, <1>9

\* The sequence number in the header: cut to eight bits, and then to four.
LEMMA HeaderSeq ==
  ASSUME NEW a \in Nat
  PROVE  (a % 256) % SeqSpace = a % SeqSpace
<1>1. PICK m \in Nat \ {0} : m = 256
  OBVIOUS
<1>2. m % SeqSpace = 0
  BY <1>1, TxAssumption
<1>3. PICK n \in Nat \ {0} : n = SeqSpace
  BY TxAssumption
<1>4. (a % m) % n = a % n
  BY <1>2, <1>3, ModMod
<1> QED BY <1>1, <1>3, <1>4

-------------------------------------------------------------------------------
(* The filled buffers *)

LEMMA FilledTypes ==
  ASSUME TypeInv
  PROVE  /\ Len(Filled) \in Nat /\ \A i \in 1..Len(Filled) : Filled[i] \in Bufs
         /\ Len(Ring) = Len(Filled) + Len(IotThrInFifo)
         /\ IotThrInFifo \in Seq(Bufs) /\ Len(IotThrInFifo) \in Nat
         /\ msg \in [Bufs -> Headers]
<1>1. Filled \in Seq(Bufs) /\ IotThrInFifo \in Seq(Bufs)
  BY RingTyped DEF TypeInv, TypeOK, FifosOK
<1>2. Len(Ring) = Len(Filled) + Len(IotThrInFifo)
  BY <1>1, ConcatPlaces DEF Ring
<1>3. \A i \in 1..Len(Filled) : Filled[i] \in Bufs
  BY <1>1, ElementOfSeq
<1> QED BY <1>1, <1>2, <1>3, LenProperties DEF TypeInv, TypeOK

\* Where the ring has the filled buffers, before a step and after it.
FilledFirst ==
  /\ Len(Filled) \in Nat /\ Len(Ring) = Len(Filled) + Len(IotThrInFifo)
  /\ IotThrInFifo \in Seq(Bufs) /\ Len(IotThrInFifo) \in Nat
  /\ \A i \in 1..Len(Filled) : Ring[i] = Filled[i]

LEMMA FilledIsFirst == TypeInv => FilledFirst
BY FilledTypes, Places DEF FilledFirst

LEMMA FilledIsFirstNext == TypeInv' => FilledFirst'
BY FilledIsFirst, PTL

\* A buffer is filled, the oldest leaves, or they stay in their order.
LEMMA FilledSteps ==
  ASSUME RingKnown, [Next]_vars
  PROVE  \/ /\ ~IotFillFragment /\ ~HistPopFrag /\ Len(Filled') = Len(Filled)
            /\ \A i \in 1..Len(Filled) : Filled'[i] = Filled[i]
         \/ /\ IotFillFragment /\ Len(Filled') = Len(Filled) + 1
            /\ \A i \in 1..Len(Filled) : Filled'[i] = Filled[i]
            /\ Filled'[Len(Filled) + 1] = Head(IotThrInFifo)
            /\ \A i \in 1..Len(Filled) : Filled[i] # Head(IotThrInFifo)
            /\ Head(IotThrInFifo) \in Bufs
         \/ /\ HistPopFrag /\ Len(Filled') = Len(Filled) - 1
            /\ \A i \in 1..Len(Filled') : Filled'[i] = Filled[i + 1]
<1>0. RingKnown' /\ Len(Ring) = NBufs /\ Len(Ring') = NBufs
  BY StepRingKnown DEF RingKnown, RingInv
<1>1. /\ Len(Filled) \in Nat /\ Len(Ring) = Len(Filled) + Len(IotThrInFifo)
      /\ Len(Filled') \in Nat /\ Len(Ring') = Len(Filled') + Len(IotThrInFifo')
      /\ IotThrInFifo \in Seq(Bufs) /\ Len(IotThrInFifo) \in Nat
      /\ IotThrInFifo' \in Seq(Bufs) /\ Len(IotThrInFifo') \in Nat
      /\ \A i \in 1..Len(Filled) : Ring[i] = Filled[i]
      /\ \A i \in 1..Len(Filled') : Ring'[i] = Filled'[i]
  BY <1>0, FilledIsFirst, FilledIsFirstNext DEF RingKnown, FilledFirst
<1>2. /\ \A i \in 1..Len(Filled) : Ring[i] = Filled[i]
      /\ \A i \in 1..Len(Filled') : Ring'[i] = Filled'[i]
      /\ IotThrInFifo # <<>> => /\ Len(Filled) + 1 \in 1..Len(Ring)
                                /\ Ring[Len(Filled) + 1] = Head(IotThrInFifo)
  BY <1>1, Places DEF RingKnown
<1>3. CASE IotFillFragment
  <2>1. Ring' = Ring
    BY <1>0, <1>3, FillStep DEF RingKnown, Circulation!Fill
  <2>2. IotThrInFifo # <<>> /\ IotThrInFifo' = Tail(IotThrInFifo)
    BY <1>3 DEF IotFillFragment
  <2>3. Len(IotThrInFifo') = Len(IotThrInFifo) - 1 /\ Head(IotThrInFifo) \in Bufs
    BY <1>1, <2>2, HeadTailProperties
  <2>4. Len(Filled') = Len(Filled) + 1
    BY <1>1, <2>1, <2>3
  <2>5. ASSUME NEW i \in 1..Len(Filled) PROVE Filled'[i] = Filled[i]
    BY <1>1, <1>2, <2>1, <2>4
  <2>6. Filled'[Len(Filled) + 1] = Head(IotThrInFifo)
    BY <1>1, <1>2, <2>1, <2>2, <2>4
  <2>7. ASSUME NEW i \in 1..Len(Filled), Filled[i] = Head(IotThrInFifo) PROVE FALSE
    <3>1. /\ i \in 1..Len(Ring) /\ Len(Filled) + 1 \in 1..Len(Ring) /\ i # Len(Filled) + 1
          /\ Ring[i] = Ring[Len(Filled) + 1]
      BY <1>1, <1>2, <2>2, <2>7
    <3>2. \A m, n \in 1..Len(Ring) : Ring[m] = Ring[n] => m = n
      BY Places DEF RingKnown, RingInv, Ownership, IsInjective
    <3> QED BY <3>1, <3>2
  <2> QED BY <1>3, <2>3, <2>4, <2>5, <2>6, <2>7
<1>4. CASE HistPopFrag
  <2>1. Circulation!Release /\ Ring # <<>> /\ Ring \in Seq(Bufs)
    BY <1>4, ReleaseStep, RingTyped DEF RingKnown
  <2>2. Ring' = Append(Tail(Ring), Head(Ring))
    BY <2>1 DEF Circulation!Release, Circulation!Turned
  <2>3. /\ Len(Ring) \in Nat \ {0} /\ Tail(Ring) \in Seq(Bufs) /\ Len(Tail(Ring)) = Len(Ring) - 1
        /\ \A i \in 1..(Len(Ring) - 1) : Tail(Ring)[i] = Ring[i + 1]
        /\ Head(Ring) \in Bufs
    BY <2>1, HeadTailProperties, EmptySeq, LenProperties
  <2>4. \A i \in 1..(Len(Ring) - 1) : Ring'[i] = Ring[i + 1]
    BY <2>2, <2>3, AppendProperties
  <2>5. Len(IotThrInFifo') = Len(IotThrInFifo) + 1
    <3>1. history # <<>> /\ history \in Seq(Bufs)
      BY <1>4 DEF HistPopFrag, HeadTimedOut, RingKnown, TypeInv, TypeOK, FifosOK
    <3>2. Head(history) \in Bufs
      BY <3>1, HeadTailProperties
    <3> QED BY <1>1, <1>4, <3>2, AppendProperties DEF HistPopFrag
  <2>6. Len(Filled') = Len(Filled) - 1
    BY <1>0, <1>1, <2>5
  <2>7. ASSUME NEW i \in 1..Len(Filled') PROVE Filled'[i] = Filled[i + 1]
    <3>1. i \in 1..(Len(Ring) - 1) /\ i + 1 \in 1..Len(Filled)
      BY <1>1, <2>6
    <3> QED BY <1>2, <2>4, <3>1
  <2> QED BY <1>4, <2>6, <2>7
<1>5. CASE ~IotFillFragment /\ ~HistPopFrag
  <2>1. Ring' = Ring /\ IotThrInFifo' = IotThrInFifo
    <3>1. CASE IotPutFragment
      BY <3>1, PublishStep DEF IotPutFragment, RingKnown, Circulation!Publish
    <3>2. CASE FusionTransmit
      BY <3>2, TakeStep DEF FusionTransmit, RingKnown, Circulation!Take
    <3>3. CASE HistPushFrag
      BY <3>3, LinkStep DEF HistPushFrag, RingKnown, Circulation!Link
    <3>4. CASE ~IotPutFragment /\ ~FusionTransmit /\ ~HistPushFrag
      <4>1. Ring' = Ring
        BY <1>5, <3>4, StutterStep DEF RingKnown, Circulation!all
      <4>2. IotThrInFifo' = IotThrInFifo
        BY <1>5, <3>4 DEF Next, IotThread, FtxThread, RUdpThread, FrxThread, Serving, vars,
           fifos, IotReceive, IotReceiveNothing, FreeHistoryLock, FreeHistoryUnlock,
           HistFindFrag, LingerLoad, LingerStore, ReplyCodeLoad, ReplyCodeStore, SendReply,
           Tick, ServiceControl, FusionTakes
      <4> QED BY <4>1, <4>2
    <3> QED BY <3>1, <3>2, <3>3, <3>4
  <2>2. Len(Filled') = Len(Filled)
    BY <1>1, <2>1
  <2> QED BY <1>2, <1>5, <2>1, <2>2
<1> QED BY <1>3, <1>4, <1>5

\* Payloads and sequence numbers are written when a buffer is filled, and never again.
LEMMA DataSteps ==
  ASSUME RingKnown, [Next]_vars, NEW i \in 1..Len(Filled)
  PROVE  LET m == msg[Filled[i]]
             n == msg'[Filled[i]]
         IN  n.data = m.data /\ n.seqNum = m.seqNum
<1>0. msg \in [Bufs -> Headers] /\ Filled[i] \in Bufs /\ msg[Filled[i]] \in Headers
  BY FilledTypes DEF RingKnown
<1>1. CASE IotFillFragment
  <2>1. Filled[i] # Head(IotThrInFifo)
    BY <1>1, FilledSteps DEF IotFillFragment, HistPopFrag
  <2> QED BY <1>0, <1>1, <2>1 DEF IotFillFragment
<1>2. CASE FusionTransmit
  <2>1. msg' = [msg EXCEPT ![Head(IotThrOutFifo)].hdrSeqNum
                             = msg[Head(IotThrOutFifo)].seqNum % SeqSpace]
    BY <1>2 DEF FusionTransmit, HdrSeq
  <2> QED BY <1>0, <2>1 DEF Headers
<1>3. CASE ReplyCodeStore
  <2>1. msg' = [msg EXCEPT ![frx.buf].frgmntIdx = frx.idx,
                           ![frx.buf].frgmnts = 2 * (@ \div 2) + frx.low]
    BY <1>3 DEF ReplyCodeStore
  <2> QED BY <1>0, <2>1 DEF Headers
<1>4. CASE ~IotFillFragment /\ ~FusionTransmit /\ ~ReplyCodeStore
  BY <1>4 DEF Next, IotThread, FtxThread, RUdpThread, FrxThread, Serving, vars,
     IotReceive, IotReceiveNothing, IotPutFragment, HistPushFrag, FreeHistoryLock,
     HistPopFrag, FreeHistoryUnlock, HistFindFrag, LingerLoad, LingerStore,
     ReplyCodeLoad, SendReply, Tick, ServiceControl, FusionTakes
<1> QED BY <1>1, <1>2, <1>3, <1>4

-------------------------------------------------------------------------------
(* The order of the fragments *)

Payload(i) == msg[Filled[i]].data

\* The fragment that IotFillFragment writes.
NewPayload == [pkt |-> txSeqNum, off |-> iot.frgmntIdx,
               rest |-> iot.res - (IF MaxMsgSize < iot.res THEN MaxMsgSize ELSE iot.res)]

LEMMA PayloadSteps ==
  ASSUME RingKnown, [Next]_vars
  PROVE  \/ /\ ~IotFillFragment /\ ~HistPopFrag /\ Len(Filled') = Len(Filled)
            /\ \A i \in 1..Len(Filled) : Payload(i)' = Payload(i)
         \/ /\ IotFillFragment /\ Len(Filled') = Len(Filled) + 1
            /\ \A i \in 1..Len(Filled) : Payload(i)' = Payload(i)
            /\ msg'[Filled'[Len(Filled) + 1]].data = NewPayload
         \/ /\ HistPopFrag /\ Len(Filled') = Len(Filled) - 1
            /\ \A i \in 1..Len(Filled') : Payload(i)' = Payload(i + 1)
<1>0. Len(Filled) \in Nat /\ msg \in [Bufs -> Headers]
  BY FilledTypes DEF RingKnown
<1>1. CASE /\ ~IotFillFragment /\ ~HistPopFrag /\ Len(Filled') = Len(Filled)
           /\ \A i \in 1..Len(Filled) : Filled'[i] = Filled[i]
  BY <1>1, DataSteps DEF Payload
<1>2. CASE /\ IotFillFragment /\ Len(Filled') = Len(Filled) + 1
           /\ \A i \in 1..Len(Filled) : Filled'[i] = Filled[i]
           /\ Filled'[Len(Filled) + 1] = Head(IotThrInFifo)
           /\ Head(IotThrInFifo) \in Bufs
  <2>1. \A i \in 1..Len(Filled) : Payload(i)' = Payload(i)
    BY <1>2, DataSteps DEF Payload
  <2>2. msg'[Head(IotThrInFifo)].data = NewPayload
    <3>1. msg[Head(IotThrInFifo)] \in Headers
      BY <1>0, <1>2
    <3> QED BY <1>0, <1>2, <3>1 DEF IotFillFragment, NewPayload, Headers
  <2> QED BY <1>2, <2>1, <2>2
<1>3. CASE /\ HistPopFrag /\ Len(Filled') = Len(Filled) - 1
           /\ \A i \in 1..Len(Filled') : Filled'[i] = Filled[i + 1]
  <2>1. ASSUME NEW i \in 1..Len(Filled') PROVE Payload(i)' = Payload(i + 1)
    <3>1. i + 1 \in 1..Len(Filled)
      BY <1>0, <1>3
    <3> QED BY <1>3, <3>1, DataSteps DEF Payload
  <2> QED BY <1>3, <2>1
<1> QED BY <1>1, <1>2, <1>3, FilledSteps

\* The last of the filled buffers: the datagram it belongs to is complete, or
\* iot_receive_routine is about to fill in the fragment that follows.
Complete(p) == p.rest = 0
Followed(p) == p.pkt = txSeqNum /\ p.off + 1 = iot.frgmntIdx /\ p.rest = iot.res
LastInv ==
  LET p == Payload(Len(Filled))
  IN  /\ iot.pc = "recv" => Complete(p) /\ p.pkt <= txSeqNum
      /\ (iot.pc = "get" /\ iot.frgmntIdx = 0) => Complete(p) /\ p.pkt < txSeqNum
      /\ (iot.pc = "get" /\ iot.frgmntIdx # 0) => Followed(p)
      /\ iot.pc = "put" => Followed(p)
OrderInv ==
  /\ Contiguous
  /\ iot.pc = "get" => iot.res > 0
  /\ Len(Filled) > 0 => LastInv

LEMMA InitOrder == Init => OrderInv
<1> SUFFICES ASSUME Init PROVE OrderInv
  OBVIOUS
<1>1. Filled = <<>> /\ Len(Filled) = 0
  BY DEF Init, Filled, FtxHeld, IotHeld, FtxIdle, IotIdle
<1>2. iot.pc = "recv"
  BY DEF Init, IotIdle
<1>3. Contiguous
  BY <1>1 DEF Contiguous
<1> QED BY <1>1, <1>2, <1>3 DEF OrderInv

\* The types that this part needs.
LEMMA OrderTypes ==
  ASSUME TypeInv
  PROVE  /\ iot \in [pc : {"recv", "get", "put"}, res : Nat, frgmnts : Nat,
                     frgmntIdx : Nat, buf : Bufs \cup {NoBuf}]
         /\ txSeqNum \in Nat /\ Len(Filled) \in Nat
         /\ \A i \in 1..Len(Filled) : Payload(i) \in [pkt : Nat, off : Nat, rest : Nat]
<1>1. ASSUME NEW i \in 1..Len(Filled) PROVE Payload(i) \in [pkt : Nat, off : Nat, rest : Nat]
  <2>1. msg[Filled[i]] \in Headers
    BY FilledTypes
  <2> QED BY <2>1 DEF Headers, Payload
<1> QED BY <1>1, FilledTypes DEF TypeInv, TypeOK, IotOK, CountersOK

\* What iot_receive_routine does to what LastInv says of it.
LEMMA IotKeepsLast ==
  ASSUME RingKnown, OrderInv, [Next]_vars, ~IotFillFragment, Len(Filled) > 0
  PROVE  LET p == Payload(Len(Filled))
         IN  /\ iot'.pc = "recv" => Complete(p) /\ p.pkt <= txSeqNum'
             /\ (iot'.pc = "get" /\ iot'.frgmntIdx = 0) => Complete(p) /\ p.pkt < txSeqNum'
             /\ (iot'.pc = "get" /\ iot'.frgmntIdx # 0) =>
                  p.pkt = txSeqNum' /\ p.off + 1 = iot'.frgmntIdx /\ p.rest = iot'.res
             /\ iot'.pc = "put" =>
                  p.pkt = txSeqNum' /\ p.off + 1 = iot'.frgmntIdx /\ p.rest = iot'.res
<1> DEFINE p == Payload(Len(Filled))
<1>0. p \in [pkt : Nat, off : Nat, rest : Nat] /\ TypeInv
  BY OrderTypes DEF RingKnown
<1> USE DEF OrderInv, LastInv, Complete, Followed
<1> HIDE DEF p
<1>1. /\ iot.pc = "recv" => Complete(p) /\ p.pkt <= txSeqNum
      /\ (iot.pc = "get" /\ iot.frgmntIdx = 0) => Complete(p) /\ p.pkt < txSeqNum
      /\ (iot.pc = "get" /\ iot.frgmntIdx # 0) => Followed(p)
      /\ iot.pc = "put" => Followed(p)
  BY DEF p
<1> USE <1>0, <1>1, OrderTypes
<1>2. ASSUME NEW n \in Sizes, IotReceive(n)
      PROVE  iot'.pc = "get" /\ iot'.frgmntIdx = 0 /\ p.rest = 0 /\ p.pkt < txSeqNum'
  BY <1>2 DEF IotReceive
<1>3. CASE IotReceiveNothing
  BY <1>3 DEF IotReceiveNothing, p
<1>4. CASE IotPutFragment
  <2>1. iot.pc = "put" /\ txSeqNum' = txSeqNum /\ Followed(p)
    BY <1>4 DEF IotPutFragment
  <2>2. CASE iot.res > 0
    <3>1. iot' = [iot EXCEPT !.pc = "get", !.buf = NoBuf]
      BY <1>4, <2>2 DEF IotPutFragment
    <3>2. iot'.pc = "get" /\ iot'.frgmntIdx = iot.frgmntIdx /\ iot'.res = iot.res
          /\ iot.frgmntIdx # 0
      BY <2>1, <3>1
    <3> QED BY <2>1, <3>2 DEF p
  <2>3. CASE ~(iot.res > 0)
    <3>1. iot' = IotIdle /\ iot.res = 0
      BY <1>4, <2>3 DEF IotPutFragment
    <3>2. iot'.pc = "recv"
      BY <3>1 DEF IotIdle
    <3> QED BY <2>1, <3>1, <3>2 DEF p
  <2> QED BY <2>2, <2>3
<1>5. CASE UNCHANGED <<iot, txSeqNum>>
  BY <1>5 DEF p
<1>6. CASE \/ FtxThread \/ RUdpThread \/ FrxThread \/ Tick \/ ServiceControl \/ FusionTakes
           \/ UNCHANGED vars
  BY <1>5, <1>6 DEF FtxThread, RUdpThread, FrxThread, Serving, vars, FusionTransmit,
     HistPushFrag, FreeHistoryLock, HistPopFrag, FreeHistoryUnlock, HistFindFrag, LingerLoad,
     LingerStore, ReplyCodeLoad, ReplyCodeStore, SendReply, Tick, ServiceControl, FusionTakes
<1> QED BY <1>2, <1>3, <1>4, <1>6 DEF Next, IotThread, p

\* Each filled buffer is followed by the next fragment, or by another datagram.
Follows(p, q) ==
  IF p.rest > 0 THEN q.pkt = p.pkt /\ q.off = p.off + 1 ELSE q.pkt > p.pkt /\ q.off = 0

LEMMA ContiguousPayloads ==
  Contiguous <=> \A i \in 1..(Len(Filled) - 1) : Follows(Payload(i), Payload(i + 1))
BY DEF Contiguous, Follows, Payload

LEMMA ContiguousPayloadsNext ==
  Contiguous' <=> \A i \in 1..(Len(Filled') - 1) : Follows(Payload(i)', Payload(i + 1)')
BY DEF Contiguous, Follows, Payload

LEMMA StepContiguous == RingKnown /\ OrderInv /\ [Next]_vars => Contiguous'
<1> SUFFICES ASSUME RingKnown, OrderInv, [Next]_vars, NEW i \in 1..(Len(Filled') - 1)
             PROVE  Follows(Payload(i)', Payload(i + 1)')
  BY ContiguousPayloadsNext
<1> DEFINE n == Len(Filled)
<1>0. n \in Nat /\ \A j \in 1..(n - 1) : Follows(Payload(j), Payload(j + 1))
  BY ContiguousPayloads, OrderTypes DEF OrderInv, RingKnown
<1>1. CASE ~IotFillFragment /\ ~HistPopFrag
  <2>1. /\ Len(Filled') = n /\ \A j \in 1..n : Payload(j)' = Payload(j)
    BY <1>1, PayloadSteps
  <2>2. i \in 1..(n - 1) /\ i \in 1..n /\ i + 1 \in 1..n
    BY <1>0, <2>1
  <2>3. Payload(i)' = Payload(i) /\ Payload(i + 1)' = Payload(i + 1)
    BY <2>1, <2>2 DEF Payload
  <2> QED BY <1>0, <2>2, <2>3
<1>2. CASE IotFillFragment
  <2>1. /\ Len(Filled') = n + 1 /\ \A j \in 1..n : Payload(j)' = Payload(j)
        /\ msg'[Filled'[n + 1]].data = NewPayload
    <3>1. ~HistPopFrag
      <4>1. Len(Filled') = n + 1
        BY <1>0, <1>2, FilledSteps DEF IotFillFragment, HistPopFrag
      <4> QED BY <1>0, <4>1, <1>2, PayloadSteps DEF IotFillFragment, HistPopFrag
    <3> QED BY <1>2, <3>1, PayloadSteps
  <2>2. CASE i < n
    <3>1. i \in 1..(n - 1) /\ i \in 1..n /\ i + 1 \in 1..n
      BY <1>0, <2>2
    <3>2. Payload(i)' = Payload(i) /\ Payload(i + 1)' = Payload(i + 1)
      BY <2>1, <3>1 DEF Payload
    <3> QED BY <1>0, <3>1, <3>2
  <2>3. CASE i = n
    <3>1. n \in 1..n /\ n > 0
      BY <1>0, <2>3
    <3>2. Payload(i)' = Payload(n) /\ Payload(i + 1)' = NewPayload
      BY <2>1, <2>3, <3>1 DEF Payload
    <3>3. iot.pc = "get"
      BY <1>2 DEF IotFillFragment
    <3>4. Follows(Payload(n), NewPayload)
      <4>1. Payload(n) \in [pkt : Nat, off : Nat, rest : Nat] /\ iot.res > 0
        BY <3>1, <3>3, OrderTypes DEF RingKnown, OrderInv
      <4>2. LastInv /\ txSeqNum \in Nat
        BY <3>1, OrderTypes DEF OrderInv, RingKnown
      <4> HIDE DEF n
      <4>3. NewPayload.pkt = txSeqNum /\ NewPayload.off = iot.frgmntIdx
        BY DEF NewPayload
      <4>4. CASE iot.frgmntIdx = 0
        <5>1. Complete(Payload(n)) /\ Payload(n).pkt < txSeqNum
          BY <3>3, <4>2, <4>4 DEF LastInv, n
        <5> QED BY <4>1, <4>2, <4>3, <4>4, <5>1 DEF Follows, Complete
      <4>5. CASE iot.frgmntIdx # 0
        <5>1. Followed(Payload(n))
          BY <3>3, <4>2, <4>5 DEF LastInv, n
        <5> QED BY <4>1, <4>2, <4>3, <4>5, <5>1 DEF Follows, Followed
      <4> QED BY <4>4, <4>5
    <3> QED BY <3>2, <3>4
  <2> QED BY <1>0, <2>1, <2>2, <2>3
<1>3. CASE HistPopFrag
  <2>1. /\ Len(Filled') = n - 1 /\ \A j \in 1..(n - 1) : Payload(j)' = Payload(j + 1)
    <3>1. ~IotFillFragment
      BY <1>3, HistorySteps DEF IotFillFragment, HistPopFrag, RingKnown, TypeInv, TypeOK,
         FifosOK, HeadTimedOut
    <3> QED BY <1>3, <3>1, PayloadSteps
  <2>2. i \in 1..(n - 1) /\ i + 1 \in 1..(n - 1)
    BY <1>0, <2>1
  <2>3. Payload(i)' = Payload(i + 1) /\ Payload(i + 1)' = Payload(i + 2)
    <3>1. (i + 1) + 1 = i + 2
      BY <2>2
    <3> QED BY <2>1, <2>2, <3>1 DEF Payload
  <2>4. Follows(Payload(i + 1), Payload(i + 2))
    <3>1. (i + 1) + 1 = i + 2
      BY <2>2
    <3> QED BY <1>0, <2>2, <3>1
  <2> QED BY <2>3, <2>4
<1> QED BY <1>1, <1>2, <1>3

LEMMA StepOrder == RingKnown /\ OrderInv /\ [Next]_vars => OrderInv'
<1> SUFFICES ASSUME RingKnown, OrderInv, [Next]_vars PROVE OrderInv'
  OBVIOUS
<1> DEFINE n == Len(Filled)
<1>0. /\ n \in Nat /\ txSeqNum \in Nat /\ TypeInv
      /\ iot \in [pc : {"recv", "get", "put"}, res : Nat, frgmnts : Nat,
                  frgmntIdx : Nat, buf : Bufs \cup {NoBuf}]
  BY OrderTypes DEF RingKnown
<1>1. iot'.pc = "get" => iot'.res > 0
  <2>1. ASSUME NEW m \in Sizes, IotReceive(m) PROVE iot'.pc = "get" => iot'.res > 0
    BY <1>0, <2>1, TxAssumption DEF IotReceive
  <2>2. CASE IotReceiveNothing \/ IotPutFragment
    <3>1. CASE IotReceiveNothing
      BY <3>1 DEF IotReceiveNothing, OrderInv
    <3>2. CASE IotPutFragment
      <4>1. \/ iot' = [iot EXCEPT !.pc = "get", !.buf = NoBuf] /\ iot.res > 0
            \/ iot' = IotIdle
        BY <3>2 DEF IotPutFragment
      <4>2. CASE iot' = IotIdle
        BY <4>2 DEF IotIdle
      <4>3. CASE iot' = [iot EXCEPT !.pc = "get", !.buf = NoBuf] /\ iot.res > 0
        BY <1>0, <4>3
      <4> QED BY <4>1, <4>2, <4>3
    <3> QED BY <2>2, <3>1, <3>2
  <2>3. CASE IotFillFragment
    BY <1>0, <2>3 DEF IotFillFragment
  <2>4. CASE iot' = iot
    BY <2>4 DEF OrderInv
  <2>5. CASE \/ FtxThread \/ RUdpThread \/ FrxThread \/ Tick \/ ServiceControl \/ FusionTakes
             \/ UNCHANGED vars
    BY <2>4, <2>5 DEF FtxThread, RUdpThread, FrxThread, Serving, vars, FusionTransmit,
       HistPushFrag, FreeHistoryLock, HistPopFrag, FreeHistoryUnlock, HistFindFrag,
       LingerLoad, LingerStore, ReplyCodeLoad, ReplyCodeStore, SendReply, Tick,
       ServiceControl, FusionTakes
  <2> QED BY <2>1, <2>2, <2>3, <2>5 DEF Next, IotThread
<1>2. ASSUME Len(Filled') > 0 PROVE LastInv'
  <2>1. CASE IotFillFragment
    <3>1. Len(Filled') = n + 1 /\ msg'[Filled'[n + 1]].data = NewPayload
      <4>1. Len(Filled') = n + 1
        BY <1>0, <2>1, FilledSteps DEF IotFillFragment, HistPopFrag
      <4> QED BY <1>0, <2>1, <4>1, PayloadSteps
    <3>2. Payload(Len(Filled))' = NewPayload
      BY <3>1 DEF Payload
    <3>3. /\ iot'.pc = "put" /\ txSeqNum' = txSeqNum /\ iot'.frgmntIdx = iot.frgmntIdx + 1
          /\ iot'.res = NewPayload.rest
      BY <1>0, <2>1 DEF IotFillFragment, NewPayload
    <3>4. NewPayload.pkt = txSeqNum /\ NewPayload.off = iot.frgmntIdx
      BY DEF NewPayload
    <3> HIDE DEF n
    <3>5. Followed(Payload(Len(Filled)))'
      BY <3>2, <3>3, <3>4 DEF Followed
    <3> QED BY <3>3, <3>5 DEF LastInv
  <2>2. CASE ~IotFillFragment
    <3>1. n > 0 /\ Payload(Len(Filled))' = Payload(n)
      <4>1. CASE ~HistPopFrag
        <5>1. Len(Filled') = n /\ \A i \in 1..n : Payload(i)' = Payload(i)
          BY <2>2, <4>1, PayloadSteps
        <5>2. n > 0 /\ n \in 1..n
          BY <1>0, <1>2, <5>1
        <5> QED BY <5>1, <5>2 DEF Payload
      <4>2. CASE HistPopFrag
        <5>1. Len(Filled') = n - 1 /\ \A i \in 1..(n - 1) : Payload(i)' = Payload(i + 1)
          BY <2>2, <4>2, PayloadSteps
        <5>2. n > 0 /\ n - 1 \in 1..(n - 1) /\ (n - 1) + 1 = n
          BY <1>0, <1>2, <5>1
        <5> QED BY <5>1, <5>2 DEF Payload
      <4> QED BY <4>1, <4>2
    <3> QED BY <2>2, <3>1, IotKeepsLast DEF LastInv, Complete, Followed
  <2> QED BY <2>1, <2>2
<1> QED BY <1>1, <1>2, StepContiguous DEF OrderInv

\* Between iot_receive_routine and the end of the history no fragment is skipped,
\* repeated or overtaken, whatever the size of the datagrams.
THEOREM FragmentsAreContiguous == Spec => []Contiguous
<1>1. OrderInv => Contiguous
  BY DEF OrderInv
<1> QED BY <1>1, InitRingKnown, StepRingKnown, InitOrder, StepOrder, PTL DEF Spec

-------------------------------------------------------------------------------
(* The headers *)

\* The buffers that have been sent, and so have a complete header.
Sent == Len(history) + Len(FtxHeld)

LEMMA SentSteps ==
  ASSUME RingKnown, [Next]_vars
  PROVE  /\ Sent \in Nat /\ Sent <= Len(Filled)
         /\ ~FusionTransmit /\ ~HistPopFrag => Sent' = Sent
         /\ HistPopFrag => Sent' = Sent - 1
         /\ FusionTransmit => /\ Sent' = Sent + 1 /\ Sent + 1 \in 1..Len(Filled)
                              /\ Filled[Sent + 1] = Head(IotThrOutFifo)
<1>0. /\ history \in Seq(Bufs) /\ Len(history) \in Nat /\ Len(Filled) \in Nat
      /\ ftx \in [pc : {"get", "push"}, buf : Bufs \cup {NoBuf}, time : Lives]
      /\ ftx.pc = "push" => ftx.buf \in Bufs
  BY AgeTypes, FilledTypes DEF RingKnown
<1>1. Len(FtxHeld) = (IF ftx.pc = "push" THEN 1 ELSE 0)
  BY DEF FtxHeld
<1>2. Len(FtxHeld') = (IF ftx'.pc = "push" THEN 1 ELSE 0)
  BY DEF FtxHeld
<1>3. Sent \in Nat /\ Sent <= Len(Filled)
  BY <1>0, <1>1, Places DEF Sent, RingKnown
<1>4. ASSUME FusionTransmit
      PROVE  /\ Sent' = Sent + 1 /\ Sent + 1 \in 1..Len(Filled)
             /\ Filled[Sent + 1] = Head(IotThrOutFifo)
  <2>1. history' = history /\ ftx.pc = "get" /\ ftx'.pc = "push" /\ IotThrOutFifo # <<>>
    BY <1>4 DEF FusionTransmit
  <2> QED BY <1>0, <1>1, <1>2, <1>3, <2>1, Places DEF Sent, RingKnown
<1>5. ASSUME HistPopFrag PROVE Sent' = Sent - 1
  <2>1. history # <<>> /\ history' = Tail(history) /\ ftx' = ftx
    BY <1>5 DEF HistPopFrag, HeadTimedOut
  <2>2. Len(history') = Len(history) - 1
    BY <1>0, <2>1, HeadTailProperties
  <2> QED BY <1>0, <1>1, <1>2, <2>1, <2>2 DEF Sent
<1>6. ASSUME ~FusionTransmit, ~HistPopFrag PROVE Sent' = Sent
  <2>1. CASE HistPushFrag
    <3>1. history' = Append(history, ftx.buf) /\ ftx.pc = "push" /\ ftx'.pc = "get"
      BY <2>1 DEF HistPushFrag, FtxIdle
    <3>2. Len(history') = Len(history) + 1
      BY <1>0, <3>1, AppendProperties
    <3> QED BY <1>0, <1>1, <1>2, <3>1, <3>2 DEF Sent
  <2>2. CASE Tick
    <3>1. history' = history /\ ftx'.pc = ftx.pc
      BY <1>0, <2>2 DEF Tick, fifos
    <3> QED BY <1>1, <1>2, <3>1 DEF Sent
  <2>3. CASE ~HistPushFrag /\ ~Tick
    <3>1. history' = history /\ ftx' = ftx
      BY <1>6, <2>3 DEF Next, IotThread, FtxThread, RUdpThread, FrxThread, Serving, vars, fifos,
         IotReceive, IotReceiveNothing, IotFillFragment, IotPutFragment, FreeHistoryLock,
         FreeHistoryUnlock, HistFindFrag, LingerLoad, LingerStore, ReplyCodeLoad,
         ReplyCodeStore, SendReply, ServiceControl, FusionTakes
    <3> QED BY <1>1, <1>2, <3>1 DEF Sent
  <2> QED BY <2>1, <2>2, <2>3
<1> QED BY <1>3, <1>4, <1>5, <1>6

\* What a step does to the header of a filled buffer.
LEMMA HeaderSteps ==
  ASSUME RingKnown, FoundInv, [Next]_vars, NEW i \in 1..Len(Filled)
  PROVE  LET m == msg[Filled[i]]
             n == msg'[Filled[i]]
         IN  /\ ~staleWrite' =>
                  n.frgmntIdx = m.frgmntIdx /\ n.frgmnts = m.frgmnts /\ ~staleWrite
             /\ \/ n.hdrSeqNum = m.hdrSeqNum
                \/ FusionTransmit /\ n.hdrSeqNum = m.seqNum % SeqSpace
             /\ (FusionTransmit /\ Filled[i] = Head(IotThrOutFifo)) =>
                  n.hdrSeqNum = m.seqNum % SeqSpace
<1> DEFINE b == Filled[i]
<1>0. /\ msg \in [Bufs -> Headers] /\ b \in Bufs /\ msg[b] \in Headers
      /\ frx.pc # "idle" => frx.buf \in Bufs
  BY FilledTypes, AgeTypes DEF RingKnown
<1>1. CASE IotFillFragment
  <2>1. b # Head(IotThrInFifo)
    BY <1>1, FilledSteps DEF IotFillFragment, HistPopFrag
  <2>2. ~FusionTransmit
    BY <1>0, <1>1 DEF IotFillFragment, FusionTransmit
  <2> QED BY <1>0, <1>1, <2>1, <2>2 DEF IotFillFragment, ghosts
<1>2. CASE FusionTransmit
  <2>1. /\ msg' = [msg EXCEPT ![Head(IotThrOutFifo)].hdrSeqNum
                               = msg[Head(IotThrOutFifo)].seqNum % SeqSpace]
        /\ staleWrite' = staleWrite
    BY <1>2 DEF FusionTransmit, HdrSeq, ghosts
  <2> HIDE DEF b
  <2>2. CASE b = Head(IotThrOutFifo)
    BY <1>0, <1>2, <2>1, <2>2 DEF Headers, b
  <2>3. CASE b # Head(IotThrOutFifo)
    BY <1>0, <1>2, <2>1, <2>3 DEF b
  <2> QED BY <2>2, <2>3
<1>3. CASE ReplyCodeStore
  <2>0. ~FusionTransmit
    <3>1. UNCHANGED ftx /\ frx.pc = "codeStore"
      BY <1>3 DEF ReplyCodeStore
    <3> QED BY <3>1 DEF FusionTransmit
  <2>1. /\ msg' = [msg EXCEPT ![frx.buf].frgmntIdx = frx.idx,
                              ![frx.buf].frgmnts = 2 * (@ \div 2) + frx.low]
        /\ staleWrite' = (staleWrite \/ ~frx.fresh) /\ frx.pc = "codeStore"
    BY <1>3 DEF ReplyCodeStore
  <2>2. msg'[b].hdrSeqNum = msg[b].hdrSeqNum
    BY <1>0, <2>1 DEF Headers
  <2>3. ASSUME ~staleWrite'
        PROVE  /\ msg'[b].frgmntIdx = msg[b].frgmntIdx /\ msg'[b].frgmnts = msg[b].frgmnts
               /\ ~staleWrite
    <3>1. ~staleWrite /\ frx.fresh
      BY <2>1, <2>3
    <3>2. CASE frx.buf # b
      BY <1>0, <2>1, <3>1, <3>2
    <3>3. CASE frx.buf = b
      <4>1. b \in Range(history)
        BY <2>1, <3>1, <3>3 DEF FoundInv, FoundIsRequested
      <4>2. msg'[b] = msg[b]
        BY <1>0, <3>1, <4>1, HistoryMsg
      <4> QED BY <3>1, <4>2
    <3> QED BY <3>2, <3>3
  <2> QED BY <2>0, <2>2, <2>3
<1>4. CASE ~IotFillFragment /\ ~FusionTransmit /\ ~ReplyCodeStore
  <2>1. msg' = msg
    BY <1>4 DEF Next, IotThread, FtxThread, RUdpThread, FrxThread, Serving, vars,
       IotReceive, IotReceiveNothing, IotPutFragment, HistPushFrag, FreeHistoryLock,
       HistPopFrag, FreeHistoryUnlock, HistFindFrag, LingerLoad, LingerStore,
       ReplyCodeLoad, SendReply, Tick, ServiceControl, FusionTakes
  <2>2. staleWrite' = staleWrite \/ staleWrite' = (staleWrite \/ ~frx.fresh)
    BY <1>4 DEF Next, IotThread, FtxThread, RUdpThread, FrxThread, Serving, vars, ghosts,
       IotReceive, IotReceiveNothing, IotPutFragment, HistPushFrag, FreeHistoryLock,
       HistPopFrag, FreeHistoryUnlock, HistFindFrag, LingerLoad, LingerStore,
       ReplyCodeLoad, SendReply, Tick, ServiceControl, FusionTakes
  <2>3. ~staleWrite' => ~staleWrite
    BY <2>2, Zenon
  <2> QED BY <1>4, <2>1, <2>3
<1> QED BY <1>1, <1>2, <1>3, <1>4

\* The fragments that iot_receive_routine has still to make of its datagram.
CutInv ==
  iot.pc # "recv" => /\ iot.frgmnts = iot.frgmntIdx + Fragments(iot.res)
                     /\ iot.frgmnts <= MaxFragments

Truthful(m) == m.frgmntIdx = m.data.off /\ m.frgmntIdx + 1 + Fragments(m.data.rest) = m.frgmnts

HeaderInv ==
  /\ CutInv
  /\ \A i \in 1..Len(Filled) :
       LET m == msg[Filled[i]]
       IN  /\ m.seqNum = m.data.pkt % 256
           /\ ~staleWrite => Truthful(m)
           /\ i <= Sent => m.hdrSeqNum = m.data.pkt % SeqSpace

LEMMA InitHeader == Init => HeaderInv
<1> SUFFICES ASSUME Init PROVE HeaderInv
  OBVIOUS
<1>1. Len(Filled) = 0
  BY DEF Init, Filled, FtxHeld, IotHeld, FtxIdle, IotIdle
<1>2. iot.pc = "recv"
  BY DEF Init, IotIdle
<1> QED BY <1>1, <1>2 DEF HeaderInv, CutInv

LEMMA StepCut == TypeInv /\ OrderInv /\ CutInv /\ [Next]_vars => CutInv'
<1> SUFFICES ASSUME TypeInv, OrderInv, CutInv, [Next]_vars PROVE CutInv'
  OBVIOUS
<1>0. /\ iot \in [pc : {"recv", "get", "put"}, res : Nat, frgmnts : Nat,
                  frgmntIdx : Nat, buf : Bufs \cup {NoBuf}]
      /\ TxAssumption
  BY OrderTypes, TxAssumption DEF TxAssumption
<1>1. ASSUME NEW n \in Sizes, IotReceive(n) PROVE CutInv'
  <2>1. n \in 1..((FragMod - 1) * MaxMsgSize)
    BY TxAssumption
  <2>2. Fragments(n) \in 1..MaxFragments
    BY <2>1, FragBound DEF MaxFragments
  <2>3. iot'.frgmnts = Fragments(n) /\ iot'.frgmntIdx = 0 /\ iot'.res = n
    BY <1>0, <1>1 DEF IotReceive
  <2> HIDE DEF FragMod
  <2> QED BY <2>2, <2>3 DEF CutInv, MaxFragments, FragMod
<1>2. CASE IotFillFragment
  <2> DEFINE len == IF MaxMsgSize < iot.res THEN MaxMsgSize ELSE iot.res
  <2>1. /\ iot.pc = "get" /\ iot'.frgmntIdx = iot.frgmntIdx + 1 /\ iot'.res = iot.res - len
        /\ iot'.frgmnts = iot.frgmnts
    BY <1>0, <1>2 DEF IotFillFragment
  <2>2. iot.res \in Nat \ {0}
    BY <1>0, <2>1 DEF OrderInv
  <2>3. Fragments(iot.res) = 1 + Fragments(iot.res - len)
    BY <2>2, FragStep
  <2>4. iot.res - len \in Nat
    BY <2>2, TxAssumption
  <2>5. Fragments(iot.res - len) \in Nat
    BY <2>4, FragmentsNat
  <2>6. /\ iot.frgmnts = iot.frgmntIdx + Fragments(iot.res) /\ iot.frgmnts <= MaxFragments
        /\ iot.frgmntIdx \in Nat /\ iot.frgmnts \in Nat
    BY <1>0, <2>1 DEF CutInv
  <2> HIDE DEF len
  <2>7. iot.frgmnts = (iot.frgmntIdx + 1) + Fragments(iot.res - len)
    BY <2>3, <2>5, <2>6
  <2>8. Fragments(iot.res)' = Fragments(iot.res - len)
    BY <2>1 DEF Fragments
  <2> QED BY <2>1, <2>6, <2>7, <2>8 DEF CutInv
<1>3. CASE IotPutFragment
  <2>1. iot.pc = "put"
    BY <1>3 DEF IotPutFragment
  <2>2. CASE iot' = IotIdle
    BY <2>2 DEF IotIdle, CutInv
  <2>3. CASE iot' = [iot EXCEPT !.pc = "get", !.buf = NoBuf]
    <3>1. iot'.frgmnts = iot.frgmnts /\ iot'.frgmntIdx = iot.frgmntIdx /\ iot'.res = iot.res
      BY <1>0, <2>3
    <3> QED BY <2>1, <3>1 DEF CutInv, Fragments
  <2> QED BY <1>3, <2>2, <2>3 DEF IotPutFragment
<1>4. CASE iot' = iot
  BY <1>4 DEF CutInv, Fragments
<1>5. CASE \/ IotReceiveNothing \/ FtxThread \/ RUdpThread \/ FrxThread \/ Tick
           \/ ServiceControl \/ FusionTakes \/ UNCHANGED vars
  BY <1>4, <1>5 DEF IotReceiveNothing, FtxThread, RUdpThread, FrxThread, Serving, vars,
     FusionTransmit, HistPushFrag, FreeHistoryLock, HistPopFrag, FreeHistoryUnlock,
     HistFindFrag, LingerLoad, LingerStore, ReplyCodeLoad, ReplyCodeStore, SendReply, Tick,
     ServiceControl, FusionTakes
<1> QED BY <1>1, <1>2, <1>3, <1>5 DEF Next, IotThread

\* The buffer that iot_receive_routine has just filled.
LEMMA FilledTruly ==
  ASSUME RingKnown, OrderInv, HeaderInv, IotFillFragment
  PROVE  LET m == msg'[Head(IotThrInFifo)]
         IN  m.seqNum = m.data.pkt % 256 /\ Truthful(m)
<1> DEFINE b   == Head(IotThrInFifo)
           len == IF MaxMsgSize < iot.res THEN MaxMsgSize ELSE iot.res
<1>0. /\ iot \in [pc : {"recv", "get", "put"}, res : Nat, frgmnts : Nat,
                  frgmntIdx : Nat, buf : Bufs \cup {NoBuf}]
      /\ msg \in [Bufs -> Headers] /\ b \in Bufs
  BY OrderTypes, FilledTypes, HeadTailProperties DEF RingKnown, IotFillFragment
<1>1. /\ msg'[b].seqNum = txSeqNum % 256 /\ msg'[b].data.pkt = txSeqNum
      /\ msg'[b].frgmnts = iot.frgmnts % FragMod
      /\ msg'[b].frgmntIdx = iot.frgmntIdx % FragMod
      /\ msg'[b].data.off = iot.frgmntIdx /\ msg'[b].data.rest = iot.res - len
  <2>1. msg[b] \in Headers
    BY <1>0
  <2> HIDE DEF b
  <2>2. msg'[b] = [msg[b] EXCEPT !.seqNum = txSeqNum % 256, !.frgmnts = iot.frgmnts % FragMod,
                                 !.msgLen = len, !.frgmntIdx = iot.frgmntIdx % FragMod,
                                 !.data = [pkt |-> txSeqNum, off |-> iot.frgmntIdx,
                                           rest |-> iot.res - len]]
    BY <1>0 DEF IotFillFragment, b
  <2> QED BY <2>1, <2>2 DEF Headers
<1>2. iot.pc = "get" /\ iot.res \in Nat \ {0}
  BY <1>0 DEF IotFillFragment, OrderInv
<1>3. Fragments(iot.res) = 1 + Fragments(iot.res - len)
  BY <1>2, FragStep
<1>4. iot.res - len \in Nat
  BY <1>2, TxAssumption
<1>5. Fragments(iot.res - len) \in Nat
  BY <1>4, FragmentsNat
<1>6. iot.frgmnts = iot.frgmntIdx + Fragments(iot.res) /\ iot.frgmnts <= 31
  BY <1>2 DEF HeaderInv, CutInv, MaxFragments, FragMod
<1> HIDE DEF len, b
<1>7. iot.frgmntIdx \in 0..31 /\ iot.frgmnts \in 0..31
  BY <1>0, <1>3, <1>5, <1>6
<1>8. iot.frgmntIdx % FragMod = iot.frgmntIdx /\ iot.frgmnts % FragMod = iot.frgmnts
  BY <1>7 DEF FragMod
<1>9. iot.frgmntIdx + 1 + Fragments(iot.res - len) = iot.frgmnts
  BY <1>0, <1>3, <1>5, <1>6
<1> QED BY <1>1, <1>8, <1>9 DEF Truthful, b

\* A buffer that stays filled keeps a truthful header.
LEMMA KeptTruly ==
  ASSUME RingKnown, FoundInv, HeaderInv, [Next]_vars, NEW i \in 1..Len(Filled)
  PROVE  LET n == msg'[Filled[i]]
         IN  /\ n.seqNum = n.data.pkt % 256
             /\ ~staleWrite' => Truthful(n)
             /\ (i <= Sent \/ (FusionTransmit /\ i = Sent + 1)) =>
                  n.hdrSeqNum = n.data.pkt % SeqSpace
<1> DEFINE m == msg[Filled[i]]
           n == msg'[Filled[i]]
<1>1. m \in Headers
  BY FilledTypes DEF RingKnown
<1>2. m.data.pkt \in Nat
  BY <1>1 DEF Headers
<1>3. n.data = m.data /\ n.seqNum = m.seqNum
  BY DataSteps
<1>4. /\ ~staleWrite' => n.frgmntIdx = m.frgmntIdx /\ n.frgmnts = m.frgmnts /\ ~staleWrite
      /\ \/ n.hdrSeqNum = m.hdrSeqNum
         \/ FusionTransmit /\ n.hdrSeqNum = m.seqNum % SeqSpace
      /\ (FusionTransmit /\ Filled[i] = Head(IotThrOutFifo)) =>
           n.hdrSeqNum = m.seqNum % SeqSpace
  BY HeaderSteps
<1>5. /\ m.seqNum = m.data.pkt % 256
      /\ ~staleWrite => Truthful(m)
      /\ i <= Sent => m.hdrSeqNum = m.data.pkt % SeqSpace
  BY DEF HeaderInv
<1>6. FusionTransmit /\ i = Sent + 1 => Filled[i] = Head(IotThrOutFifo)
  BY SentSteps
<1> HIDE DEF m, n
<1>7. m.seqNum % SeqSpace = m.data.pkt % SeqSpace
  BY <1>2, <1>5, HeaderSeq
<1>8. n.seqNum = n.data.pkt % 256
  BY <1>3, <1>5
<1>9. ~staleWrite' => Truthful(n)
  BY <1>3, <1>4, <1>5 DEF Truthful
<1>10. (i <= Sent \/ (FusionTransmit /\ i = Sent + 1)) => n.hdrSeqNum = n.data.pkt % SeqSpace
  BY <1>3, <1>4, <1>5, <1>6, <1>7
<1> QED BY <1>8, <1>9, <1>10 DEF n

LEMMA StepHeader ==
  RingKnown /\ FoundInv /\ OrderInv /\ HeaderInv /\ [Next]_vars => HeaderInv'
<1> SUFFICES ASSUME RingKnown, FoundInv, OrderInv, HeaderInv, [Next]_vars PROVE HeaderInv'
  OBVIOUS
<1>0. Len(Filled) \in Nat /\ Sent \in Nat /\ Sent <= Len(Filled)
  BY FilledTypes, SentSteps DEF RingKnown
<1>1. CutInv'
  BY StepCut DEF RingKnown, HeaderInv
<1>2. ASSUME NEW i \in 1..Len(Filled')
      PROVE  LET m == msg'[Filled'[i]]
             IN  /\ m.seqNum = m.data.pkt % 256
                 /\ ~staleWrite' => Truthful(m)
                 /\ i <= Sent' => m.hdrSeqNum = m.data.pkt % SeqSpace
  <2>1. CASE /\ ~IotFillFragment /\ ~HistPopFrag /\ Len(Filled') = Len(Filled)
             /\ \A j \in 1..Len(Filled) : Filled'[j] = Filled[j]
    <3>1. i \in 1..Len(Filled) /\ Filled'[i] = Filled[i]
      BY <2>1
    <3>2. i <= Sent' => i <= Sent \/ (FusionTransmit /\ i = Sent + 1)
      BY <1>0, <2>1, SentSteps
    <3> QED BY <3>1, <3>2, KeptTruly
  <2>2. CASE /\ IotFillFragment /\ Len(Filled') = Len(Filled) + 1
             /\ \A j \in 1..Len(Filled) : Filled'[j] = Filled[j]
             /\ Filled'[Len(Filled) + 1] = Head(IotThrInFifo)
    <3>1. Sent' = Sent
      <4>1. ~FusionTransmit /\ ~HistPopFrag
        BY <2>2, FilledTypes DEF RingKnown, IotFillFragment, FusionTransmit, HistPopFrag
      <4> QED BY <4>1, SentSteps
    <3>2. CASE i \in 1..Len(Filled)
      BY <2>2, <3>1, <3>2, KeptTruly
    <3>3. CASE i = Len(Filled) + 1
      <4>1. ~(i <= Sent')
        BY <1>0, <3>1, <3>3
      <4> QED BY <2>2, <3>3, <4>1, FilledTruly
    <3> QED BY <1>0, <2>2, <3>2, <3>3
  <2>3. CASE /\ HistPopFrag /\ Len(Filled') = Len(Filled) - 1
             /\ \A j \in 1..Len(Filled') : Filled'[j] = Filled[j + 1]
    <3>1. i + 1 \in 1..Len(Filled) /\ Filled'[i] = Filled[i + 1]
      BY <1>0, <2>3
    <3>2. i <= Sent' => i + 1 <= Sent
      BY <1>0, <2>3, SentSteps
    <3> QED BY <3>1, <3>2, KeptTruly
  <2> QED BY <2>1, <2>2, <2>3, FilledSteps
<1> QED BY <1>1, <1>2 DEF HeaderInv

LEMMA HeadersFollow == RingKnown /\ HeaderInv => HeadersTruthful
<1> SUFFICES ASSUME RingKnown, HeaderInv PROVE HeadersTruthful
  OBVIOUS
<1>1. Len(history) <= Sent /\ Len(history) \in Nat /\ Sent \in Nat
  <2>1. Len(history) \in Nat /\ Len(FtxHeld) \in Nat
    BY Places, RingTyped, LenProperties DEF RingKnown
  <2> QED BY <2>1 DEF Sent
<1>2. \A i \in 1..Len(Filled) : i <= Len(history) => i <= Sent
  BY <1>1, Places DEF RingKnown
<1> QED BY <1>2 DEF HeadersTruthful, HeaderInv, Truthful

\* The header of every fragment that is waiting, sent or kept names the datagram
\* and the place its payload comes from, and how many fragments there are, for
\* every size of datagram that five bits can count, until a reply damages one.
THEOREM HeadersAreTruthful == Spec => []HeadersTruthful
BY HeadersFollow, InitRingKnown, StepRingKnown, InitFound, StepFound, InitOrder, StepOrder,
   InitHeader, StepHeader, PTL DEF Spec
-------------------------------------------------------------------------------
(* The identity of a fragment in the history *)

LEMMA LeastNat ==
  ASSUME NEW T, T \subseteq Nat, T # {}
  PROVE  \E x \in T : \A y \in T : x <= y
<1> DEFINE R == OpToRel(<, Nat)
<1>1. IsWellFoundedOn(R, Nat)
  BY NatLessThanWellFounded
<1>2. \A x, y \in Nat : x < y => <<x, y>> \in R
  BY DEF OpToRel
<1> HIDE DEF R
<1>3. PICK x \in T : \A y \in T : <<y, x>> \notin R
  BY <1>1, WFMin
<1>4. \A y \in T : ~(y < x)
  BY <1>2, <1>3, Zenon
<1> QED BY <1>3, <1>4

\* The fragments in the order in which iot_receive_routine makes them.
Before(p, q) == p.pkt < q.pkt \/ (p.pkt = q.pkt /\ p.off < q.off)

\* As each filled buffer precedes the next, each precedes all that stand behind it.
LEMMA FilledInOrder ==
  ASSUME TypeInv, Contiguous, NEW i \in 1..Len(Filled)
  PROVE  \A j \in 1..Len(Filled) : i < j => Before(Payload(i), Payload(j))
<1>1. /\ Len(Filled) \in Nat
      /\ \A k \in 1..Len(Filled) : Payload(k).pkt \in Nat /\ Payload(k).off \in Nat
  BY OrderTypes
<1>2. ASSUME NEW k \in 1..(Len(Filled) - 1) PROVE Before(Payload(k), Payload(k + 1))
  <2>1. Follows(Payload(k), Payload(k + 1)) /\ Payload(k).off \in Nat
    BY <1>1, ContiguousPayloads
  <2> QED BY <2>1 DEF Follows, Before
<1> DEFINE T == {j \in 1..Len(Filled) : i < j /\ ~Before(Payload(i), Payload(j))}
<1>3. T = {}
  <2> SUFFICES ASSUME T # {} PROVE FALSE
    OBVIOUS
  <2>1. T \subseteq Nat
    OBVIOUS
  <2> HIDE DEF T
  <2>2. PICK j \in T : \A y \in T : j <= y
    BY <2>1, LeastNat
  <2>3. j \in 1..Len(Filled) /\ i < j /\ ~Before(Payload(i), Payload(j))
    BY <2>2 DEF T
  <2>4. PICK k \in 1..(Len(Filled) - 1) : j = k + 1 /\ k \in 1..Len(Filled) /\ i <= k
    BY <1>1, <2>3
  <2>5. Before(Payload(k), Payload(j))
    BY <1>2, <2>4
  <2>6. k # i
    BY <2>3, <2>5
  <2>7. k \notin T
    BY <2>2, <2>4
  <2>8. Before(Payload(i), Payload(k))
    BY <2>4, <2>6, <2>7 DEF T
  <2> QED BY <1>1, <2>3, <2>4, <2>5, <2>8 DEF Before
<1> QED BY <1>3

\* Two numbers that agree in their last bits are a whole turn apart.
LEMMA TurnApart ==
  ASSUME NEW n \in Nat \ {0}, NEW a \in Nat, NEW c \in Nat, a % n = c % n, a < c
  PROVE  c >= a + n
<1>1. PICK q \in Nat, r \in 0..(n - 1) : a = n * q + r
  BY DivMod
<1>2. PICK p \in Nat, s \in 0..(n - 1) : c = n * p + s
  BY DivMod
<1>3. r = s
  BY <1>1, <1>2, DivModUnique
<1>4. p > q
  <2>1. SUFFICES ASSUME p <= q PROVE FALSE
    OBVIOUS
  <2>2. n * p <= n * q
    BY <2>1
  <2> QED BY <1>1, <1>2, <1>3, <2>2
<1>5. n * p >= n * (q + 1)
  BY <1>4
<1>6. n * (q + 1) = n * q + n
  OBVIOUS
<1> QED BY <1>1, <1>2, <1>3, <1>5, <1>6

LEMMA IdentityFollows ==
  RingKnown /\ OrderInv /\ HeadersTruthful => IdentityUnique
<1> SUFFICES ASSUME RingKnown, OrderInv, HeadersTruthful, ~staleWrite,
                    NEW i \in 1..Len(history), NEW j \in 1..Len(history), i < j,
                    msg[history[i]].frgmntIdx = msg[history[j]].frgmntIdx,
                    msg[history[i]].hdrSeqNum = msg[history[j]].hdrSeqNum
             PROVE  msg[history[j]].data.pkt >= msg[history[i]].data.pkt + SeqSpace
  BY DEF IdentityUnique
<1>1. /\ i \in 1..Len(Filled) /\ j \in 1..Len(Filled)
      /\ Filled[i] = history[i] /\ Filled[j] = history[j]
      /\ i <= Len(history) /\ j <= Len(history)
  BY Places DEF RingKnown
<1>2. Payload(i) = msg[history[i]].data /\ Payload(j) = msg[history[j]].data
  BY <1>1 DEF Payload
<1>3. /\ msg[history[i]].frgmntIdx = Payload(i).off
      /\ msg[history[j]].frgmntIdx = Payload(j).off
      /\ msg[history[i]].hdrSeqNum = Payload(i).pkt % SeqSpace
      /\ msg[history[j]].hdrSeqNum = Payload(j).pkt % SeqSpace
  BY <1>1, <1>2 DEF HeadersTruthful
<1>4. /\ Payload(i).pkt \in Nat /\ Payload(i).off \in Nat
      /\ Payload(j).pkt \in Nat /\ Payload(j).off \in Nat
  BY <1>1, OrderTypes DEF RingKnown
<1>5. Before(Payload(i), Payload(j))
  BY <1>1, FilledInOrder DEF RingKnown, OrderInv
<1>6. Payload(i).pkt < Payload(j).pkt
  <2>1. Payload(i).off = Payload(j).off
    BY <1>3, Zenon
  <2> QED BY <1>4, <1>5, <2>1 DEF Before
<1>7. SeqSpace \in Nat \ {0}
  BY TxAssumption
<1> QED BY <1>2, <1>3, <1>4, <1>6, <1>7, TurnApart

\* What handle_lost_request looks a fragment up by identifies it, for any number of
\* buffers and any width of the sequence number: two fragments of the history that
\* have the same index and number are of datagrams a whole turn apart, the older in
\* front, until a reply damages a header.
THEOREM FragmentsAreIdentified == Spec => []IdentityUnique
BY HeadersFollow, IdentityFollows, InitRingKnown, StepRingKnown, InitFound, StepFound,
   InitOrder, StepOrder, InitHeader, StepHeader, PTL DEF Spec
===============================================================================
