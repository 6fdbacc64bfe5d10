-------------------------------- MODULE RxPath --------------------------------
(***************************************************************************)
(* The path from fusion to the IoT device: reassembly of the datagrams that *)
(* the peer cut in fragments, and the requests for what was lost.           *)
(*                                                                         *)
(*   peer -> fusion_receive_routine -> fusionThrOutFifo                     *)
(*     -> iot_transmit_routine (defragment) -> device                      *)
(*     -> requests -> peer                                                 *)
(*                                                                         *)
(* r_udp_req_routine dumps what has timed out, in parallel and without a   *)
(* lock.  The peer is what the sending half of this program promises: the  *)
(* fragments of consecutive datagrams in order, and the first match of a   *)
(* request in a history that forgets.  Any datagram may be lost.           *)
(***************************************************************************)
EXTENDS Integers, Sequences, FiniteSets, SequencesExt

CONSTANTS
  NBufs,       \* buffers fed into fusionThrInFifo (MAX_BUFFER_ELEMS - 1 = 63)
  MaxPkts,     \* MAX_PKTS, slots that find_terminal searches (4)
  SeqSpace,    \* SEQ_MASK + 1, sequence numbers in a fragment header (16)
  Timeout,     \* R_UDP_TIMEOUT, seconds (40)
  DropPeriod,  \* every DropPeriod-th fragment is dropped on purpose (13)
  MaxMsgSize,  \* MAX_MSG_SIZE, bytes in every fragment but the last (60)
  Packets,     \* number of fragments of each datagram of the peer
  LastLen,     \* bytes in the last fragment of each
  NetCap,      \* fragments on their way, at most
  AskCap,      \* requests on their way, at most
  MaxReplies,  \* bound: requests that the peer answers
  Reorder      \* whether fragments may overtake each other

PktIds == 1..Len(Packets)
Idx    == 0..30

ASSUME RxAssumption ==
  /\ NBufs \in Nat \ {0} /\ MaxPkts \in Nat \ {0} /\ SeqSpace \in Nat \ {0}
  /\ Timeout \in Nat \ {0} /\ DropPeriod \in Nat \ {0}
  /\ MaxMsgSize \in Nat \ {0}
  /\ Packets \in Seq(1..31) /\ LastLen \in [PktIds -> 1..MaxMsgSize]
  /\ NetCap \in Nat \ {0} /\ AskCap \in Nat /\ MaxReplies \in Nat /\ Reorder \in BOOLEAN

VARIABLES
  sent,             \* the last fragment that the peer has sent
  net,              \* fragments on their way
  asked,            \* requests on their way
  nReplies,         \* requests answered so far
  freeBufs,         \* length of fusionThrInFifo
  fusionThrOutFifo, \* fragments received
  pkt_drop_count,   \* modulo DropPeriod
  fragments,        \* fragmentsTable.fragments[0][0..MAX_PKTS]
  last_pkt_seq,
  itx,              \* iot_transmit_routine: pc, fragment in hand, complete packet
  scan,             \* r_udp_req_routine: the slot it is about to dump
  status,           \* "run", or how the process was lost
  pkts_recv,        \* update_stats_pkts_sent adds to this field
  out,              \* the last datagram sent to the device
  twice, from,      \* history variables: slots in which a fragment was stored again,
                    \* and of which datagrams each slot was filled since it was taken
  stored, raced     \* history variables: what the slots should hold

peer   == <<sent, net, asked, nReplies>>
ghosts == <<twice, from, stored, raced>>
vars   == <<peer, freeBufs, fusionThrOutFifo, pkt_drop_count, fragments, last_pkt_seq,
            itx, scan, status, pkts_recv, out, ghosts>>

-------------------------------------------------------------------------------
None    == -1
Slots   == 0..MaxPkts
SeqNums == 0..(SeqSpace - 1)
SeqNumOf(pkt) == pkt % SeqSpace
Frag(p, i) == [pkt |-> p, idx |-> i]
Req(s, i)  == [seqNum |-> s, fragmntLost |-> i]
MsgSeq(m)  == SeqNumOf(m.pkt)

\* The length of a fragment, and of a datagram.
MsgLen(m) == IF m.idx = Packets[m.pkt] - 1 THEN LastLen[m.pkt] ELSE MaxMsgSize
Bytes(p)  == (Packets[p] - 1) * MaxMsgSize + LastLen[p]

\* A cleared slot.  lastTime zero is long ago: ages stop at Timeout + 1.
Ancient == Timeout + 1
Cleared == [used |-> FALSE, frgmntIdx |-> 0, accumulated |-> 0, frgmnts |-> 0,
            frags_mask |-> {}, size |-> 0, data |-> <<>>, age |-> Ancient]

NoOut   == [size |-> 0, data |-> <<>>, missing |-> {}, twice |-> FALSE, from |-> {}]
ItxIdle == [pc |-> "get", msg |-> Frag(1, 0)]

Init ==
  /\ sent = Frag(0, 0) /\ net = <<>> /\ asked = <<>> /\ nReplies = 0
  /\ freeBufs = NBufs
  /\ fusionThrOutFifo = <<>>
  /\ pkt_drop_count = 0
  /\ fragments = [s \in Slots |-> Cleared]
  /\ last_pkt_seq = -1
  /\ itx = ItxIdle
  /\ scan = None
  /\ status = "run"
  /\ pkts_recv = 0
  /\ out = NoOut
  /\ twice = {} /\ from = [s \in Slots |-> {}]
  /\ stored = [s \in Slots |-> {}] /\ raced = FALSE

Running == status = "run"

-------------------------------------------------------------------------------
(* The peer and the network.  A datagram is lost between two actions of any  *)
(* other thread: when it is sent.                                            *)

Succ(m) == IF m.pkt # 0 /\ m.idx + 1 < Packets[m.pkt] THEN Frag(m.pkt, m.idx + 1)
                                                      ELSE Frag(m.pkt + 1, 0)
Transmit(m) == net' = net \/ (Len(net) < NetCap /\ net' = Append(net, m))

PeerSend ==
  /\ Succ(sent).pkt \in PktIds
  /\ sent' = Succ(sent)
  /\ Transmit(sent')
  /\ UNCHANGED <<asked, nReplies, freeBufs, fusionThrOutFifo, pkt_drop_count, fragments,
                 last_pkt_seq, itx, scan, status, pkts_recv, out, ghosts>>

WasSent(p, i) == p < sent.pkt \/ (p = sent.pkt /\ i <= sent.idx)
Answers(r)    == {p \in PktIds : /\ SeqNumOf(p) = r.seqNum
                                 /\ r.fragmntLost \in 0..(Packets[p] - 1)
                                 /\ WasSent(p, r.fragmntLost)}

\* The peer answers a request with a fragment that has that identity, or it does
\* not: the request was lost, the fragment is no longer kept, or the reply is lost.
PeerReply ==
  /\ asked # <<>>
  /\ asked' = Tail(asked)
  /\ \/ /\ \E p \in Answers(Head(asked)) : Transmit(Frag(p, Head(asked).fragmntLost))
        /\ nReplies < MaxReplies
        /\ nReplies' = nReplies + 1
     \/ UNCHANGED <<net, nReplies>>
  /\ UNCHANGED <<sent, freeBufs, fusionThrOutFifo, pkt_drop_count, fragments,
                 last_pkt_seq, itx, scan, status, pkts_recv, out, ghosts>>

-------------------------------------------------------------------------------
(* fusion_receive_routine *)

\* The fragment is copied into a free buffer, for which Fifo_get waits.  Every
\* DropPeriod-th one, from the first on, is dropped with its buffer.
FusionReceive ==
  /\ Running /\ freeBufs > 0
  /\ \E i \in 1..Len(net) :
       /\ i = 1 \/ Reorder
       /\ net' = RemoveAt(net, i)
       /\ fusionThrOutFifo' = IF pkt_drop_count # 0 THEN Append(fusionThrOutFifo, net[i])
                                                    ELSE fusionThrOutFifo
  /\ freeBufs' = freeBufs - 1
  /\ pkt_drop_count' = (pkt_drop_count + 1) % DropPeriod
  /\ UNCHANGED <<sent, asked, nReplies, fragments, last_pkt_seq, itx, scan, status,
                 pkts_recv, out, ghosts>>

-------------------------------------------------------------------------------
(* iot_transmit_routine: defragment *)

\* Faulty variants below: the loop over the missing fragments runs one too far, or
\* begins one too late.
SlotIndex(m) == MsgSeq(m)

\* find_terminal, on a sequence number: -1 is 255 as a uint8_t.  Faulty variant: it
\* stops one slot too early.
FoundShort(s) == s \in 0..(MaxPkts - 2) /\ fragments[s].used
Found(s) == s \in 0..(MaxPkts - 1) /\ fragments[s].used

MissingUpTo(s) == {i \in 0..fragments[s].frgmnts : i \notin fragments[s].frags_mask}
MissingFromOne(s) == {i \in 1..(fragments[s].frgmnts - 1) : i \notin fragments[s].frags_mask}
Missing(s) == {i \in 0..(fragments[s].frgmnts - 1) : i \notin fragments[s].frags_mask}

\* hub_send_req on the nonblocking socket, as many requests as it takes.
Ask(rs) == asked' = asked \o SubSeq(rs, 1, Min({Len(rs), AskCap - Len(asked)}))

\* rrudp_complete_last_pkt: requests for all that the last packet lacks, in order.
InOrder(idxs) == {q \in [1..Cardinality(idxs) -> idxs] :
                    \A j, k \in DOMAIN q : j < k => q[j] < q[k]}
CompleteLastPkt(s) ==
  IF Found(s) THEN \E q \in InOrder(Missing(s)) : Ask([k \in DOMAIN q |-> Req(s, q[k])])
              ELSE UNCHANGED asked

\* Fifo_get, and a slot in use for this sequence number.
DefragFind ==
  /\ Running /\ itx.pc = "get" /\ fusionThrOutFifo # <<>>
  /\ LET m == Head(fusionThrOutFifo)
     IN  /\ Found(SlotIndex(m))
         /\ last_pkt_seq' = MsgSeq(m)
         /\ itx' = [pc |-> "store", msg |-> m]
  /\ fusionThrOutFifo' = Tail(fusionThrOutFifo)
  /\ UNCHANGED <<peer, freeBufs, pkt_drop_count, fragments, scan, status, pkts_recv,
                 out, ghosts>>

\* Faulty variants: the size is not reset; the mask is not.
OpenKeepingSize(s) == [fragments EXCEPT ![s].used = TRUE, ![s].frgmntIdx = 0,
                                        ![s].accumulated = 0, ![s].frgmnts = 0,
                                        ![s].frags_mask = {}]
OpenKeepingMask(s) == [fragments EXCEPT ![s].used = TRUE, ![s].frgmntIdx = 0,
                                        ![s].accumulated = 0, ![s].frgmnts = 0,
                                        ![s].size = 0]

\* get_freeFragment: neither the data nor lastTime is reset.
Open(s) == [fragments EXCEPT ![s].used = TRUE, ![s].frgmntIdx = 0, ![s].accumulated = 0,
                             ![s].frgmnts = 0, ![s].frags_mask = {}, ![s].size = 0]

\* No slot in use: get_freeFragment takes the one with this index.  When the last
\* fragment was of another packet, that one is completed first.
DefragCreate ==
  /\ Running /\ itx.pc = "get" /\ fusionThrOutFifo # <<>>
  /\ LET m == Head(fusionThrOutFifo)
         s == SlotIndex(m)
     IN  /\ ~Found(s) /\ s \in Slots /\ ~fragments[s].used
         /\ fragments' = Open(s)
         /\ IF last_pkt_seq # MsgSeq(m) THEN CompleteLastPkt(last_pkt_seq)
                                        ELSE UNCHANGED asked
         /\ itx' = [pc |-> "store", msg |-> m]
         /\ twice' = twice \ {s} /\ from' = [from EXCEPT ![s] = {}]
  /\ fusionThrOutFifo' = Tail(fusionThrOutFifo)
  /\ UNCHANGED <<sent, net, nReplies, freeBufs, pkt_drop_count, last_pkt_seq, scan,
                 status, pkts_recv, out, stored, raced>>

\* A sequence number that find_terminal refuses.  The slot after the last one can
\* be taken once; then there is no handle, and memset(NULL) follows.  Beyond it,
\* get_freeFragment is outside the table: what happens then is not defined.
DefragLost ==
  /\ Running /\ itx.pc = "get" /\ fusionThrOutFifo # <<>>
  /\ LET s == SlotIndex(Head(fusionThrOutFifo))
     IN  /\ ~Found(s)
         /\ \/ s \in Slots /\ fragments[s].used /\ status' = "null"
            \/ s \notin Slots /\ status' = "overrun"
  /\ fusionThrOutFifo' = Tail(fusionThrOutFifo)
  /\ UNCHANGED <<peer, freeBufs, pkt_drop_count, fragments, last_pkt_seq, itx, scan,
                 pkts_recv, out, ghosts>>

\* The buffer is back in fusionThrInFifo.  Faulty variant: it is put there twice.
PutBackTwice == freeBufs' = freeBufs + 2 /\ pkts_recv' = pkts_recv + 1
PutBack == freeBufs' = freeBufs + 1 /\ pkts_recv' = pkts_recv + 1

\* Faulty variants: complete when the last fragment arrives, and < for <=.
CompleteAtLast(f, m) == m.idx + 1 = f.frgmnts
CompleteBeyond(f, m) == f.frgmnts < f.accumulated
Complete(f, m) == f.frgmnts <= f.accumulated

\* The bytes of the fragment overwrite those in its place of the packet.
Copied(m, data) ==
  [i \in DOMAIN data \cup {m.idx} |-> IF i = m.idx THEN m.pkt ELSE data[i]]

\* The fragment is stored in the slot found, whether it is still in use or not.  Its
\* length is added to the size of the packet, also when it was there already.
DefragStore ==
  /\ Running /\ itx.pc = "store"
  /\ LET m == itx.msg
         s == SlotIndex(m)
         f == [fragments[s] EXCEPT
                 !.data = Copied(m, @), !.size = @ + MsgLen(m), !.accumulated = @ + 1,
                 !.frgmnts = Packets[m.pkt], !.frags_mask = @ \cup {m.idx},
                 !.age = 0, !.frgmntIdx = m.idx]
     IN  /\ fragments' = [fragments EXCEPT ![s] = f]
         /\ last_pkt_seq' = MsgSeq(m)
         /\ IF m.idx > fragments[s].frgmntIdx + 1 THEN Ask(<<Req(MsgSeq(m), m.idx - 1)>>)
                                                  ELSE UNCHANGED asked
         /\ IF Complete(f, m)
            THEN itx' = [itx EXCEPT !.pc = "send"] /\ UNCHANGED <<freeBufs, pkts_recv>>
            ELSE itx' = ItxIdle /\ PutBack
         /\ twice' = IF m.idx \in fragments[s].frags_mask THEN twice \cup {s} ELSE twice
         /\ from' = [from EXCEPT ![s] = @ \cup {m.pkt}]
         /\ stored' = [stored EXCEPT ![s] = @ \cup {m.idx}]
         /\ raced' = (raced \/ ~fragments[s].used)
  /\ UNCHANGED <<sent, net, nReplies, fusionThrOutFifo, pkt_drop_count, scan, status, out>>

\* What the device receives: as many bytes of the slot as were counted, written to or
\* not, by the places of the fragments that they lie in.
Datagram(s) ==
  LET f == fragments[s]
      has == DOMAIN f.data
  IN  [size    |-> f.size,
       data    |-> [i \in {j \in Idx : j * MaxMsgSize < f.size} |->
                      IF i \in has THEN f.data[i] ELSE 0],
       missing |-> 0..(f.frgmnts - 1) \ f.frags_mask,
       twice   |-> s \in twice, from |-> from[s]]

\* udp_send to the device, and release_fragment.
IotSend ==
  /\ Running /\ itx.pc = "send"
  /\ out' = Datagram(SlotIndex(itx.msg))
  /\ fragments' = [fragments EXCEPT ![SlotIndex(itx.msg)] = Cleared]
  /\ itx' = ItxIdle /\ PutBack
  /\ stored' = [stored EXCEPT ![SlotIndex(itx.msg)] = {}]
  /\ twice' = twice \ {SlotIndex(itx.msg)} /\ from' = [from EXCEPT ![SlotIndex(itx.msg)] = {}]
  /\ UNCHANGED <<peer, fusionThrOutFifo, pkt_drop_count, last_pkt_seq, scan, status, raced>>

-------------------------------------------------------------------------------
(* r_udp_req_routine, and the clock *)

\* Faulty variant: the loop over the slots stops one too early.
DumpCheckShort(s) ==
  /\ Running /\ scan = None
  /\ s \in 0..(MaxPkts - 2) /\ fragments[s].used /\ fragments[s].age > Timeout
  /\ scan' = s
  /\ UNCHANGED <<peer, freeBufs, fusionThrOutFifo, pkt_drop_count, fragments,
                 last_pkt_seq, itx, status, pkts_recv, out, ghosts>>

\* A slot in use has timed out.
DumpCheck(s) ==
  /\ Running /\ scan = None
  /\ s \in 0..(MaxPkts - 1) /\ fragments[s].used /\ fragments[s].age > Timeout
  /\ scan' = s
  /\ UNCHANGED <<peer, freeBufs, fusionThrOutFifo, pkt_drop_count, fragments,
                 last_pkt_seq, itx, status, pkts_recv, out, ghosts>>

\* It is dumped, whatever happened to it since.
Dump ==
  /\ Running /\ scan # None
  /\ fragments' = [fragments EXCEPT ![scan].used = FALSE]
  /\ stored' = [stored EXCEPT ![scan] = {}]
  /\ raced' = (raced \/ fragments[scan].age <= Timeout)
  /\ scan' = None
  /\ UNCHANGED <<peer, freeBufs, fusionThrOutFifo, pkt_drop_count, last_pkt_seq, itx,
                 status, pkts_recv, out, twice, from>>

Tick ==
  /\ fragments' = [s \in Slots |-> [fragments[s] EXCEPT !.age = Min({@ + 1, Ancient})]]
  /\ UNCHANGED <<peer, freeBufs, fusionThrOutFifo, pkt_drop_count, last_pkt_seq, itx,
                 scan, status, pkts_recv, out, ghosts>>

Defragment == DefragFind \/ DefragCreate \/ DefragLost \/ DefragStore \/ IotSend
Dumping    == Dump \/ \E s \in 0..(MaxPkts - 1) : DumpCheck(s)

Next == PeerSend \/ PeerReply \/ FusionReceive \/ Defragment \/ Dumping \/ Tick

Spec == Init /\ [][Next]_vars

\* The two threads of the terminal that reassemble and dump do not stop, and time
\* passes.  Nothing is assumed of the peer or of the network.
FairSpec == Spec /\ WF_vars(Defragment) /\ WF_vars(Dumping) /\ WF_vars(Tick)

-------------------------------------------------------------------------------
(* Properties *)

Held     == IF itx.pc = "get" THEN 0 ELSE 1
Fragment == [pkt : PktIds, idx : Idx]
Request  == [seqNum : SeqNums, fragmntLost : Idx]
Slot(f)  ==
  /\ f.used \in BOOLEAN /\ f.frgmntIdx \in Idx /\ f.frgmnts \in 0..31
  /\ f.accumulated \in 0..31 /\ f.size \in 0..(31 * MaxMsgSize)
  /\ f.frags_mask \subseteq Idx /\ f.age \in 0..Ancient
  /\ DOMAIN f.data \subseteq Idx /\ \A i \in DOMAIN f.data : f.data[i] \in PktIds

\* The type of every variable: no capacity is exceeded, a packet has room for the
\* fragments that are counted, and every buffer is free, queued, in hand or lost.
TypeOK ==
  /\ net \in Seq(Fragment) /\ Len(net) <= NetCap
  /\ asked \in Seq(Request) /\ Len(asked) <= AskCap
  /\ nReplies \in 0..MaxReplies
  /\ freeBufs \in 0..NBufs
  /\ fusionThrOutFifo \in Seq(Fragment) /\ Len(fusionThrOutFifo) + freeBufs + Held <= NBufs
  /\ pkt_drop_count \in 0..(DropPeriod - 1)
  /\ DOMAIN fragments = Slots /\ \A s \in Slots : Slot(fragments[s])
  /\ last_pkt_seq \in SeqNums \cup {-1}
  /\ itx.pc \in {"get", "store", "send"} /\ (itx.pc # "get" => itx.msg \in Fragment)
  /\ scan \in 0..(MaxPkts - 1) \cup {None}
  /\ status \in {"run", "null", "overrun"}
  /\ pkts_recv \in Nat
  /\ twice \subseteq Slots /\ from \in [Slots -> SUBSET PktIds] /\ raced \in BOOLEAN

\* A fragment that was stored stays in its slot until its packet is sent to the
\* device or dumped: a slot is taken anew only when nothing is in it.  The one
\* exception is the race of r_udp_req_routine with a fragment that comes late.
StoredIsKept ==
  ~raced => \A s \in Slots :
    stored[s] # {} => fragments[s].used /\ fragments[s].frags_mask = stored[s]

\* No packet that has all its fragments is left waiting in its slot.
CompleteIsSent ==
  \A s \in Slots :
    LET f == fragments[s]
    IN  (f.used /\ f.frags_mask # {} /\ ~(itx.pc = "send" /\ SlotIndex(itx.msg) = s)) =>
          f.frags_mask # 0..(f.frgmnts - 1)

\* What is sent to the device lacks a fragment only if another was stored twice in
\* its slot since the slot was taken (it was counted for the one that lacks), or if
\* fragments of several packets, of different sizes, met in the slot.
IncompleteOnlyIfTwice ==
  out.missing # {} => out.twice \/ \A p \in PktIds : out.from # {p}

\* Fragments of several datagrams meet in what the device receives only if their
\* sequence numbers are the same, a whole turn apart.  What is of one datagram has all
\* that arrived in its place and, unless a fragment was counted twice, the size of
\* that datagram and each of its fragments, however they were mixed on the way.
SentIsOneDatagram ==
  /\ \A p, q \in out.from : SeqNumOf(p) = SeqNumOf(q)
  /\ \A p \in PktIds : out.from = {p} =>
       /\ \A i \in DOMAIN out.data : i \in 0..(Packets[p] - 1) \ out.missing => out.data[i] = p
       /\ ~out.twice => out.size = Bytes(p) /\ DOMAIN out.data = 0..(Packets[p] - 1)

\* Every request asks for a fragment of a packet that the peer has begun to send,
\* whatever was lost, overtaken or dumped in between.  The fragment itself may not
\* have been sent: a late fragment of an earlier packet makes defragment complete
\* the one that is still arriving.
AskedExists ==
  \A k \in 1..Len(asked) : \E p \in 1..sent.pkt :
    SeqNumOf(p) = asked[k].seqNum /\ asked[k].fragmntLost < Packets[p]

\* The process is lost only to the sequence numbers for which the table has no slot:
\* it writes to NULL when the slot after the last is taken and another fragment comes
\* for it, and beyond the table for the numbers that follow.  Nothing that is lost,
\* repeated or dumped does that.
LostOnlyBeyondTable ==
  /\ status = "null" =>
       fragments[MaxPkts].used /\ \E p \in 1..sent.pkt : SeqNumOf(p) = MaxPkts
  /\ status = "overrun" => \E p \in 1..sent.pkt : SeqNumOf(p) > MaxPkts

\* Nothing takes a buffer out of circulation but the simulated loss, one in every
\* DropPeriod fragments, and the end of the process; and none is put back twice.
InUse == freeBufs + Len(fusionThrOutFifo) + Held
BuffersLeaveByLoss ==
  [][\/ InUse' = InUse
     \/ InUse' = InUse - 1 /\ (pkt_drop_count = 0 \/ status' # status)]_vars

\* Every packet that find_terminal knows leaves its slot, complete or dumped,
\* unless the process is lost.
SlotsReleased ==
  \A s \in 0..(MaxPkts - 1) :
    (Running /\ fragments[s].used) ~> (~Running \/ ~fragments[s].used)

-------------------------------------------------------------------------------
(* What the comments of the program say and the code does not do *)

\* "We provide at most 16 pkts per Terminal": a slot for each sequence number.
SlotForEverySeqNum == status = "run"

\* "Returns 0 when the entire message is colated": what is sent to the device is
\* the entire message.
EntireMessage == out.missing = {}

\* "Simulate packet loss: hub to terminal": the fragment is lost, not its buffer.
BuffersConserved == Running => InUse = NBufs
===============================================================================
