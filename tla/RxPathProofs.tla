---------------------------- MODULE RxPathProofs ----------------------------
(***************************************************************************)
(* Proofs about the reassembly of RxPath, for every number of slots and of *)
(* sequence numbers, every list of datagrams, and whatever the network     *)
(* loses, repeats or reorders: what is stored is kept, what is complete is *)
(* sent, what is sent is whole and from one datagram, and neither buffers  *)
(* nor the process are lost, with the exceptions that the properties name. *)
(***************************************************************************)
EXTENDS RxPath, TLAPS, SequenceTheorems, FiniteSetTheorems

(* Sequences of fragments *)

LEMMA SeqGrows ==
  ASSUME NEW S, NEW T, S \subseteq T, NEW s \in Seq(S)
  PROVE  s \in Seq(T)
<1>1. s \in [1..Len(s) -> S] /\ Len(s) \in Nat
  OBVIOUS
<1>2. s \in [1..Len(s) -> T]
  BY <1>1
<1> QED BY <1>1, <1>2

LEMMA RemovedInSeq ==
  ASSUME NEW S, NEW s \in Seq(S), NEW i \in 1..Len(s)
  PROVE  RemoveAt(s, i) \in Seq(S) /\ Len(RemoveAt(s, i)) = Len(s) - 1 /\ s[i] \in S
<1>0. Len(s) \in Nat
  BY LenProperties
<1>1. SubSeq(s, 1, i - 1) \in Seq(S) /\ Len(SubSeq(s, 1, i - 1)) = i - 1
  <2>1. Len(s) \in Nat /\ \A j \in 1..(i - 1) : j \in 1..Len(s)
    BY LenProperties
  <2> QED BY <2>1, SubSeqProperties
<1>2. SubSeq(s, i + 1, Len(s)) \in Seq(S) /\ Len(SubSeq(s, i + 1, Len(s))) = Len(s) - i
  BY LenProperties, SubSeqProperties
<1>3. s[i] \in S
  BY ElementOfSeq
<1> DEFINE a == SubSeq(s, 1, i - 1)
           b == SubSeq(s, i + 1, Len(s))
<1>4. RemoveAt(s, i) = a \o b
  BY DEF RemoveAt
<1> HIDE DEF a, b
<1>5. a \in Seq(S) /\ b \in Seq(S) /\ Len(a) = i - 1 /\ Len(b) = Len(s) - i
  BY <1>1, <1>2 DEF a, b
<1>6. a \o b \in Seq(S) /\ Len(a \o b) = Len(a) + Len(b)
  BY <1>5, ConcatProperties
<1> QED BY <1>0, <1>3, <1>4, <1>5, <1>6

LEMMA MinTwo ==
  ASSUME NEW a \in Int, NEW b \in Int
  PROVE  Min({a, b}) \in {a, b} /\ Min({a, b}) <= a /\ Min({a, b}) <= b
<1>1. \E x \in {a, b} : \A y \in {a, b} : x <= y
  <2>1. CASE a <= b
    BY <2>1
  <2>2. CASE b <= a
    BY <2>2
  <2> QED BY <2>1, <2>2
<1> QED BY <1>1 DEF Min

-------------------------------------------------------------------------------
(* Where the fragments in flight come from *)

\* The fragments of the first n datagrams of the peer.
Known(n) == {m \in [pkt : PktIds, idx : Idx] : m.pkt <= n /\ m.idx < Packets[m.pkt]}

FlowInv ==
  /\ sent \in [pkt : 0..Len(Packets), idx : Idx]
  /\ net \in Seq(Known(sent.pkt)) /\ fusionThrOutFifo \in Seq(Known(sent.pkt))
  /\ itx \in [pc : {"get", "store", "send"}, msg : [pkt : Nat, idx : Nat]]
  /\ itx.pc # "get" => itx.msg \in Known(sent.pkt) /\ SlotIndex(itx.msg) \in Slots

LEMMA PacketSizes == Len(Packets) \in Nat /\ \A p \in PktIds : Packets[p] \in 1..31
BY RxAssumption, LenProperties, ElementOfSeq DEF RxAssumption, PktIds

\* Every fragment of a datagram has MaxMsgSize bytes, and the last one no more.
LEMMA FragmentLengths ==
  /\ MaxMsgSize \in Nat \ {0} /\ \A p \in PktIds : LastLen[p] \in 1..MaxMsgSize
  /\ \A m : m.pkt \in PktIds => MsgLen(m) \in 1..MaxMsgSize
BY RxAssumption DEF MsgLen

LEMMA KnownGrows ==
  ASSUME NEW m \in Int, NEW n \in Int, m <= n
  PROVE  Known(m) \subseteq Known(n)
BY PacketSizes DEF Known, PktIds

LEMMA KnownShape ==
  ASSUME NEW n, NEW m \in Known(n)
  PROVE  /\ m \in [pkt : Nat, idx : Nat] /\ m.pkt \in PktIds /\ m.idx \in Idx
         /\ m.pkt <= n /\ m.idx < Packets[m.pkt]
<1>1. /\ m \in [pkt : PktIds, idx : Idx] /\ m.pkt \in PktIds /\ m.idx \in Idx
      /\ m.pkt <= n /\ m.idx < Packets[m.pkt]
  BY DEF Known
<1>2. PktIds \subseteq Nat /\ Idx \subseteq Nat
  BY PacketSizes DEF PktIds, Idx
<1> QED BY <1>1, <1>2

LEMMA InitFlow == Init => FlowInv
<1> SUFFICES ASSUME Init PROVE FlowInv
  OBVIOUS
<1>1. sent = [pkt |-> 0, idx |-> 0] /\ sent \in [pkt : 0..Len(Packets), idx : Idx]
  BY PacketSizes DEF Init, Frag, Idx
<1>2. net \in Seq(Known(sent.pkt)) /\ fusionThrOutFifo \in Seq(Known(sent.pkt))
  BY EmptySeq DEF Init
<1>3. itx = [pc |-> "get", msg |-> [pkt |-> 1, idx |-> 0]]
  BY DEF Init, ItxIdle, Frag
<1> QED BY <1>1, <1>2, <1>3 DEF FlowInv

\* The peer never takes back a datagram.
LEMMA SentSteps ==
  ASSUME FlowInv, [Next]_vars
  PROVE  /\ sent' \in [pkt : 0..Len(Packets), idx : Idx] /\ sent.pkt <= sent'.pkt
         /\ PeerSend => sent' \in Known(sent'.pkt)
         /\ ~PeerSend => sent' = sent
<1>0. sent \in [pkt : 0..Len(Packets), idx : Idx] /\ sent.pkt \in 0..Len(Packets)
      /\ sent.idx \in Idx
  BY DEF FlowInv
<1>1. ASSUME PeerSend
      PROVE  sent' \in Known(sent'.pkt) /\ sent.pkt <= sent'.pkt
  <2>1. sent' = Succ(sent) /\ sent'.pkt \in PktIds
    BY <1>1 DEF PeerSend
  <2>2. CASE sent.pkt # 0 /\ sent.idx + 1 < Packets[sent.pkt]
    <3>1. sent' = [pkt |-> sent.pkt, idx |-> sent.idx + 1] /\ sent.pkt \in PktIds
      BY <2>1, <2>2 DEF Succ, Frag
    <3>2. sent.idx + 1 \in Idx
      <4>1. PICK n \in 1..31 : n = Packets[sent.pkt]
        BY <3>1, PacketSizes
      <4>2. PICK i \in 0..30 : i = sent.idx
        BY <1>0 DEF Idx
      <4>3. i + 1 \in 0..30
        BY <2>2, <4>1, <4>2
      <4> QED BY <4>2, <4>3 DEF Idx
    <3> QED BY <1>0, <2>2, <3>1, <3>2 DEF Known
  <2>3. CASE ~(sent.pkt # 0 /\ sent.idx + 1 < Packets[sent.pkt])
    <3>1. sent' = [pkt |-> sent.pkt + 1, idx |-> 0] /\ sent.pkt + 1 \in PktIds
      BY <2>1, <2>3 DEF Succ, Frag
    <3>2. PICK p \in PktIds : p = sent.pkt + 1
      BY <3>1
    <3>3. 0 \in Idx /\ 0 < Packets[p]
      <4>1. PICK n \in 1..31 : n = Packets[p]
        BY PacketSizes
      <4> QED BY <4>1 DEF Idx
    <3>4. p <= p /\ sent.pkt <= p
      BY <1>0, <3>2, PacketSizes DEF PktIds
    <3>5. sent' = [pkt |-> p, idx |-> 0]
      BY <3>1, <3>2
    <3> QED BY <3>3, <3>4, <3>5 DEF Known
  <2> QED BY <2>2, <2>3
<1>2. ASSUME ~PeerSend PROVE sent' = sent
  BY <1>2 DEF Next, Defragment, Dumping, vars, peer, PeerReply, FusionReceive, DefragFind,
     DefragCreate, DefragLost, DefragStore, IotSend, DumpCheck, Dump, Tick
<1>3. CASE PeerSend
  <2>1. sent' \in [pkt : 0..Len(Packets), idx : Idx]
    BY <1>1, <1>3 DEF Known, PktIds
  <2> QED BY <1>1, <1>3, <2>1
<1>4. CASE ~PeerSend
  BY <1>0, <1>2, <1>4
<1> QED BY <1>3, <1>4

LEMMA StepFlow == FlowInv /\ [Next]_vars => FlowInv'
<1> SUFFICES ASSUME FlowInv, [Next]_vars PROVE FlowInv'
  OBVIOUS
<1> DEFINE S == Known(sent.pkt)
           T == Known(sent'.pkt)
<1>1. S \subseteq T /\ sent' \in [pkt : 0..Len(Packets), idx : Idx]
  <2>1. sent.pkt \in Int /\ sent'.pkt \in Int /\ sent.pkt <= sent'.pkt
    BY SentSteps, PacketSizes DEF FlowInv
  <2> QED BY <2>1, SentSteps, KnownGrows
<1>2. /\ net \in Seq(S) /\ net \in Seq(T) /\ fusionThrOutFifo \in Seq(S)
      /\ fusionThrOutFifo \in Seq(T)
      /\ itx \in [pc : {"get", "store", "send"}, msg : [pkt : Nat, idx : Nat]]
      /\ itx.pc # "get" => itx.msg \in T /\ SlotIndex(itx.msg) \in Slots
  <2>1. net \in Seq(S) /\ fusionThrOutFifo \in Seq(S)
    BY DEF FlowInv
  <2>2. net \in Seq(T) /\ fusionThrOutFifo \in Seq(T)
    BY <1>1, <2>1, SeqGrows
  <2>3. itx.pc # "get" => itx.msg \in T
    BY <1>1 DEF FlowInv
  <2>4. /\ itx \in [pc : {"get", "store", "send"}, msg : [pkt : Nat, idx : Nat]]
        /\ itx.pc # "get" => SlotIndex(itx.msg) \in Slots
    BY DEF FlowInv
  <2> QED BY <2>1, <2>2, <2>3, <2>4
<1> HIDE DEF S, T
<1>3. ASSUME NEW m \in T, Transmit(m) PROVE net' \in Seq(T)
  BY <1>2, <1>3, AppendProperties, SMTT(30) DEF Transmit
<1>4. net' \in Seq(T)
  <2>1. CASE PeerSend
    BY <1>3, <2>1, SentSteps DEF PeerSend, T
  <2>2. CASE PeerReply
    <3>1. \/ net' = net
          \/ \E p \in Answers(Head(asked)) : Transmit(Frag(p, Head(asked).fragmntLost))
      BY <2>2 DEF PeerReply
    <3>2. ASSUME NEW p \in Answers(Head(asked))
          PROVE  Frag(p, Head(asked).fragmntLost) \in T
      <4> DEFINE i == Head(asked).fragmntLost
      <4>1. p \in PktIds /\ i \in 0..(Packets[p] - 1) /\ (p < sent.pkt \/ p = sent.pkt)
        BY <3>2 DEF Answers, WasSent
      <4> HIDE DEF i
      <4>2. PICK n \in 1..31 : n = Packets[p]
        BY <4>1, PacketSizes
      <4>3. i \in Idx /\ i < Packets[p] /\ p <= sent.pkt
        <5>1. p \in Int /\ sent.pkt \in Int
          BY <4>1, PacketSizes DEF PktIds, FlowInv
        <5> QED BY <4>1, <4>2, <5>1 DEF Idx
      <4>4. [pkt |-> p, idx |-> i] \in S
        BY <4>1, <4>3 DEF Known, S
      <4> QED BY <1>1, <4>4 DEF Frag, i
    <3> QED BY <1>2, <1>3, <3>1, <3>2
  <2>3. CASE FusionReceive
    <3>1. PICK i \in 1..Len(net) : net' = RemoveAt(net, i)
      BY <2>3 DEF FusionReceive
    <3> QED BY <1>2, <3>1, RemovedInSeq
  <2>4. CASE ~PeerSend /\ ~PeerReply /\ ~FusionReceive
    <3>1. net' = net
      BY <2>4 DEF Next, Defragment, Dumping, vars, peer, DefragFind, DefragCreate,
         DefragLost, DefragStore, IotSend, DumpCheck, Dump, Tick
    <3> QED BY <1>2, <3>1
  <2> QED BY <2>1, <2>2, <2>3, <2>4
<1>5. fusionThrOutFifo' \in Seq(T)
  <2>1. CASE FusionReceive
    <3>1. PICK i \in 1..Len(net) :
             \/ fusionThrOutFifo' = fusionThrOutFifo
             \/ fusionThrOutFifo' = Append(fusionThrOutFifo, net[i])
      BY <2>1 DEF FusionReceive
    <3>2. net[i] \in T
      BY <1>2, RemovedInSeq
    <3>3. Append(fusionThrOutFifo, net[i]) \in Seq(T)
      BY <1>2, <3>2, AppendProperties
    <3> QED BY <1>2, <3>1, <3>3
  <2>2. CASE DefragFind \/ DefragCreate \/ DefragLost
    <3>1. fusionThrOutFifo # <<>> /\ fusionThrOutFifo' = Tail(fusionThrOutFifo)
      BY <2>2 DEF DefragFind, DefragCreate, DefragLost
    <3> QED BY <1>2, <3>1, HeadTailProperties
  <2>3. CASE ~FusionReceive /\ ~DefragFind /\ ~DefragCreate /\ ~DefragLost
    <3>1. fusionThrOutFifo' = fusionThrOutFifo
      BY <2>3 DEF Next, Defragment, Dumping, vars, peer, PeerSend, PeerReply, DefragStore,
         IotSend, DumpCheck, Dump, Tick
    <3> QED BY <1>2, <3>1
  <2> QED BY <2>1, <2>2, <2>3
<1>6. /\ itx' \in [pc : {"get", "store", "send"}, msg : [pkt : Nat, idx : Nat]]
      /\ itx'.pc # "get" => itx'.msg \in T /\ SlotIndex(itx'.msg) \in Slots
  <2>1. CASE DefragFind \/ DefragCreate
    <3>1. /\ fusionThrOutFifo # <<>> /\ itx' = [pc |-> "store", msg |-> Head(fusionThrOutFifo)]
          /\ Found(SlotIndex(Head(fusionThrOutFifo))) \/ SlotIndex(Head(fusionThrOutFifo)) \in Slots
      BY <2>1 DEF DefragFind, DefragCreate
    <3>2. Head(fusionThrOutFifo) \in T
      BY <1>2, <3>1, HeadTailProperties
    <3>3. Head(fusionThrOutFifo) \in [pkt : Nat, idx : Nat]
      BY <3>2, KnownShape DEF T
    <3>4. SlotIndex(Head(fusionThrOutFifo)) \in Slots
      BY <3>1, RxAssumption DEF Found, Slots, RxAssumption
    <3> QED BY <3>1, <3>2, <3>3, <3>4
  <2>2. CASE DefragStore \/ IotSend
    <3>1. \/ itx' = [itx EXCEPT !.pc = "send"] /\ itx.pc = "store"
          \/ itx' = ItxIdle
      BY <2>2 DEF DefragStore, IotSend
    <3>2. CASE itx' = ItxIdle
      <4>1. itx' = [pc |-> "get", msg |-> [pkt |-> 1, idx |-> 0]]
        BY <3>2 DEF ItxIdle, Frag
      <4> QED BY <4>1
    <3>3. CASE itx' = [itx EXCEPT !.pc = "send"] /\ itx.pc = "store"
      <4>1. itx'.pc = "send" /\ itx'.msg = itx.msg
        BY <1>2, <3>3
      <4> QED BY <1>2, <3>3, <4>1
    <3> QED BY <3>1, <3>2, <3>3
  <2>3. CASE ~DefragFind /\ ~DefragCreate /\ ~DefragStore /\ ~IotSend
    <3>1. itx' = itx
      BY <2>3 DEF Next, Defragment, Dumping, vars, peer, PeerSend, PeerReply, FusionReceive,
         DefragLost, DumpCheck, Dump, Tick
    <3> QED BY <1>2, <3>1
  <2> QED BY <2>1, <2>2, <2>3
<1>7. (SlotIndex(itx.msg) \in Slots)' <=> SlotIndex(itx'.msg) \in Slots
  BY DEF SlotIndex, MsgSeq, SeqNumOf
<1> QED BY <1>1, <1>4, <1>5, <1>6, <1>7 DEF FlowInv, T

-------------------------------------------------------------------------------
(* The slots *)

Copies   == UNION {[D -> PktIds] : D \in SUBSET Idx}
SlotType == [used : BOOLEAN, frgmntIdx : Idx, accumulated : Nat, frgmnts : 0..31,
             frags_mask : SUBSET Idx, size : Nat, data : Copies, age : 0..Ancient]

SlotsTyped ==
  /\ fragments \in [Slots -> SlotType]
  /\ scan # None => scan \in Slots

\* The slot f after the fragment m is stored in it.
Filled(f, m) ==
  [f EXCEPT !.data = Copied(m, @), !.size = @ + MsgLen(m), !.accumulated = @ + 1,
            !.frgmnts = Packets[m.pkt], !.frags_mask = @ \cup {m.idx},
            !.age = 0, !.frgmntIdx = m.idx]

\* What r_udp_req_routine and the clock leave alone in a slot.
Alike(f, g) == /\ g.accumulated = f.accumulated /\ g.frgmnts = f.frgmnts
               /\ g.frags_mask = f.frags_mask /\ g.size = f.size /\ g.data = f.data

LEMMA ClearedTyped == Cleared \in SlotType
<1>1. <<>> \in [{} -> PktIds] /\ {} \in SUBSET Idx
  OBVIOUS
<1>2. <<>> \in Copies
  BY <1>1 DEF Copies
<1>3. Ancient \in 0..Ancient /\ 0 \in Idx
  BY RxAssumption DEF Ancient, RxAssumption, Idx
<1> QED BY <1>2, <1>3 DEF Cleared, SlotType

LEMMA ResetTyped ==
  ASSUME NEW f \in SlotType, NEW u \in BOOLEAN, NEW x \in Idx, NEW a \in Nat,
         NEW n \in 0..31, NEW k \in SUBSET Idx, NEW z \in Nat
  PROVE  [f EXCEPT !.used = u, !.frgmntIdx = x, !.accumulated = a, !.frgmnts = n,
                   !.frags_mask = k, !.size = z] \in SlotType
BY DEF SlotType

LEMMA OpenedTyped ==
  ASSUME NEW f \in SlotType
  PROVE  [f EXCEPT !.used = TRUE, !.frgmntIdx = 0, !.accumulated = 0, !.frgmnts = 0,
                   !.frags_mask = {}, !.size = 0] \in SlotType
<1>1. TRUE \in BOOLEAN /\ 0 \in Idx /\ 0 \in Nat /\ 0 \in 0..31 /\ {} \in SUBSET Idx
  BY DEF Idx
<1> QED BY <1>1, ResetTyped, Zenon

\* A fragment that is stored overwrites what was in its place.
LEMMA FilledTyped ==
  ASSUME NEW f \in SlotType, NEW m, m.pkt \in PktIds, m.idx \in Idx
  PROVE  LET g == Filled(f, m)
         IN  /\ g \in SlotType /\ g.used = f.used
             /\ g.accumulated = f.accumulated + 1 /\ g.frgmnts = Packets[m.pkt]
             /\ g.frags_mask = f.frags_mask \cup {m.idx} /\ g.size = f.size + MsgLen(m)
             /\ DOMAIN g.data = DOMAIN f.data \cup {m.idx}
             /\ g.data[m.idx] = m.pkt
             /\ \A i \in DOMAIN f.data : i # m.idx => g.data[i] = f.data[i]
<1> DEFINE d == Copied(m, f.data)
           g == Filled(f, m)
<1>1. PICK D \in SUBSET Idx : f.data \in [D -> PktIds]
  BY DEF SlotType, Copies
<1>2. d = [x \in {m.idx} \cup DOMAIN f.data |-> IF x = m.idx THEN m.pkt ELSE f.data[x]]
  BY DEF Copied
<1>3. /\ d \in [D \cup {m.idx} -> PktIds] /\ DOMAIN d = DOMAIN f.data \cup {m.idx}
      /\ d[m.idx] = m.pkt /\ \A i \in DOMAIN f.data : i # m.idx => d[i] = f.data[i]
  BY <1>1, <1>2
<1>4. d \in Copies
  BY <1>1, <1>3 DEF Copies
<1>5. Packets[m.pkt] \in 0..31 /\ 0 \in 0..Ancient /\ m.idx \in Idx
  <2>1. PICK n \in 1..31 : n = Packets[m.pkt]
    BY PacketSizes
  <2> QED BY <2>1, RxAssumption DEF Ancient, RxAssumption
<1>6. g = [f EXCEPT !.data = d, !.size = f.size + MsgLen(m), !.accumulated = f.accumulated + 1,
                    !.frgmnts = Packets[m.pkt], !.frags_mask = f.frags_mask \cup {m.idx},
                    !.age = 0, !.frgmntIdx = m.idx]
  BY DEF Filled, SlotType
<1>8. /\ f.accumulated + 1 \in Nat /\ f.frags_mask \cup {m.idx} \in SUBSET Idx
      /\ f.size + MsgLen(m) \in Nat
  <2>1. PICK l \in Nat : l = MsgLen(m)
    BY FragmentLengths
  <2> QED BY <2>1 DEF SlotType
<1> HIDE DEF d, g
<1>7. /\ g \in SlotType /\ g.used = f.used /\ g.data = d
      /\ g.accumulated = f.accumulated + 1 /\ g.frgmnts = Packets[m.pkt]
      /\ g.frags_mask = f.frags_mask \cup {m.idx} /\ g.size = f.size + MsgLen(m)
  BY <1>4, <1>5, <1>6, <1>8 DEF SlotType
<1> QED BY <1>3, <1>7 DEF g

\* What a step does to a slot.
LEMMA SlotSteps ==
  ASSUME FlowInv, SlotsTyped, [Next]_vars, NEW s \in Slots
  PROVE  LET f == fragments[s]
             g == fragments'[s]
             m == itx.msg
         IN  /\ fragments' \in [Slots -> SlotType]
             /\ \/ DefragStore /\ s = SlotIndex(m) /\ g = Filled(f, m)
                \/ IotSend /\ s = SlotIndex(m) /\ g = Cleared
                \/ /\ DefragCreate /\ s = SlotIndex(Head(fusionThrOutFifo)) /\ ~f.used
                   /\ g.used /\ g.accumulated = 0 /\ g.frgmnts = 0 /\ g.frags_mask = {}
                   /\ g.size = 0 /\ g.data = f.data /\ twice' = twice \ {s}
                \/ Dump /\ s = scan /\ Alike(f, g) /\ ~g.used
                \/ /\ g.used = f.used /\ Alike(f, g)
                   /\ DefragStore \/ IotSend => s # SlotIndex(m)
                   /\ DefragCreate => s # SlotIndex(Head(fusionThrOutFifo))
                   /\ Dump => s # scan
<1> DEFINE f == fragments[s]
           g == fragments'[s]
<1>0. fragments \in [Slots -> SlotType] /\ f \in SlotType /\ \A t \in Slots : fragments[t] \in SlotType
  BY DEF SlotsTyped
<1>1. CASE DefragStore
  <2> DEFINE m == itx.msg
  <2>1. /\ fragments' = [fragments EXCEPT ![SlotIndex(m)] = Filled(fragments[SlotIndex(m)], m)]
        /\ itx.pc = "store"
    BY <1>1 DEF DefragStore, Filled
  <2>2. SlotIndex(m) \in Slots /\ m.pkt \in PktIds /\ m.idx \in Idx
    BY <2>1, KnownShape DEF FlowInv
  <2> HIDE DEF m
  <2>3. Filled(fragments[SlotIndex(m)], m) \in SlotType
    BY <1>0, <2>2, FilledTyped
  <2>4. fragments' \in [Slots -> SlotType]
    BY <1>0, <2>1, <2>3
  <2>5. ~IotSend /\ ~DefragCreate /\ ~Dump
    BY <1>1, <2>1 DEF IotSend, DefragCreate, DefragStore, Dump
  <2>6. CASE s = SlotIndex(m)
    BY <1>0, <1>1, <2>1, <2>4, <2>6 DEF m
  <2>7. CASE s # SlotIndex(m)
    BY <1>0, <2>1, <2>4, <2>5, <2>7 DEF Alike, m
  <2> QED BY <2>6, <2>7
<1>2. CASE IotSend
  <2>1. fragments' = [fragments EXCEPT ![SlotIndex(itx.msg)] = Cleared] /\ itx.pc = "send"
    BY <1>2 DEF IotSend
  <2>2. SlotIndex(itx.msg) \in Slots
    BY <2>1 DEF FlowInv
  <2>3. fragments' \in [Slots -> SlotType]
    BY <1>0, <2>1, ClearedTyped
  <2>4. ~DefragStore /\ ~DefragCreate /\ ~Dump
    BY <1>2, <2>1 DEF IotSend, DefragCreate, DefragStore, Dump
  <2>5. CASE s = SlotIndex(itx.msg)
    BY <1>0, <1>2, <2>1, <2>3, <2>5
  <2>6. CASE s # SlotIndex(itx.msg)
    BY <1>0, <2>1, <2>3, <2>4, <2>6 DEF Alike
  <2> QED BY <2>5, <2>6
<1>3. CASE DefragCreate
  <2> DEFINE t == SlotIndex(Head(fusionThrOutFifo))
  <2>1. /\ fragments' = [fragments EXCEPT ![t].used = TRUE, ![t].frgmntIdx = 0,
                            ![t].accumulated = 0, ![t].frgmnts = 0, ![t].frags_mask = {},
                            ![t].size = 0]
        /\ t \in Slots /\ ~fragments[t].used /\ itx.pc = "get" /\ twice' = twice \ {t}
    BY <1>3 DEF DefragCreate, Open
  <2>2. ~DefragStore /\ ~IotSend /\ ~Dump
    BY <1>3, <2>1 DEF IotSend, DefragCreate, DefragStore, Dump
  <2> HIDE DEF t
  <2>3. fragments' \in [Slots -> SlotType]
    <3> DEFINE h == [fragments[t] EXCEPT !.used = TRUE, !.frgmntIdx = 0, !.accumulated = 0,
                                         !.frgmnts = 0, !.frags_mask = {}, !.size = 0]
    <3>1. h \in SlotType
      <4>1. fragments[t] \in SlotType
        BY <1>0, <2>1
      <4> QED BY <4>1, OpenedTyped
    <3>2. fragments' = [fragments EXCEPT ![t] = h]
      BY <1>0, <2>1
    <3> HIDE DEF h
    <3> QED BY <1>0, <3>1, <3>2
  <2>4. CASE s = t
    <3>1. /\ g.used /\ g.accumulated = 0 /\ g.frgmnts = 0 /\ g.frags_mask = {}
          /\ g.size = 0 /\ g.data = f.data /\ ~f.used
      BY <1>0, <2>1, <2>4 DEF SlotType
    <3> QED BY <1>3, <2>1, <2>3, <2>4, <3>1 DEF t
  <2>5. CASE s # t
    <3>1. g = f
      BY <1>0, <2>1, <2>5
    <3> QED BY <2>2, <2>3, <2>5, <3>1 DEF Alike, t
  <2> QED BY <2>4, <2>5
<1>4. CASE Dump
  <2>1. fragments' = [fragments EXCEPT ![scan].used = FALSE] /\ scan # None /\ itx' = itx
    BY <1>4 DEF Dump
  <2>2. scan \in Slots
    BY <2>1 DEF SlotsTyped
  <2>3. ~DefragStore /\ ~IotSend /\ ~DefragCreate
    BY <1>4, <2>1 DEF IotSend, DefragCreate, DefragStore, Dump
  <2>4. fragments' \in [Slots -> SlotType]
    BY <1>0, <2>1, <2>2 DEF SlotType
  <2>5. CASE s = scan
    <3>1. ~g.used /\ Alike(f, g)
      BY <1>0, <2>1, <2>5 DEF SlotType, Alike
    <3> QED BY <1>4, <2>4, <2>5, <3>1
  <2>6. CASE s # scan
    BY <1>0, <2>1, <2>3, <2>4, <2>6 DEF Alike
  <2> QED BY <2>5, <2>6
<1>5. CASE Tick
  <2>1. fragments' = [t \in Slots |-> [fragments[t] EXCEPT !.age = Min({@ + 1, Ancient})]]
    BY <1>5 DEF Tick
  <2>2. ASSUME NEW t \in Slots
        PROVE  /\ fragments'[t] \in SlotType /\ fragments'[t].used = fragments[t].used
               /\ Alike(fragments[t], fragments'[t])
    <3>1. PICK a : a = Min({fragments[t].age + 1, Ancient})
      OBVIOUS
    <3>2. a \in 0..Ancient
      <4>1. fragments[t].age + 1 \in Nat /\ Ancient \in Nat
        BY <1>0, RxAssumption DEF Ancient, RxAssumption, SlotType
      <4>2. PICK b \in Int, c \in Int :
               b \in Nat /\ c \in Nat /\ b = fragments[t].age + 1 /\ c = Ancient
        BY <4>1
      <4>3. a = Min({b, c})
        BY <3>1, <4>2, Zenon
      <4>4. a \in {b, c} /\ a <= c
        BY <4>3, MinTwo
      <4> QED BY <4>2, <4>4
    <3>3. fragments'[t] = [fragments[t] EXCEPT !.age = a]
      BY <1>0, <2>1, <3>1 DEF SlotType
    <3> QED BY <1>0, <3>2, <3>3 DEF SlotType, Alike
  <2>3. fragments' \in [Slots -> SlotType]
    BY <2>1, <2>2
  <2>4. ~DefragStore /\ ~IotSend /\ ~DefragCreate /\ ~Dump
    <3>1. itx' = itx /\ scan' = scan /\ itx.pc \in {"get", "store", "send"}
      BY <1>5 DEF Tick, FlowInv
    <3>2. DefragStore \/ IotSend => itx'.pc # itx.pc
      BY DEF DefragStore, IotSend, ItxIdle, FlowInv
    <3>3. DefragCreate => itx'.pc # itx.pc
      BY DEF DefragCreate
    <3> QED BY <3>1, <3>2, <3>3 DEF Dump
  <2> QED BY <2>2, <2>3, <2>4
<1>6. CASE ~DefragStore /\ ~IotSend /\ ~DefragCreate /\ ~Dump /\ ~Tick
  <2>1. fragments' = fragments
    BY <1>6 DEF Next, Defragment, Dumping, vars, peer, PeerSend, PeerReply, FusionReceive,
       DefragFind, DefragLost, DumpCheck
  <2> QED BY <1>0, <1>6, <2>1 DEF Alike
<1> QED BY <1>1, <1>2, <1>3, <1>4, <1>5, <1>6

LEMMA InitSlots == Init => SlotsTyped
BY ClearedTyped DEF Init, SlotsTyped

LEMMA StepSlots == FlowInv /\ SlotsTyped /\ [Next]_vars => SlotsTyped'
<1> SUFFICES ASSUME FlowInv, SlotsTyped, [Next]_vars PROVE SlotsTyped'
  OBVIOUS
<1>1. 0 \in Slots
  BY RxAssumption DEF Slots, RxAssumption
<1>2. fragments' \in [Slots -> SlotType]
  BY <1>1, SlotSteps
<1>3. scan' # None => scan' \in Slots
  <2>1. ASSUME NEW s \in 0..(MaxPkts - 1), DumpCheck(s) PROVE scan' \in Slots
    BY <2>1, RxAssumption DEF DumpCheck, Slots, RxAssumption
  <2>2. CASE Dump
    BY <2>2 DEF Dump
  <2>3. CASE \/ PeerSend \/ PeerReply \/ FusionReceive \/ Defragment \/ Tick \/ UNCHANGED vars
    BY <2>3 DEF Defragment, vars, peer, PeerSend, PeerReply, FusionReceive, DefragFind,
       DefragCreate, DefragLost, DefragStore, IotSend, Tick, SlotsTyped
  <2> QED BY <2>1, <2>2, <2>3 DEF Next, Dumping
<1> QED BY <1>2, <1>3 DEF SlotsTyped

-------------------------------------------------------------------------------
(* What is stored is kept *)

\* A slot in use holds what has been stored in it, and no other slot does.
KeptInv ==
  /\ stored \in [Slots -> SUBSET Idx]
  /\ ~raced => \A s \in Slots : IF fragments[s].used THEN fragments[s].frags_mask = stored[s]
                                                     ELSE stored[s] = {}

LEMMA InitKept == Init => KeptInv
BY DEF Init, KeptInv, Cleared

LEMMA StepKept == FlowInv /\ SlotsTyped /\ KeptInv /\ [Next]_vars => KeptInv'
<1> SUFFICES ASSUME FlowInv, SlotsTyped, KeptInv, [Next]_vars PROVE KeptInv'
  OBVIOUS
<1>0. /\ stored \in [Slots -> SUBSET Idx] /\ fragments \in [Slots -> SlotType]
      /\ itx.pc # "get" => SlotIndex(itx.msg) \in Slots /\ itx.msg \in Known(sent.pkt)
  BY DEF KeptInv, SlotsTyped, FlowInv
<1>1. CASE DefragStore
  <2> DEFINE t == SlotIndex(itx.msg)
  <2>1. /\ stored' = [stored EXCEPT ![t] = @ \cup {itx.msg.idx}]
        /\ raced' = (raced \/ ~fragments[t].used) /\ itx.pc = "store"
    BY <1>1 DEF DefragStore
  <2>2. t \in Slots /\ itx.msg.idx \in Idx /\ itx.msg.pkt \in PktIds
    BY <1>0, <2>1, KnownShape
  <2> HIDE DEF t
  <2>3. stored' \in [Slots -> SUBSET Idx]
    BY <1>0, <2>1, <2>2
  <2>4. ASSUME ~raced' PROVE ~raced /\ fragments[t].used
    BY <2>1, <2>4, Zenon
  <2>5. ASSUME ~raced', NEW s \in Slots
        PROVE  IF fragments'[s].used THEN fragments'[s].frags_mask = stored'[s]
                                     ELSE stored'[s] = {}
    <3>1. IF fragments[s].used THEN fragments[s].frags_mask = stored[s] ELSE stored[s] = {}
      BY <2>4, <2>5 DEF KeptInv
    <3>2. CASE s = t
      <4>1. fragments'[s] = Filled(fragments[s], itx.msg)
        BY <1>1, <2>1, <3>2, SlotSteps DEF t, IotSend, DefragCreate, Dump, DefragStore
      <4>2. /\ fragments'[s].used = fragments[s].used
            /\ fragments'[s].frags_mask = fragments[s].frags_mask \cup {itx.msg.idx}
        BY <1>0, <2>2, <4>1, FilledTyped
      <4> QED BY <1>0, <2>1, <2>4, <2>5, <3>1, <3>2, <4>2
    <3>3. CASE s # t
      <4>1. fragments'[s] = fragments[s]
        BY <1>0, <1>1, <3>3 DEF DefragStore, t
      <4> QED BY <1>0, <2>1, <3>1, <3>3, <4>1
    <3> QED BY <3>2, <3>3
  <2> QED BY <2>3, <2>5 DEF KeptInv
<1>2. CASE IotSend
  <2> DEFINE t == SlotIndex(itx.msg)
  <2>1. /\ stored' = [stored EXCEPT ![t] = {}] /\ raced' = raced
        /\ fragments' = [fragments EXCEPT ![t] = Cleared] /\ itx.pc = "send"
    BY <1>2 DEF IotSend
  <2>2. t \in Slots
    BY <1>0, <2>1
  <2> HIDE DEF t
  <2>3. ~Cleared.used
    BY DEF Cleared
  <2>4. ASSUME NEW s \in Slots, ~raced
        PROVE  IF fragments'[s].used THEN fragments'[s].frags_mask = stored'[s]
                                     ELSE stored'[s] = {}
    <3>1. CASE s = t
      BY <1>0, <2>1, <2>3, <3>1
    <3>2. CASE s # t
      BY <1>0, <2>1, <2>4, <3>2 DEF KeptInv
    <3> QED BY <3>1, <3>2
  <2> QED BY <1>0, <2>1, <2>2, <2>4 DEF KeptInv
<1>3. CASE DefragCreate
  <2>1. /\ stored' = stored /\ raced' = raced
    BY <1>3 DEF DefragCreate
  <2>2. ASSUME NEW s \in Slots, ~raced
        PROVE  IF fragments'[s].used THEN fragments'[s].frags_mask = stored[s]
                                     ELSE stored[s] = {}
    <3>1. IF fragments[s].used THEN fragments[s].frags_mask = stored[s] ELSE stored[s] = {}
      BY <2>2 DEF KeptInv
    <3>2. \/ ~fragments[s].used /\ fragments'[s].used /\ fragments'[s].frags_mask = {}
          \/ fragments'[s].used = fragments[s].used /\ Alike(fragments[s], fragments'[s])
      BY <1>3, SlotSteps DEF DefragCreate, DefragStore, IotSend, Dump
    <3> QED BY <3>1, <3>2 DEF Alike
  <2> QED BY <1>0, <2>1, <2>2 DEF KeptInv
<1>4. CASE Dump
  <2>1. /\ stored' = [stored EXCEPT ![scan] = {}] /\ scan \in Slots
        /\ raced' = (raced \/ fragments[scan].age <= Timeout)
    BY <1>4 DEF Dump, SlotsTyped
  <2>2. ~raced' => ~raced
    BY <2>1, Zenon
  <2>3. ASSUME NEW s \in Slots, ~raced
        PROVE  IF fragments'[s].used THEN fragments'[s].frags_mask = stored'[s]
                                     ELSE stored'[s] = {}
    <3>1. CASE s = scan
      <4>1. ~fragments'[s].used
        BY <1>0, <1>4, <3>1 DEF Dump, SlotType
      <4> QED BY <1>0, <2>1, <3>1, <4>1
    <3>2. CASE s # scan
      <4>1. fragments'[s] = fragments[s]
        BY <1>0, <1>4, <3>2 DEF Dump
      <4> QED BY <1>0, <2>1, <2>3, <3>2, <4>1 DEF KeptInv
    <3> QED BY <3>1, <3>2
  <2> QED BY <1>0, <2>1, <2>2, <2>3 DEF KeptInv
<1>5. CASE ~DefragStore /\ ~IotSend /\ ~DefragCreate /\ ~Dump
  <2>1. stored' = stored /\ raced' = raced
    BY <1>5 DEF Next, Defragment, Dumping, vars, peer, ghosts, PeerSend, PeerReply,
       FusionReceive, DefragFind, DefragLost, DumpCheck, Tick
  <2>2. \A s \in Slots : fragments'[s].used = fragments[s].used
                         /\ Alike(fragments[s], fragments'[s])
    BY <1>5, SlotSteps
  <2> QED BY <1>0, <2>1, <2>2 DEF KeptInv, Alike
<1> QED BY <1>1, <1>2, <1>3, <1>4, <1>5

\* A fragment that iot_transmit_routine stored stays until its datagram is sent to
\* the device or dumped, whatever the numbers of slots and fragments, unless
\* r_udp_req_routine raced with it.
THEOREM StoredStays == Spec => []StoredIsKept
<1>1. KeptInv => StoredIsKept
  BY DEF KeptInv, StoredIsKept
<1> QED BY <1>1, InitFlow, StepFlow, InitSlots, StepSlots, InitKept, StepKept, PTL DEF Spec

-------------------------------------------------------------------------------
(* What a slot holds, and how often it was counted *)

\* All that is in slot s comes from the first n datagrams with its sequence number.
SlotFrom(s, f, n) ==
  /\ f.frags_mask \subseteq DOMAIN f.data
  /\ \A i \in DOMAIN f.data : /\ f.data[i] \in 1..n /\ SeqNumOf(f.data[i]) = s
                              /\ i < Packets[f.data[i]]
  /\ f.frags_mask # {} => \E p \in 1..n : SeqNumOf(p) = s /\ f.frgmnts = Packets[p]

\* accumulated counts a fragment again when it is stored again.
Counted(f, once) ==
  /\ IsFiniteSet(f.frags_mask) /\ Cardinality(f.frags_mask) <= f.accumulated
  /\ once => Cardinality(f.frags_mask) = f.accumulated

Sending(s) == itx.pc = "send" /\ SlotIndex(itx.msg) = s

FillInv ==
  \A s \in Slots :
    /\ SlotFrom(s, fragments[s], sent.pkt)
    /\ Counted(fragments[s], s \notin twice)
    /\ Sending(s) => /\ fragments[s].frags_mask # {}
                     /\ fragments[s].frgmnts <= fragments[s].accumulated
    /\ ~Sending(s) => \/ fragments[s].frags_mask = {}
                      \/ fragments[s].accumulated < fragments[s].frgmnts

LEMMA EmptySlot ==
  ASSUME NEW s, NEW n, NEW b, NEW f, f.frags_mask = {}, f.data = <<>>, f.accumulated = 0
  PROVE  SlotFrom(s, f, n) /\ Counted(f, b)
BY FS_EmptySet DEF SlotFrom, Counted

LEMMA InitFill == Init => FillInv
<1> SUFFICES ASSUME Init, NEW s \in Slots
             PROVE  /\ SlotFrom(s, fragments[s], sent.pkt)
                    /\ Counted(fragments[s], s \notin twice)
                    /\ ~Sending(s) /\ fragments[s].frags_mask = {}
  BY DEF FillInv
<1>1. fragments[s] = Cleared
  BY DEF Init
<1>2. /\ fragments[s].frags_mask = {} /\ fragments[s].data = <<>>
      /\ fragments[s].accumulated = 0
  BY <1>1 DEF Cleared
<1>3. ~Sending(s)
  BY DEF Init, ItxIdle, Sending
<1> QED BY <1>2, <1>3, EmptySlot

LEMMA SlotFromGrows ==
  ASSUME NEW s, NEW f, NEW g, NEW m \in Int, NEW n \in Int, m <= n,
         SlotFrom(s, f, m), g.frags_mask \in {f.frags_mask, {}}, g.data = f.data,
         g.frags_mask # {} => g.frgmnts = f.frgmnts
  PROVE  SlotFrom(s, g, n)
<1>1. 1..m \subseteq 1..n
  OBVIOUS
<1> QED BY <1>1 DEF SlotFrom

\* Only iot_transmit_routine, with this slot, begins and ends to send it.
LEMMA SendingSteps ==
  ASSUME FlowInv, SlotsTyped, [Next]_vars, NEW s \in Slots
  PROVE  /\ (DefragStore \/ IotSend => s # SlotIndex(itx.msg)) => (Sending(s)' <=> Sending(s))
         /\ IotSend => ~Sending(s)'
         /\ DefragStore /\ s = SlotIndex(itx.msg) =>
              IF Packets[itx.msg.pkt] <= fragments'[s].accumulated THEN Sending(s)'
                                                                   ELSE ~Sending(s)'
<1>0. itx \in [pc : {"get", "store", "send"}, msg : [pkt : Nat, idx : Nat]]
  BY DEF FlowInv
<1>1. CASE DefragStore
  <2>1. itx.pc = "store" /\ itx' \in {ItxIdle, [itx EXCEPT !.pc = "send"]}
    BY <1>1 DEF DefragStore
  <2>2. /\ ItxIdle.pc = "get" /\ [itx EXCEPT !.pc = "send"].pc = "send"
        /\ [itx EXCEPT !.pc = "send"].msg = itx.msg
    BY <1>0 DEF ItxIdle
  <2>3. s # SlotIndex(itx.msg) => (Sending(s)' <=> Sending(s))
    <3>1. ~Sending(s)
      BY <2>1 DEF Sending
    <3>2. s # SlotIndex(itx.msg) => ~Sending(s)'
      BY <2>1, <2>2 DEF Sending, SlotIndex, MsgSeq, SeqNumOf
    <3> QED BY <3>1, <3>2
  <2>4. ASSUME s = SlotIndex(itx.msg)
        PROVE  IF Packets[itx.msg.pkt] <= fragments'[s].accumulated THEN Sending(s)'
                                                                     ELSE ~Sending(s)'
    <3> DEFINE m == itx.msg
               g == Filled(fragments[s], m)
    <3>1. IF Complete(g, m) THEN itx' = [itx EXCEPT !.pc = "send"] ELSE itx' = ItxIdle
      BY <1>1, <2>4 DEF DefragStore, Filled
    <3> HIDE DEF g, m
    <3>2. m.pkt \in PktIds /\ m.idx \in Idx /\ fragments[s] \in SlotType
      BY <2>1, KnownShape DEF FlowInv, SlotsTyped, m
    <3>3. fragments'[s] = g
      BY <1>1, <2>1, <2>4, SlotSteps DEF g, m, IotSend, DefragCreate, Dump, DefragStore
    <3>4. g.frgmnts = Packets[m.pkt]
      BY <3>2, FilledTyped DEF g
    <3>5. Complete(g, m) <=> Packets[m.pkt] <= fragments'[s].accumulated
      BY <3>3, <3>4 DEF Complete
    <3>6. itx' = [itx EXCEPT !.pc = "send"] => Sending(s)'
      BY <2>2, <2>4 DEF Sending, SlotIndex, MsgSeq, SeqNumOf
    <3>7. itx' = ItxIdle => ~Sending(s)'
      BY <2>2 DEF Sending
    <3> QED BY <3>1, <3>5, <3>6, <3>7 DEF m
  <2>5. ~IotSend
    BY <2>1 DEF IotSend
  <2> QED BY <1>1, <2>3, <2>4, <2>5
<1>2. CASE IotSend
  <2>1. itx.pc = "send" /\ itx'.pc = "get"
    BY <1>2 DEF IotSend, ItxIdle
  <2>2. ~Sending(s)' /\ ~DefragStore
    BY <2>1 DEF Sending, DefragStore
  <2>3. s # SlotIndex(itx.msg) => ~Sending(s)
    BY DEF Sending
  <2> QED BY <1>2, <2>2, <2>3
<1>3. CASE DefragFind \/ DefragCreate
  <2>1. itx.pc = "get" /\ itx'.pc = "store"
    BY <1>3 DEF DefragFind, DefragCreate
  <2>2. ~Sending(s) /\ ~Sending(s)' /\ ~DefragStore /\ ~IotSend
    BY <2>1 DEF Sending, DefragStore, IotSend
  <2> QED BY <2>2
<1>4. CASE ~DefragStore /\ ~IotSend /\ ~DefragFind /\ ~DefragCreate
  <2>1. itx' = itx
    BY <1>4 DEF Next, Defragment, Dumping, vars, peer, PeerSend, PeerReply, FusionReceive,
       DefragLost, DumpCheck, Dump, Tick
  <2> QED BY <1>4, <2>1 DEF Sending, SlotIndex, MsgSeq, SeqNumOf
<1> QED BY <1>1, <1>2, <1>3, <1>4

\* A fragment is stored: what the slot holds, and its count.
LEMMA StoreFrom ==
  ASSUME NEW s \in Slots, NEW n \in Int, NEW f \in SlotType, SlotFrom(s, f, n),
         NEW m \in Known(n), s = SlotIndex(m)
  PROVE  SlotFrom(s, Filled(f, m), n) /\ Filled(f, m).frags_mask # {}
<1> DEFINE g == Filled(f, m)
<1>1. m.pkt \in PktIds /\ m.idx \in Idx /\ m.pkt <= n /\ m.idx < Packets[m.pkt]
  BY KnownShape
<1>2. /\ g.frgmnts = Packets[m.pkt] /\ g.frags_mask = f.frags_mask \cup {m.idx}
      /\ DOMAIN g.data = DOMAIN f.data \cup {m.idx} /\ g.data[m.idx] = m.pkt
      /\ \A i \in DOMAIN f.data : i # m.idx => g.data[i] = f.data[i]
  BY <1>1, FilledTyped
<1> HIDE DEF g
<1>3. m.pkt \in 1..n /\ SeqNumOf(m.pkt) = s
  BY <1>1, PacketSizes DEF PktIds, SlotIndex, MsgSeq
<1>4. ASSUME NEW i \in DOMAIN g.data
      PROVE  g.data[i] \in 1..n /\ SeqNumOf(g.data[i]) = s /\ i < Packets[g.data[i]]
  BY <1>1, <1>2, <1>3 DEF SlotFrom
<1> QED BY <1>2, <1>3, <1>4 DEF SlotFrom, g

LEMMA StoreCounted ==
  ASSUME NEW f \in SlotType, NEW once \in BOOLEAN, Counted(f, once),
         NEW m, m.pkt \in PktIds, m.idx \in Idx
  PROVE  Counted(Filled(f, m), once /\ m.idx \notin f.frags_mask)
<1> DEFINE g == Filled(f, m)
<1>1. g.frags_mask = f.frags_mask \cup {m.idx} /\ g.accumulated = f.accumulated + 1
  BY FilledTyped
<1> HIDE DEF g
<1>2. /\ IsFiniteSet(f.frags_mask) /\ Cardinality(f.frags_mask) <= f.accumulated
      /\ Cardinality(f.frags_mask) \in Nat /\ f.accumulated \in Nat
      /\ once => Cardinality(f.frags_mask) = f.accumulated
  BY FS_CardinalityType DEF Counted, SlotType
<1>3. /\ IsFiniteSet(g.frags_mask)
      /\ Cardinality(g.frags_mask) = (IF m.idx \in f.frags_mask
                                      THEN Cardinality(f.frags_mask)
                                      ELSE Cardinality(f.frags_mask) + 1)
  <2> DEFINE k == f.frags_mask
             i == m.idx
  <2>1. IsFiniteSet(k) /\ g.frags_mask = k \cup {i}
    BY <1>1, <1>2
  <2> HIDE DEF k, i
  <2>2. /\ IsFiniteSet(k \cup {i})
        /\ Cardinality(k \cup {i}) = IF i \in k THEN Cardinality(k) ELSE Cardinality(k) + 1
    BY ONLY <2>1, FS_AddElement
  <2> QED BY <2>1, <2>2 DEF k, i
<1>4. Cardinality(g.frags_mask) <= g.accumulated
  BY <1>1, <1>2, <1>3
<1>5. once /\ m.idx \notin f.frags_mask => Cardinality(g.frags_mask) = g.accumulated
  BY <1>1, <1>2, <1>3
<1> QED BY <1>3, <1>4, <1>5 DEF Counted, g

LEMMA StepFill == FlowInv /\ SlotsTyped /\ FillInv /\ [Next]_vars => FillInv'
<1> SUFFICES ASSUME FlowInv, SlotsTyped, FillInv, [Next]_vars, NEW s \in Slots
             PROVE  /\ SlotFrom(s, fragments'[s], sent'.pkt)
                    /\ Counted(fragments'[s], s \notin twice')
                    /\ Sending(s)' => /\ fragments'[s].frags_mask # {}
                                      /\ fragments'[s].frgmnts <= fragments'[s].accumulated
                    /\ ~Sending(s)' => \/ fragments'[s].frags_mask = {}
                                       \/ fragments'[s].accumulated < fragments'[s].frgmnts
  BY DEF FillInv
<1> DEFINE f == fragments[s]
           g == fragments'[s]
           m == itx.msg
<1>0. /\ f \in SlotType /\ g \in SlotType /\ f.accumulated \in Nat /\ f.frgmnts \in 0..31
      /\ g.accumulated \in Nat /\ g.frgmnts \in 0..31
      /\ sent.pkt \in Int /\ sent'.pkt \in Int /\ sent.pkt <= sent'.pkt
  <2>1. fragments \in [Slots -> SlotType] /\ fragments' \in [Slots -> SlotType]
    BY SlotSteps DEF SlotsTyped
  <2>2. f \in SlotType /\ g \in SlotType
    BY <2>1
  <2>3. sent.pkt \in Int /\ sent'.pkt \in Int /\ sent.pkt <= sent'.pkt
    BY SentSteps, PacketSizes DEF FlowInv
  <2> QED BY <2>2, <2>3 DEF SlotType
<1>1. /\ SlotFrom(s, f, sent.pkt) /\ Counted(f, s \notin twice)
      /\ Sending(s) => f.frags_mask # {} /\ f.frgmnts <= f.accumulated
      /\ ~Sending(s) => f.frags_mask = {} \/ f.accumulated < f.frgmnts
  BY DEF FillInv
<1>2. /\ (DefragStore \/ IotSend => s # SlotIndex(m)) => (Sending(s)' <=> Sending(s))
      /\ IotSend => ~Sending(s)'
      /\ DefragStore /\ s = SlotIndex(m) =>
           IF Packets[m.pkt] <= g.accumulated THEN Sending(s)' ELSE ~Sending(s)'
  BY SendingSteps
<1>3. \/ DefragStore /\ s = SlotIndex(m) /\ g = Filled(f, m)
      \/ IotSend /\ s = SlotIndex(m) /\ g = Cleared
      \/ /\ DefragCreate /\ s = SlotIndex(Head(fusionThrOutFifo)) /\ ~f.used
         /\ g.used /\ g.accumulated = 0 /\ g.frgmnts = 0 /\ g.frags_mask = {}
         /\ g.size = 0 /\ g.data = f.data /\ twice' = twice \ {s}
      \/ Dump /\ s = scan /\ Alike(f, g) /\ ~g.used
      \/ /\ g.used = f.used /\ Alike(f, g)
         /\ DefragStore \/ IotSend => s # SlotIndex(m)
         /\ DefragCreate => s # SlotIndex(Head(fusionThrOutFifo))
         /\ Dump => s # scan
  BY SlotSteps
<1> HIDE DEF f, g, m
<1>4. CASE DefragStore /\ s = SlotIndex(m) /\ g = Filled(f, m)
  <2>1. m \in Known(sent.pkt) /\ sent' = sent /\ itx.pc = "store"
    BY <1>4 DEF DefragStore, FlowInv, m
  <2>2. m.pkt \in PktIds /\ m.idx \in Idx
    BY <2>1, KnownShape
  <2>3. SlotFrom(s, g, sent'.pkt) /\ g.frags_mask # {}
    BY <1>0, <1>1, <1>4, <2>1, StoreFrom
  <2>4. Counted(g, s \notin twice /\ m.idx \notin f.frags_mask)
    BY <1>0, <1>1, <1>4, <2>2, StoreCounted
  <2>5. s \notin twice' => s \notin twice /\ m.idx \notin f.frags_mask
    <3>1. twice' = IF m.idx \in f.frags_mask THEN twice \cup {s} ELSE twice
      BY <1>4 DEF DefragStore, f, m
    <3> QED BY <3>1
  <2>6. Counted(g, s \notin twice')
    BY <2>4, <2>5 DEF Counted
  <2>7. g.frgmnts = Packets[m.pkt]
    BY <1>0, <1>4, <2>2, FilledTyped
  <2>8. /\ Sending(s)' => g.frgmnts <= g.accumulated
        /\ ~Sending(s)' => g.accumulated < g.frgmnts
    <3>1. /\ Sending(s)' => g.frgmnts <= g.accumulated
          /\ ~Sending(s)' => ~(g.frgmnts <= g.accumulated)
      BY <1>2, <1>4, <2>7, Zenon
    <3> QED BY <1>0, <3>1
  <2> QED BY <2>3, <2>6, <2>8 DEF g
<1>5. CASE IotSend /\ s = SlotIndex(m) /\ g = Cleared
  <2>1. g.frags_mask = {} /\ g.data = <<>> /\ g.accumulated = 0
    BY <1>5 DEF Cleared
  <2>2. SlotFrom(s, g, sent'.pkt) /\ Counted(g, s \notin twice')
    BY <2>1, EmptySlot
  <2> QED BY <1>2, <1>5, <2>1, <2>2 DEF g
<1>6. CASE /\ DefragCreate /\ ~f.used /\ g.accumulated = 0 /\ g.frags_mask = {}
           /\ g.data = f.data
  <2>1. SlotFrom(s, g, sent'.pkt)
    BY <1>0, <1>1, <1>6, SlotFromGrows
  <2>2. Counted(g, s \notin twice')
    BY <1>6, FS_EmptySet DEF Counted
  <2>3. ~Sending(s)'
    BY <1>6 DEF DefragCreate, Sending
  <2> QED BY <1>6, <2>1, <2>2, <2>3 DEF g
<1>7. CASE /\ Alike(f, g) /\ (DefragStore \/ IotSend => s # SlotIndex(m))
           /\ DefragCreate => s # SlotIndex(Head(fusionThrOutFifo))
  <2>1. SlotFrom(s, g, sent'.pkt)
    BY <1>0, <1>1, <1>7, SlotFromGrows DEF Alike
  <2>2. s \notin twice' => s \notin twice
    <3>1. CASE DefragStore
      BY <3>1 DEF DefragStore
    <3>2. CASE IotSend
      BY <1>7, <3>2 DEF IotSend, m
    <3>3. CASE DefragCreate
      <4>1. twice' = twice \ {SlotIndex(Head(fusionThrOutFifo))}
        BY <3>3 DEF DefragCreate
      <4> QED BY <1>7, <3>3, <4>1
    <3>4. CASE ~DefragStore /\ ~IotSend /\ ~DefragCreate
      <4>1. twice' = twice
        BY <3>4 DEF Next, Defragment, Dumping, vars, peer, ghosts, PeerSend, PeerReply,
           FusionReceive, DefragFind, DefragLost, DumpCheck, Dump, Tick
      <4> QED BY <4>1
    <3> QED BY <3>1, <3>2, <3>3, <3>4
  <2>3. Counted(g, s \notin twice')
    BY <1>1, <1>7, <2>2 DEF Counted, Alike
  <2>4. Sending(s)' <=> Sending(s)
    BY <1>2, <1>7
  <2> QED BY <1>1, <1>7, <2>1, <2>3, <2>4 DEF Alike, g
<1>8. Dump => ~DefragStore /\ ~IotSend /\ ~DefragCreate
  BY DEF Dump, DefragStore, IotSend, DefragCreate
<1> QED BY <1>3, <1>4, <1>5, <1>6, <1>7, <1>8

LEMMA PlacesOf ==
  ASSUME NEW n \in 0..31
  PROVE  IsFiniteSet(0..(n - 1)) /\ Cardinality(0..(n - 1)) = n
<1>1. PICK b \in Int : b = n - 1
  OBVIOUS
<1>2. IsFiniteSet(0..b) /\ Cardinality(0..b) = IF 0 > b THEN 0 ELSE b - 0 + 1
  BY FS_Interval
<1> QED BY <1>1, <1>2

\* No datagram that has all its fragments is left in its slot, whatever the order
\* in which they came and however often: iot_transmit_routine counts at least as
\* many as there are, and sends the moment the count suffices.
THEOREM NoneIsLeftComplete == Spec => []CompleteIsSent
<1>1. FlowInv /\ SlotsTyped /\ FillInv => CompleteIsSent
  <2> SUFFICES ASSUME FlowInv, SlotsTyped, FillInv, NEW s \in Slots,
                      fragments[s].used, fragments[s].frags_mask # {}, ~Sending(s),
                      fragments[s].frags_mask = 0..(fragments[s].frgmnts - 1)
               PROVE  FALSE
    BY DEF CompleteIsSent, Sending
  <2> DEFINE f == fragments[s]
  <2>1. f \in SlotType
    BY DEF SlotsTyped
  <2>2. f.accumulated \in Nat /\ f.frgmnts \in 0..31
    BY <2>1 DEF SlotType
  <2> HIDE DEF f
  <2>3. /\ Counted(f, s \notin twice)
        /\ f.frags_mask = {} \/ f.accumulated < f.frgmnts
        /\ f.frags_mask # {} /\ f.frags_mask = 0..(f.frgmnts - 1)
    BY DEF FillInv, f
  <2>4. Cardinality(f.frags_mask) <= f.accumulated /\ f.accumulated < f.frgmnts
    BY <2>3 DEF Counted
  <2>5. Cardinality(f.frags_mask) = f.frgmnts
    BY <2>2, <2>3, PlacesOf, Zenon
  <2>6. f.frgmnts <= f.accumulated
    BY <2>4, <2>5, Zenon
  <2> QED BY ONLY <2>2, <2>4, <2>6
<1> QED BY <1>1, InitFlow, StepFlow, InitSlots, StepSlots, InitFill, StepFill, PTL DEF Spec

-------------------------------------------------------------------------------
(* Of which datagrams a slot was filled, and how many bytes were counted *)

LEMMA TimesMonotonic ==
  ASSUME NEW a \in Nat, NEW b \in Nat, NEW x \in Nat, a <= b
  PROVE  a * x <= b * x
<1>1. PICK c \in Nat : b = a + c
  <2>1. b - a \in Nat /\ b = a + (b - a)
    OBVIOUS
  <2> QED BY <2>1
<1>2. b * x = a * x + c * x /\ c * x \in Nat /\ a * x \in Nat
  BY <1>1
<1> QED BY <1>2

\* The bytes counted for the datagram p, when no fragment of it was stored twice.
SizeOf(p, f) ==
  f.accumulated * MaxMsgSize
    - (IF Packets[p] - 1 \in f.frags_mask THEN MaxMsgSize - LastLen[p] ELSE 0)

\* The slot f, with index s, was filled of the datagrams F, all among the first n.
SourcesOK(s, f, F, n) ==
  /\ F \subseteq 1..n /\ \A p \in F : SeqNumOf(p) = s
  /\ \A i \in f.frags_mask : i \in DOMAIN f.data /\ f.data[i] \in F
  /\ f.size <= f.accumulated * MaxMsgSize
  /\ F = {} => f.frags_mask = {} /\ f.accumulated = 0 /\ f.size = 0
  /\ F # {} => f.frags_mask # {}
  /\ \A p : F = {p} =>
       /\ f.frgmnts = Packets[p] /\ f.accumulated <= Packets[p]
       /\ \A i \in f.frags_mask : i < Packets[p]
       /\ Cardinality(f.frags_mask) = f.accumulated => f.size = SizeOf(p, f)

FromInv ==
  /\ from \in [Slots -> SUBSET PktIds]
  /\ \A s \in Slots : SourcesOK(s, fragments[s], from[s], sent.pkt)

LEMMA NoSources ==
  ASSUME NEW s, NEW n, NEW f, f.frags_mask = {}, f.accumulated = 0, f.size = 0
  PROVE  SourcesOK(s, f, {}, n)
<1>1. f.size <= f.accumulated * MaxMsgSize
  <2>1. PICK x \in Nat : x = MaxMsgSize
    BY FragmentLengths
  <2>2. 0 <= 0 * x
    OBVIOUS
  <2> QED BY <2>1, <2>2
<1> QED BY <1>1 DEF SourcesOK

LEMMA InitFrom == Init => FromInv
<1> SUFFICES ASSUME Init PROVE FromInv
  OBVIOUS
<1>1. ASSUME NEW s \in Slots PROVE SourcesOK(s, fragments[s], from[s], sent.pkt)
  <2>1. fragments[s] = Cleared /\ from[s] = {}
    BY DEF Init
  <2> QED BY <2>1, NoSources DEF Cleared
<1>2. from \in [Slots -> SUBSET PktIds]
  BY DEF Init
<1> QED BY <1>1, <1>2 DEF FromInv

LEMMA SourcesStay ==
  ASSUME NEW s, NEW f, NEW g, NEW F, NEW m \in Int, NEW n \in Int, m <= n,
         SourcesOK(s, f, F, m), Alike(f, g)
  PROVE  SourcesOK(s, g, F, n)
<1>1. 1..m \subseteq 1..n
  OBVIOUS
<1>2. \A p : SizeOf(p, g) = SizeOf(p, f)
  BY DEF SizeOf, Alike
<1> QED BY <1>1, <1>2 DEF SourcesOK, Alike

\* One more fragment, of the only datagram in the slot, that was not stored before.
LEMMA StoreSize ==
  ASSUME NEW f \in SlotType, NEW m, m.pkt \in PktIds, m.idx \in Idx,
         m.idx \notin f.frags_mask, f.size = SizeOf(m.pkt, f)
  PROVE  Filled(f, m).size = SizeOf(m.pkt, Filled(f, m))
<1> DEFINE g == Filled(f, m)
           p == m.pkt
           last == Packets[p] - 1
<1>1. /\ g.accumulated = f.accumulated + 1 /\ g.frags_mask = f.frags_mask \cup {m.idx}
      /\ g.size = f.size + MsgLen(m)
  BY FilledTyped
<1>2. PICK a \in Nat, x \in Nat, l \in Nat :
        a = f.accumulated /\ x = MaxMsgSize /\ l = LastLen[p] /\ l <= x
  BY FragmentLengths DEF SlotType
<1> HIDE DEF g
<1>3. (a + 1) * x = a * x + x /\ a * x \in Nat
  BY <1>2
<1>4. CASE m.idx = last
  <2>1. MsgLen(m) = l
    BY <1>2, <1>4 DEF MsgLen
  <2>2. f.size = a * x - 0
    BY <1>2, <1>4 DEF SizeOf
  <2>3. SizeOf(p, g) = (a + 1) * x - (x - l)
    BY <1>1, <1>2, <1>4 DEF SizeOf
  <2> QED BY <1>1, <1>2, <1>3, <2>1, <2>2, <2>3 DEF g
<1>5. CASE m.idx # last
  <2>1. MsgLen(m) = x
    BY <1>2, <1>5 DEF MsgLen
  <2> DEFINE d == IF last \in f.frags_mask THEN x - l ELSE 0
  <2>2. f.size = a * x - d /\ d \in Int
    BY <1>2 DEF SizeOf
  <2>3. SizeOf(p, g) = (a + 1) * x - d
    BY <1>1, <1>2, <1>5 DEF SizeOf
  <2> HIDE DEF d
  <2> QED BY <1>1, <1>2, <1>3, <2>1, <2>2, <2>3 DEF g
<1> QED BY <1>4, <1>5

\* A fragment is stored in a slot that is not about to be sent.
LEMMA StoreSources ==
  ASSUME NEW s \in Slots, NEW n \in Int, NEW f \in SlotType, NEW F,
         SourcesOK(s, f, F, n), NEW once, Counted(f, once),
         f.frags_mask = {} \/ f.accumulated < f.frgmnts,
         NEW m \in Known(n), s = SlotIndex(m)
  PROVE  SourcesOK(s, Filled(f, m), F \cup {m.pkt}, n)
<1> DEFINE g == Filled(f, m)
           q == m.pkt
           G == F \cup {q}
<1>1. q \in PktIds /\ m.idx \in Idx /\ q <= n /\ m.idx < Packets[q]
  BY KnownShape
<1>2. /\ g \in SlotType /\ g.frgmnts = Packets[q] /\ g.frags_mask = f.frags_mask \cup {m.idx}
      /\ g.accumulated = f.accumulated + 1 /\ g.size = f.size + MsgLen(m)
      /\ DOMAIN g.data = DOMAIN f.data \cup {m.idx} /\ g.data[m.idx] = q
      /\ \A i \in DOMAIN f.data : i # m.idx => g.data[i] = f.data[i]
  BY <1>1, FilledTyped
<1>3. G \subseteq 1..n /\ \A p \in G : SeqNumOf(p) = s
  <2>1. q \in 1..n /\ SeqNumOf(q) = s
    BY <1>1, PacketSizes DEF PktIds, SlotIndex, MsgSeq
  <2> QED BY <2>1 DEF SourcesOK
<1>4. \A i \in g.frags_mask : i \in DOMAIN g.data /\ g.data[i] \in G
  <2> HIDE DEF g
  <2> QED BY <1>2 DEF SourcesOK
<1>5. PICK a \in Nat, z \in Nat, x \in Nat, l \in Nat :
        /\ a = f.accumulated /\ z = f.size /\ x = MaxMsgSize /\ l = MsgLen(m) /\ l <= x
        /\ z <= a * x
  <2>1. f.accumulated \in Nat /\ f.size \in Nat /\ f.size <= f.accumulated * MaxMsgSize
    BY DEF SlotType, SourcesOK
  <2>2. MaxMsgSize \in Nat /\ MsgLen(m) \in Nat /\ MsgLen(m) <= MaxMsgSize
    BY <1>1, FragmentLengths
  <2> QED BY <2>1, <2>2
<1> HIDE DEF g
<1>6. g.size <= g.accumulated * MaxMsgSize
  <2>1. (a + 1) * x = a * x + x /\ a * x \in Nat
    OBVIOUS
  <2>2. z + l <= (a + 1) * x
    BY <1>5, <2>1
  <2> QED BY <1>2, <1>5, <2>2
<1>7. ASSUME NEW p, G = {p}
      PROVE  /\ g.frgmnts = Packets[p] /\ g.accumulated <= Packets[p]
             /\ \A i \in g.frags_mask : i < Packets[p]
             /\ Cardinality(g.frags_mask) = g.accumulated => g.size = SizeOf(p, g)
  <2>1. p = q /\ (F = {} \/ F = {p})
    BY <1>7
  <2>2. PICK c \in 1..31 : c = Packets[p]
    BY <1>1, <2>1, PacketSizes
  <2>3. a + 1 <= c
    <3>1. CASE F = {}
      <4>1. a = 0
        BY <1>5, <3>1 DEF SourcesOK
      <4> QED BY <2>2, <4>1
    <3>2. CASE F = {p}
      BY <1>5, <2>2, <3>2 DEF SourcesOK
    <3> QED BY <2>1, <3>1, <3>2
  <2>4. \A i \in g.frags_mask : i < Packets[p]
    BY <1>1, <1>2, <2>1 DEF SourcesOK
  <2>5. ASSUME Cardinality(g.frags_mask) = g.accumulated PROVE g.size = SizeOf(p, g)
    <3>1. /\ IsFiniteSet(f.frags_mask) /\ Cardinality(f.frags_mask) \in Nat
          /\ Cardinality(f.frags_mask) <= a
      BY <1>5, FS_CardinalityType DEF Counted
    <3>2. m.idx \notin f.frags_mask /\ Cardinality(f.frags_mask) = a
      <4> DEFINE k == f.frags_mask
                 i == m.idx
      <4>1. /\ IsFiniteSet(k) /\ g.frags_mask = k \cup {i}
            /\ Cardinality(k \cup {i}) = a + 1 /\ Cardinality(k) \in Nat /\ Cardinality(k) <= a
        BY <1>2, <1>5, <2>5, <3>1
      <4> HIDE DEF k, i
      <4>2. Cardinality(k \cup {i}) = IF i \in k THEN Cardinality(k) ELSE Cardinality(k) + 1
        BY ONLY <4>1, FS_AddElement
      <4>3. i \notin k /\ Cardinality(k) = a
        BY <4>1, <4>2
      <4> QED BY <4>3 DEF k, i
    <3>3. f.size = SizeOf(p, f)
      <4>1. CASE F = {}
        <5>1. f.frags_mask = {} /\ a = 0 /\ z = 0
          BY <1>5, <4>1 DEF SourcesOK
        <5>2. SizeOf(p, f) = a * x - 0 /\ a * x = 0
          BY <1>5, <5>1 DEF SizeOf
        <5> QED BY <1>5, <5>1, <5>2
      <4>2. CASE F = {p}
        BY <1>5, <3>2, <4>2 DEF SourcesOK
      <4> QED BY <2>1, <4>1, <4>2
    <3> QED BY <1>1, <2>1, <3>2, <3>3, StoreSize DEF g
  <2> QED BY <1>2, <1>5, <2>1, <2>2, <2>3, <2>4, <2>5
<1>8. g.frags_mask # {} /\ G # {}
  BY <1>2
<1> QED BY <1>3, <1>4, <1>6, <1>7, <1>8 DEF SourcesOK, g

LEMMA FromSteps ==
  ASSUME FlowInv, FromInv, [Next]_vars
  PROVE  /\ from' \in [Slots -> SUBSET PktIds]
         /\ \A s \in Slots :
              \/ DefragStore /\ s = SlotIndex(itx.msg) /\ from'[s] = from[s] \cup {itx.msg.pkt}
              \/ IotSend /\ s = SlotIndex(itx.msg) /\ from'[s] = {}
              \/ DefragCreate /\ s = SlotIndex(Head(fusionThrOutFifo)) /\ from'[s] = {}
              \/ /\ from'[s] = from[s]
                 /\ DefragStore \/ IotSend => s # SlotIndex(itx.msg)
                 /\ DefragCreate => s # SlotIndex(Head(fusionThrOutFifo))
<1>0. from \in [Slots -> SUBSET PktIds]
  BY DEF FromInv
<1>1. CASE DefragStore
  <2> DEFINE t == SlotIndex(itx.msg)
  <2>1. from' = [from EXCEPT ![t] = @ \cup {itx.msg.pkt}] /\ itx.pc = "store"
    BY <1>1 DEF DefragStore
  <2>2. itx.msg.pkt \in PktIds
    BY <2>1, KnownShape DEF FlowInv
  <2>3. ~IotSend /\ ~DefragCreate
    BY <2>1 DEF IotSend, DefragCreate
  <2> HIDE DEF t
  <2>4. from' \in [Slots -> SUBSET PktIds]
    BY <1>0, <2>1, <2>2
  <2>5. ASSUME NEW s \in Slots
        PROVE  IF s = t THEN from'[s] = from[s] \cup {itx.msg.pkt} ELSE from'[s] = from[s]
    BY <1>0, <2>1
  <2> QED BY <1>1, <2>3, <2>4, <2>5 DEF t
<1>2. CASE IotSend
  <2> DEFINE t == SlotIndex(itx.msg)
  <2>1. from' = [from EXCEPT ![t] = {}] /\ itx.pc = "send"
    BY <1>2 DEF IotSend
  <2>2. ~DefragStore /\ ~DefragCreate
    BY <2>1 DEF DefragStore, DefragCreate
  <2> HIDE DEF t
  <2>3. /\ from' \in [Slots -> SUBSET PktIds]
        /\ \A s \in Slots : IF s = t THEN from'[s] = {} ELSE from'[s] = from[s]
    BY <1>0, <2>1
  <2> QED BY <1>2, <2>2, <2>3 DEF t
<1>3. CASE DefragCreate
  <2> DEFINE t == SlotIndex(Head(fusionThrOutFifo))
  <2>1. from' = [from EXCEPT ![t] = {}] /\ itx.pc = "get"
    BY <1>3 DEF DefragCreate
  <2>2. ~DefragStore /\ ~IotSend
    BY <2>1 DEF DefragStore, IotSend
  <2> HIDE DEF t
  <2>3. /\ from' \in [Slots -> SUBSET PktIds]
        /\ \A s \in Slots : IF s = t THEN from'[s] = {} ELSE from'[s] = from[s]
    BY <1>0, <2>1
  <2> QED BY <1>3, <2>2, <2>3 DEF t
<1>4. CASE ~DefragStore /\ ~IotSend /\ ~DefragCreate
  <2>1. from' = from
    BY <1>4 DEF Next, Defragment, Dumping, vars, peer, ghosts, PeerSend, PeerReply,
       FusionReceive, DefragFind, DefragLost, DumpCheck, Dump, Tick
  <2> QED BY <1>0, <1>4, <2>1
<1> QED BY <1>1, <1>2, <1>3, <1>4

LEMMA StepFrom == FlowInv /\ SlotsTyped /\ FillInv /\ FromInv /\ [Next]_vars => FromInv'
<1> SUFFICES ASSUME FlowInv, SlotsTyped, FillInv, FromInv, [Next]_vars, NEW s \in Slots
             PROVE  SourcesOK(s, fragments'[s], from'[s], sent'.pkt)
  BY FromSteps DEF FromInv
<1> DEFINE f == fragments[s]
           g == fragments'[s]
           m == itx.msg
           h == Head(fusionThrOutFifo)
<1>0. /\ f \in SlotType /\ SourcesOK(s, f, from[s], sent.pkt)
      /\ sent.pkt \in Int /\ sent'.pkt \in Int /\ sent.pkt <= sent'.pkt
  BY SentSteps, PacketSizes DEF FlowInv, SlotsTyped, FromInv
<1>1. \/ DefragStore /\ s = SlotIndex(m) /\ g = Filled(f, m)
      \/ IotSend /\ s = SlotIndex(m) /\ g = Cleared
      \/ /\ DefragCreate /\ s = SlotIndex(h)
         /\ g.accumulated = 0 /\ g.frags_mask = {} /\ g.size = 0
      \/ /\ Alike(f, g) /\ (DefragStore \/ IotSend => s # SlotIndex(m))
         /\ DefragCreate => s # SlotIndex(h)
  <2>1. Dump => ~DefragStore /\ ~IotSend /\ ~DefragCreate
    BY DEF Dump, DefragStore, IotSend, DefragCreate
  <2> QED BY <2>1, SlotSteps
<1>2. \/ DefragStore /\ s = SlotIndex(m) /\ from'[s] = from[s] \cup {m.pkt}
      \/ IotSend /\ s = SlotIndex(m) /\ from'[s] = {}
      \/ DefragCreate /\ s = SlotIndex(h) /\ from'[s] = {}
      \/ /\ from'[s] = from[s] /\ (DefragStore \/ IotSend => s # SlotIndex(m))
         /\ DefragCreate => s # SlotIndex(h)
  BY FromSteps
<1>3. /\ DefragStore => itx.pc = "store" /\ sent' = sent
      /\ IotSend => itx.pc = "send"
      /\ DefragCreate => itx.pc = "get"
  BY DEF DefragStore, IotSend, DefragCreate
<1> HIDE DEF f, g, m, h
<1>4. CASE DefragStore /\ s = SlotIndex(m)
  <2>1. g = Filled(f, m) /\ from'[s] = from[s] \cup {m.pkt}
    BY <1>1, <1>2, <1>3, <1>4
  <2>2. m \in Known(sent.pkt)
    BY <1>3, <1>4 DEF FlowInv, m
  <2>3. /\ Counted(f, s \notin twice)
        /\ f.frags_mask = {} \/ f.accumulated < f.frgmnts
    BY <1>3, <1>4 DEF FillInv, Sending, f
  <2> QED BY <1>0, <1>3, <1>4, <2>1, <2>2, <2>3, StoreSources DEF g
<1>5. CASE IotSend /\ s = SlotIndex(m)
  <2>1. g = Cleared /\ from'[s] = {}
    BY <1>1, <1>2, <1>3, <1>5
  <2> QED BY <2>1, NoSources DEF Cleared, g
<1>6. CASE DefragCreate /\ s = SlotIndex(h)
  <2>1. g.accumulated = 0 /\ g.frags_mask = {} /\ g.size = 0 /\ from'[s] = {}
    BY <1>1, <1>2, <1>3, <1>6
  <2> QED BY <2>1, NoSources DEF g
<1>7. CASE ~(DefragStore /\ s = SlotIndex(m)) /\ ~(IotSend /\ s = SlotIndex(m))
           /\ ~(DefragCreate /\ s = SlotIndex(h))
  <2>1. Alike(f, g) /\ from'[s] = from[s]
    BY <1>1, <1>2, <1>7
  <2> QED BY <1>0, <2>1, SourcesStay DEF g
<1> QED BY <1>4, <1>5, <1>6, <1>7

-------------------------------------------------------------------------------
(* What is sent to the device *)

\* The places that the bytes of the datagram p lie in.
LEMMA PlacesOfBytes ==
  ASSUME NEW p \in PktIds
  PROVE  {j \in Idx : j * MaxMsgSize < Bytes(p)} = 0..(Packets[p] - 1)
<1>1. PICK c \in 1..31, x \in Nat, l \in Nat :
        c = Packets[p] /\ x = MaxMsgSize /\ l = LastLen[p] /\ 1 <= l /\ l <= x
  <2>1. Packets[p] \in 1..31
    BY PacketSizes
  <2>2. MaxMsgSize \in Nat /\ LastLen[p] \in 1..MaxMsgSize
    BY FragmentLengths
  <2>3. LastLen[p] \in Nat /\ 1 <= LastLen[p] /\ LastLen[p] <= MaxMsgSize
    BY <2>2
  <2> QED BY <2>1, <2>2, <2>3, Zenon
<1>2. ASSUME NEW j \in 0..30 PROVE j * x < (c - 1) * x + l <=> j <= c - 1
  <2>0. j \in Nat /\ c - 1 \in Nat /\ c \in Nat
    OBVIOUS
  <2>1. CASE j <= c - 1
    <3>1. j * x <= (c - 1) * x
      BY <2>0, <2>1, TimesMonotonic
    <3>2. j * x \in Nat /\ (c - 1) * x \in Nat
      BY <2>0
    <3> QED BY <1>1, <2>1, <3>1, <3>2
  <2>2. CASE ~(j <= c - 1)
    <3>1. c * x <= j * x
      BY <2>0, <2>2, TimesMonotonic
    <3>2. c * x = (c - 1) * x + x /\ j * x \in Nat /\ (c - 1) * x \in Nat
      BY <2>0
    <3> QED BY <1>1, <2>2, <3>1, <3>2
  <2> QED BY <2>1, <2>2
<1>3. \A j \in Idx : j * MaxMsgSize < Bytes(p) <=> j <= c - 1
  BY <1>1, <1>2 DEF Idx, Bytes
<1>4. {j \in Idx : j <= c - 1} = 0..(c - 1)
  BY DEF Idx
<1> QED BY <1>1, <1>3, <1>4

\* What is sent of one datagram is whole, with its size, or a fragment was counted twice.
LEMMA WhatIsSent ==
  ASSUME FlowInv, SlotsTyped, FillInv, FromInv, NEW s \in Slots, Sending(s)
  PROVE  LET d == Datagram(s)
         IN  /\ \A p, q \in d.from : SeqNumOf(p) = SeqNumOf(q)
             /\ \A p \in PktIds : d.from = {p} =>
                  /\ d.missing # {} => d.twice
                  /\ \A i \in DOMAIN d.data : i \in 0..(Packets[p] - 1) \ d.missing => d.data[i] = p
                  /\ ~d.twice \/ d.missing = {} =>
                       d.size = Bytes(p) /\ DOMAIN d.data = 0..(Packets[p] - 1)
<1> DEFINE f == fragments[s]
           d == Datagram(s)
<1>1. f \in SlotType
  BY DEF SlotsTyped
<1>2. f.accumulated \in Nat /\ f.frgmnts \in 0..31 /\ f.frags_mask \subseteq Idx
  BY <1>1 DEF SlotType
<1>3. /\ SourcesOK(s, f, from[s], sent.pkt) /\ Counted(f, s \notin twice)
      /\ f.frgmnts <= f.accumulated
  BY DEF FillInv, FromInv
<1> HIDE DEF f
<1>4. /\ d.size = f.size /\ d.missing = 0..(f.frgmnts - 1) \ f.frags_mask
      /\ (d.twice <=> s \in twice) /\ d.from = from[s]
      /\ d.data = [i \in {j \in Idx : j * MaxMsgSize < f.size} |->
                     IF i \in DOMAIN f.data THEN f.data[i] ELSE 0]
  BY DEF Datagram, f
<1> HIDE DEF d
<1>5. \A p, q \in d.from : SeqNumOf(p) = SeqNumOf(q)
  BY <1>3, <1>4 DEF SourcesOK
<1>6. ASSUME NEW p \in PktIds, d.from = {p}
      PROVE  /\ d.missing # {} => d.twice
             /\ \A i \in DOMAIN d.data : i \in 0..(Packets[p] - 1) \ d.missing => d.data[i] = p
             /\ ~d.twice \/ d.missing = {} =>
                  d.size = Bytes(p) /\ DOMAIN d.data = 0..(Packets[p] - 1)
  <2> DEFINE all == 0..(f.frgmnts - 1)
             k == f.frags_mask
  <2>1. /\ f.frgmnts = Packets[p] /\ f.accumulated <= Packets[p]
        /\ \A i \in k : i < Packets[p] /\ i \in DOMAIN f.data /\ f.data[i] = p
        /\ Cardinality(k) = f.accumulated => f.size = SizeOf(p, f)
    BY <1>3, <1>4, <1>6 DEF SourcesOK
  <2>2. f.accumulated = f.frgmnts
    BY <1>2, <1>3, <2>1
  <2>3. k \subseteq all
    BY <1>2, <2>1 DEF Idx
  <2>4. IsFiniteSet(all) /\ Cardinality(all) = f.frgmnts
    BY <1>2, PlacesOf
  <2>5. /\ Cardinality(k) <= Cardinality(all)
        /\ Cardinality(all) = Cardinality(k) => all = k
    <3> HIDE DEF all, k
    <3> QED BY <2>3, <2>4, FS_Subset
  <2>6. ~d.twice => k = all
    BY <1>3, <1>4, <2>2, <2>4, <2>5 DEF Counted
  <2>7. d.missing = {} => k = all
    BY <1>4, <2>3
  <2>8. ASSUME k = all PROVE d.size = Bytes(p) /\ DOMAIN d.data = 0..(Packets[p] - 1)
    <3>1. f.size = SizeOf(p, f) /\ Packets[p] - 1 \in k
      <4>1. PICK c \in 1..31 : c = Packets[p]
        BY PacketSizes
      <4>2. c - 1 \in 0..(c - 1)
        OBVIOUS
      <4> QED BY <2>1, <2>2, <2>4, <2>8, <4>1, <4>2
    <3>2. f.size = Bytes(p)
      <4>1. PICK c \in 1..31, x \in Nat, l \in Nat :
              c = Packets[p] /\ x = MaxMsgSize /\ l = LastLen[p]
        <5>1. Packets[p] \in 1..31
          BY PacketSizes
        <5>2. MaxMsgSize \in Nat /\ LastLen[p] \in 1..MaxMsgSize
          BY FragmentLengths
        <5>3. LastLen[p] \in Nat
          BY <5>2
        <5> QED BY <5>1, <5>2, <5>3, Zenon
      <4>2. SizeOf(p, f) = c * x - (x - l)
        BY <2>1, <2>2, <3>1, <4>1 DEF SizeOf
      <4>3. c * x = (c - 1) * x + x /\ (c - 1) * x \in Nat
        OBVIOUS
      <4> QED BY <3>1, <4>1, <4>2, <4>3 DEF Bytes
    <3> QED BY <1>4, <3>2, PlacesOfBytes
  <2>9. ASSUME NEW i \in DOMAIN d.data, i \in 0..(Packets[p] - 1) \ d.missing PROVE d.data[i] = p
    <3>1. i \in k
      BY <1>4, <2>1, <2>9
    <3> QED BY <1>4, <2>1, <2>9, <3>1
  <2>10. d.missing # {} => d.twice
    BY <1>4, <2>6
  <2> QED BY <2>6, <2>7, <2>8, <2>9, <2>10
<1> QED BY <1>5, <1>6 DEF d

OutInv == IncompleteOnlyIfTwice /\ SentIsOneDatagram

LEMMA InitOut == Init => OutInv
BY DEF Init, OutInv, IncompleteOnlyIfTwice, SentIsOneDatagram, NoOut

LEMMA StepOut ==
  FlowInv /\ SlotsTyped /\ FillInv /\ FromInv /\ OutInv /\ [Next]_vars => OutInv'
<1> SUFFICES ASSUME FlowInv, SlotsTyped, FillInv, FromInv, OutInv, [Next]_vars PROVE OutInv'
  OBVIOUS
<1>1. CASE IotSend
  <2>1. PICK s \in Slots : out' = Datagram(s) /\ Sending(s)
    BY <1>1 DEF IotSend, FlowInv, Sending
  <2>2. /\ \A p, q \in out'.from : SeqNumOf(p) = SeqNumOf(q)
        /\ \A p \in PktIds : out'.from = {p} =>
             /\ out'.missing # {} => out'.twice
             /\ \A i \in DOMAIN out'.data :
                  i \in 0..(Packets[p] - 1) \ out'.missing => out'.data[i] = p
             /\ ~out'.twice => out'.size = Bytes(p) /\ DOMAIN out'.data = 0..(Packets[p] - 1)
    BY <2>1, WhatIsSent
  <2>3. SentIsOneDatagram'
    BY <2>2 DEF SentIsOneDatagram
  <2>4. IncompleteOnlyIfTwice'
    BY <2>2 DEF IncompleteOnlyIfTwice
  <2> QED BY <2>3, <2>4 DEF OutInv
<1>2. CASE ~IotSend
  <2>1. out' = out
    BY <1>2 DEF Next, Defragment, Dumping, vars, peer, PeerSend, PeerReply, FusionReceive,
       DefragFind, DefragCreate, DefragLost, DefragStore, DumpCheck, Dump, Tick
  <2> QED BY <2>1 DEF OutInv, IncompleteOnlyIfTwice, SentIsOneDatagram
<1> QED BY <1>1, <1>2

\* What the device gets lacks a fragment only if another was counted in its place, or
\* datagrams with one sequence number met, for every list of datagrams.
THEOREM SentWholeUnlessTwice == Spec => []IncompleteOnlyIfTwice
<1>1. OutInv => IncompleteOnlyIfTwice
  BY DEF OutInv
<1> QED BY <1>1, InitFlow, StepFlow, InitSlots, StepSlots, InitFill, StepFill, InitFrom, StepFrom,
        InitOut, StepOut, PTL DEF Spec

\* The bytes that the device gets are those of one datagram, as many and in their
\* places, for every number of slots and every length: the exceptions are a fragment
\* that was counted twice, and datagrams whose sequence numbers are the same.
THEOREM SentUnmixed == Spec => []SentIsOneDatagram
<1>1. OutInv => SentIsOneDatagram
  BY DEF OutInv
<1> QED BY <1>1, InitFlow, StepFlow, InitSlots, StepSlots, InitFill, StepFill, InitFrom, StepFrom,
        InitOut, StepOut, PTL DEF Spec

-------------------------------------------------------------------------------
(* The requests *)

\* The requests for fragments of the first n datagrams.
Askable(n) == {r \in Request : \E p \in 1..n : SeqNumOf(p) = r.seqNum
                                               /\ r.fragmntLost < Packets[p]}

AskInv ==
  /\ asked \in Seq(Askable(sent.pkt)) /\ Len(asked) <= AskCap
  /\ last_pkt_seq \in SeqNums \cup {-1}
  /\ \A s \in Slots : fragments[s].frags_mask = {} => fragments[s].frgmnts = 0

LEMMA SeqNumRange == \A p \in Int : SeqNumOf(p) \in SeqNums
<1>1. PICK n \in Nat \ {0} : n = SeqSpace
  BY RxAssumption DEF RxAssumption
<1>2. \A p \in Int : p % n \in 0..(n - 1)
  OBVIOUS
<1> QED BY <1>1, <1>2 DEF SeqNumOf, SeqNums

\* A request of a fragment that a datagram of the peer has.
LEMMA ReqAskable ==
  ASSUME NEW n \in Int, NEW p \in 1..n, p \in PktIds, NEW i \in Int, 0 <= i, i < Packets[p],
         NEW s, s = SeqNumOf(p)
  PROVE  Req(s, i) \in Askable(n)
<1>1. PICK k \in 1..31 : k = Packets[p]
  BY PacketSizes
<1>2. i \in Idx /\ s \in SeqNums
  BY <1>1, SeqNumRange DEF Idx
<1>3. [seqNum |-> s, fragmntLost |-> i] \in Request
  BY <1>2 DEF Request
<1> QED BY <1>3 DEF Askable, Req

\* The socket takes as many as it has room for, the first ones.
LEMMA AskKeeps ==
  ASSUME NEW R, NEW rs \in Seq(R), asked \in Seq(R), Len(asked) <= AskCap, Ask(rs)
  PROVE  asked' \in Seq(R) /\ Len(asked') <= AskCap
<1> DEFINE n == Min({Len(rs), AskCap - Len(asked)})
<1>1. Len(rs) \in Nat /\ Len(asked) \in Nat /\ AskCap \in Nat
  BY LenProperties, RxAssumption DEF RxAssumption
<1>2. n \in {Len(rs), AskCap - Len(asked)} /\ n <= Len(rs) /\ n <= AskCap - Len(asked)
  <2>1. PICK a \in Int, b \in Int : a = Len(rs) /\ b = AskCap - Len(asked)
    BY <1>1
  <2> QED BY <2>1, MinTwo
<1>3. n \in Nat
  BY <1>1, <1>2
<1> HIDE DEF n
<1>4. SubSeq(rs, 1, n) \in Seq(R) /\ Len(SubSeq(rs, 1, n)) = n
  <2>1. \A j \in 1..n : j \in 1..Len(rs)
    BY <1>1, <1>2, <1>3
  <2> QED BY <1>3, <2>1, SubSeqProperties
<1>5. asked' = asked \o SubSeq(rs, 1, n)
  BY DEF Ask, n
<1> QED BY <1>1, <1>2, <1>3, <1>4, <1>5, ConcatProperties

LEMMA InitAsk == Init => AskInv
BY RxAssumption, EmptySeq DEF Init, AskInv, Cleared, RxAssumption

\* What rrudp_complete_last_pkt asks for are fragments of the datagram in the slot.
LEMMA CompletingKeeps ==
  ASSUME FlowInv, SlotsTyped, FillInv, AskInv, CompleteLastPkt(last_pkt_seq)
  PROVE  asked' \in Seq(Askable(sent.pkt)) /\ Len(asked') <= AskCap
<1> DEFINE s == last_pkt_seq
<1>1. CASE ~Found(s)
  BY <1>1 DEF CompleteLastPkt, AskInv
<1>2. CASE Found(s)
  <2> DEFINE I == Missing(s)
  <2>1. PICK q \in InOrder(I) : Ask([k \in DOMAIN q |-> Req(s, q[k])])
    BY <1>2 DEF CompleteLastPkt
  <2>2. s \in Slots /\ sent.pkt \in Int /\ sent.pkt <= Len(Packets)
    BY <1>2, RxAssumption, PacketSizes DEF Found, Slots, FlowInv, RxAssumption
  <2>3. fragments[s] \in SlotType
    BY <2>2 DEF SlotsTyped
  <2>4. PICK c \in 0..31 : c = fragments[s].frgmnts
    BY <2>3 DEF SlotType
  <2>5. ASSUME NEW i \in I PROVE Req(s, i) \in Askable(sent.pkt)
    <3>1. i \in 0..(c - 1)
      BY <2>4 DEF Missing
    <3>2. fragments[s].frags_mask # {}
      BY <2>2, <2>4, <3>1 DEF AskInv
    <3>3. PICK p \in 1..sent.pkt : SeqNumOf(p) = s /\ fragments[s].frgmnts = Packets[p]
      BY <2>2, <3>2 DEF FillInv, SlotFrom
    <3>4. p \in PktIds
      BY <2>2, PacketSizes DEF PktIds
    <3> QED BY <2>2, <2>4, <3>1, <3>3, <3>4, ReqAskable
  <2>6. Cardinality(I) \in Nat
    <3>1. IsFiniteSet(0..(c - 1)) /\ I \subseteq 0..(c - 1)
      BY <2>4, PlacesOf DEF Missing
    <3> QED BY <3>1, FS_Subset, FS_CardinalityType
  <2> HIDE DEF I
  <2>7. q \in [1..Cardinality(I) -> I]
    BY <2>1 DEF InOrder
  <2> DEFINE rs == [k \in DOMAIN q |-> Req(s, q[k])]
  <2>8. rs \in Seq(Askable(sent.pkt))
    <3>1. rs \in [1..Cardinality(I) -> Askable(sent.pkt)]
      BY <2>5, <2>7
    <3> QED BY <2>6, <3>1
  <2>9. Ask(rs)
    BY <2>1
  <2> HIDE DEF rs
  <2> QED BY <2>8, <2>9, AskKeeps DEF AskInv
<1> QED BY <1>1, <1>2

\* What defragment asks for is the fragment before the one that came.
LEMMA JumpKeeps ==
  ASSUME FlowInv, SlotsTyped, AskInv, DefragStore
  PROVE  asked' \in Seq(Askable(sent.pkt)) /\ Len(asked') <= AskCap
<1> DEFINE m == itx.msg
           f == fragments[SlotIndex(m)]
           r == Req(MsgSeq(m), m.idx - 1)
<1>1. CASE asked' = asked
  BY <1>1 DEF AskInv
<1>2. CASE m.idx > f.frgmntIdx + 1 /\ Ask(<<r>>)
  <2>1. m \in Known(sent.pkt) /\ SlotIndex(m) \in Slots
    BY DEF DefragStore, FlowInv
  <2>2. /\ m.pkt \in PktIds /\ m.pkt <= sent.pkt /\ m.idx < Packets[m.pkt] /\ m.idx \in Idx
        /\ sent.pkt \in Int
    BY <2>1, KnownShape, PacketSizes DEF FlowInv
  <2>3. f.frgmntIdx \in Idx
    BY <2>1 DEF SlotsTyped, SlotType
  <2>4. PICK c \in 1..31 : c = Packets[m.pkt]
    BY <2>2, PacketSizes
  <2>5. m.idx - 1 \in Int /\ 0 <= m.idx - 1 /\ m.idx - 1 < Packets[m.pkt] /\ m.pkt \in 1..sent.pkt
    <3>0. m.idx \in 0..30 /\ f.frgmntIdx \in 0..30 /\ m.pkt \in Int /\ 1 <= m.pkt
      BY <2>2, <2>3, PacketSizes DEF Idx, PktIds
    <3>1. PICK i \in 0..30, j \in 0..30, x \in Int, n \in Int :
             i = m.idx /\ j = f.frgmntIdx /\ x = m.pkt /\ n = sent.pkt /\ 1 <= x
      BY <2>2, <3>0
    <3>2. i > j + 1 /\ i < c /\ x <= n
      BY <1>2, <2>2, <2>4, <3>1
    <3>3. i - 1 \in Int /\ 0 <= i - 1 /\ i - 1 < c /\ x \in 1..n
      BY <3>1, <3>2
    <3> QED BY <2>4, <3>1, <3>3
  <2>6. r \in Askable(sent.pkt)
    BY <2>2, <2>5, ReqAskable DEF MsgSeq
  <2>7. <<r>> \in Seq(Askable(sent.pkt))
    BY <2>6
  <2> HIDE DEF r
  <2> QED BY <1>2, <2>7, AskKeeps DEF AskInv
<1>3. asked' = asked \/ (m.idx > f.frgmntIdx + 1 /\ Ask(<<r>>))
  BY DEF DefragStore
<1> QED BY <1>1, <1>2, <1>3

LEMMA StepAsk == FlowInv /\ SlotsTyped /\ FillInv /\ AskInv /\ [Next]_vars => AskInv'
<1> SUFFICES ASSUME FlowInv, SlotsTyped, FillInv, AskInv, [Next]_vars PROVE AskInv'
  OBVIOUS
<1>1. asked' \in Seq(Askable(sent'.pkt)) /\ Len(asked') <= AskCap
  <2>1. Askable(sent.pkt) \subseteq Askable(sent'.pkt)
    <3>1. sent.pkt \in Int /\ sent'.pkt \in Int /\ sent.pkt <= sent'.pkt
      BY SentSteps, PacketSizes DEF FlowInv
    <3>2. 1..sent.pkt \subseteq 1..sent'.pkt
      BY <3>1
    <3> QED BY <3>2 DEF Askable
  <2>2. asked' \in Seq(Askable(sent.pkt)) /\ Len(asked') <= AskCap
    <3>1. CASE DefragStore
      BY <3>1, JumpKeeps
    <3>2. CASE DefragCreate
      <4>1. CompleteLastPkt(last_pkt_seq) \/ UNCHANGED asked
        BY <3>2 DEF DefragCreate
      <4> QED BY <4>1, CompletingKeeps DEF AskInv
    <3>3. CASE PeerReply
      <4>1. asked # <<>> /\ asked' = Tail(asked)
        BY <3>3 DEF PeerReply
      <4> DEFINE R == Askable(sent.pkt)
      <4>2. asked \in Seq(R) /\ Len(asked) <= AskCap
        BY DEF AskInv
      <4> HIDE DEF R
      <4>3. asked' \in Seq(R) /\ Len(asked') = Len(asked) - 1 /\ Len(asked) \in Nat
        BY <4>1, <4>2, HeadTailProperties, LenProperties
      <4>4. Len(asked') <= AskCap
        BY <4>2, <4>3, RxAssumption DEF RxAssumption
      <4> QED BY <4>3, <4>4 DEF R
    <3>4. CASE ~DefragStore /\ ~DefragCreate /\ ~PeerReply
      <4>1. asked' = asked
        BY <3>4 DEF Next, Defragment, Dumping, vars, peer, PeerSend, FusionReceive, DefragFind,
           DefragLost, IotSend, DumpCheck, Dump, Tick
      <4> QED BY <4>1 DEF AskInv
    <3> QED BY <3>1, <3>2, <3>3, <3>4
  <2> QED BY <2>1, <2>2, SeqGrows
<1>2. last_pkt_seq' \in SeqNums \cup {-1}
  <2>1. ASSUME NEW m \in [pkt : Nat, idx : Nat] PROVE MsgSeq(m) \in SeqNums
    BY SeqNumRange DEF MsgSeq
  <2>2. CASE DefragStore
    <3>1. last_pkt_seq' = MsgSeq(itx.msg) /\ itx.msg \in [pkt : Nat, idx : Nat]
      BY <2>2 DEF DefragStore, FlowInv
    <3> QED BY <2>1, <3>1
  <2>3. CASE DefragFind
    <3>1. last_pkt_seq' = MsgSeq(Head(fusionThrOutFifo)) /\ fusionThrOutFifo # <<>>
      BY <2>3 DEF DefragFind
    <3>2. Head(fusionThrOutFifo) \in Known(sent.pkt)
      BY <3>1, HeadTailProperties DEF FlowInv
    <3> QED BY <2>1, <3>1, <3>2, KnownShape
  <2>4. CASE ~DefragStore /\ ~DefragFind
    <3>1. last_pkt_seq' = last_pkt_seq
      BY <2>4 DEF Next, Defragment, Dumping, vars, peer, PeerSend, PeerReply, FusionReceive,
         DefragCreate, DefragLost, IotSend, DumpCheck, Dump, Tick
    <3> QED BY <3>1 DEF AskInv
  <2> QED BY <2>2, <2>3, <2>4
<1>3. ASSUME NEW s \in Slots PROVE fragments'[s].frags_mask = {} => fragments'[s].frgmnts = 0
  <2>1. fragments[s].frags_mask = {} => fragments[s].frgmnts = 0
    BY DEF AskInv
  <2>2. CASE DefragStore /\ s = SlotIndex(itx.msg) /\ fragments'[s] = Filled(fragments[s], itx.msg)
    <3>1. fragments[s] \in SlotType /\ itx.msg.pkt \in PktIds /\ itx.msg.idx \in Idx
      BY <2>2, KnownShape DEF SlotsTyped, FlowInv, DefragStore
    <3>2. fragments'[s].frags_mask = fragments[s].frags_mask \cup {itx.msg.idx}
      BY <2>2, <3>1, FilledTyped
    <3> QED BY <3>2
  <2>3. CASE fragments'[s] = Cleared
    BY <2>3 DEF Cleared
  <2> QED BY <2>1, <2>2, <2>3, SlotSteps DEF Alike
<1> QED BY <1>1, <1>2, <1>3 DEF AskInv

\* Every request is for a fragment of a datagram that the peer has begun to send,
\* for every number of slots, and whatever is lost, overtaken, dumped or wraps.
THEOREM RequestsAreReal == Spec => []AskedExists
<1>1. AskInv => AskedExists
  <2> SUFFICES ASSUME AskInv, NEW k \in 1..Len(asked)
               PROVE  \E p \in 1..sent.pkt : SeqNumOf(p) = asked[k].seqNum
                                             /\ asked[k].fragmntLost < Packets[p]
    BY DEF AskedExists
  <2>1. asked[k] \in Askable(sent.pkt)
    BY ElementOfSeq DEF AskInv
  <2> QED BY <2>1 DEF Askable
<1> QED BY <1>1, InitFlow, StepFlow, InitSlots, StepSlots, InitFill, StepFill, InitAsk, StepAsk,
        PTL DEF Spec

-------------------------------------------------------------------------------
(* Types, capacities and buffers *)

NetInv  == Len(net) <= NetCap /\ nReplies \in 0..MaxReplies
BufInv  == freeBufs \in Nat /\ Len(fusionThrOutFifo) + freeBufs + Held <= NBufs
RoomInv == \A s \in Slots : fragments[s].accumulated <= IF Sending(s) THEN 31 ELSE 30
ScanInv ==
  /\ pkt_drop_count \in 0..(DropPeriod - 1) /\ scan \in 0..(MaxPkts - 1) \cup {None}
  /\ status \in {"run", "null", "overrun"} /\ pkts_recv \in Nat
  /\ twice \subseteq Slots /\ raced \in BOOLEAN

LEMMA InitRest == Init => NetInv /\ BufInv /\ RoomInv /\ ScanInv
<1> SUFFICES ASSUME Init PROVE NetInv /\ BufInv /\ RoomInv /\ ScanInv
  OBVIOUS
<1>1. NetInv
  BY RxAssumption DEF Init, NetInv, RxAssumption
<1>2. BufInv
  <2>1. Held = 0
    BY DEF Init, Held, ItxIdle
  <2> QED BY <2>1, RxAssumption DEF Init, BufInv, RxAssumption
<1>3. RoomInv
  BY DEF Init, RoomInv, Cleared
<1>4. ScanInv
  <2>1. 0 \in 0..(DropPeriod - 1)
    BY RxAssumption DEF RxAssumption
  <2> QED BY <2>1 DEF Init, ScanInv
<1> QED BY <1>1, <1>2, <1>3, <1>4

LEMMA StepNet == FlowInv /\ NetInv /\ [Next]_vars => NetInv'
<1> SUFFICES ASSUME FlowInv, NetInv, [Next]_vars PROVE NetInv'
  OBVIOUS
<1> DEFINE S == Known(sent.pkt)
<1>0. net \in Seq(S) /\ Len(net) \in Nat /\ Len(net) <= NetCap /\ NetCap \in Nat
  BY LenProperties, RxAssumption DEF FlowInv, NetInv, RxAssumption
<1> HIDE DEF S
<1>1. ASSUME NEW m, Transmit(m) PROVE Len(net') <= NetCap
  <2>1. Len(Append(net, m)) = Len(net) + 1
    <3>1. net \in Seq(S \cup {m})
      BY <1>0, SeqGrows
    <3> QED BY <3>1, AppendProperties
  <2> QED BY <1>0, <1>1, <2>1 DEF Transmit
<1>2. Len(net') <= NetCap
  <2>1. CASE FusionReceive
    <3>1. PICK i \in 1..Len(net) : net' = RemoveAt(net, i)
      BY <2>1 DEF FusionReceive
    <3>2. Len(RemoveAt(net, i)) = Len(net) - 1
      BY <1>0, RemovedInSeq
    <3> QED BY <1>0, <3>1, <3>2
  <2>2. CASE PeerSend \/ PeerReply
    BY <1>0, <1>1, <2>2 DEF PeerSend, PeerReply
  <2>3. CASE ~FusionReceive /\ ~PeerSend /\ ~PeerReply
    BY <1>0, <2>3 DEF Next, Defragment, Dumping, vars, peer, DefragFind, DefragCreate,
       DefragLost, DefragStore, IotSend, DumpCheck, Dump, Tick
  <2> QED BY <2>1, <2>2, <2>3
<1>3. nReplies' \in 0..MaxReplies
  <2>1. nReplies' = nReplies \/ (nReplies < MaxReplies /\ nReplies' = nReplies + 1)
    BY DEF Next, Defragment, Dumping, vars, peer, PeerSend, PeerReply, FusionReceive,
       DefragFind, DefragCreate, DefragLost, DefragStore, IotSend, DumpCheck, Dump, Tick
  <2> QED BY <2>1, RxAssumption DEF NetInv, RxAssumption
<1> QED BY <1>2, <1>3 DEF NetInv

\* A buffer is free, in fusionThrOutFifo, in hand, or lost with its fragment.
\* What each step does to the number of buffers in circulation.
LEMMA InUseSteps ==
  ASSUME FlowInv, BufInv, [Next]_vars
  PROVE  /\ InUse \in Int /\ freeBufs' \in Nat
         /\ \/ InUse' = InUse
            \/ InUse' = InUse - 1 /\ (pkt_drop_count = 0 \/ status' # status)
<1> DEFINE S == Known(sent.pkt)
           n == Len(fusionThrOutFifo)
<1>0. /\ fusionThrOutFifo \in Seq(S) /\ n \in Nat /\ freeBufs \in Nat
      /\ itx.pc \in {"get", "store", "send"} /\ Held \in {0, 1}
  BY LenProperties DEF FlowInv, BufInv, Held
<1> HIDE DEF S
<1>1. CASE FusionReceive
  <2>1. PICK i \in 1..Len(net) :
           fusionThrOutFifo' = IF pkt_drop_count # 0 THEN Append(fusionThrOutFifo, net[i])
                                                     ELSE fusionThrOutFifo
    BY <1>1 DEF FusionReceive
  <2>2. net[i] \in S
    BY ElementOfSeq DEF FlowInv, S
  <2>3. \/ Len(fusionThrOutFifo') = n + 1
        \/ Len(fusionThrOutFifo') = n /\ pkt_drop_count = 0
    BY <1>0, <2>1, <2>2, AppendProperties
  <2>4. freeBufs > 0 /\ freeBufs' = freeBufs - 1 /\ Held' = Held
    BY <1>1 DEF FusionReceive, Held
  <2> QED BY <1>0, <2>3, <2>4 DEF InUse
<1>2. CASE DefragFind \/ DefragCreate \/ DefragLost
  <2>1. /\ fusionThrOutFifo # <<>> /\ fusionThrOutFifo' = Tail(fusionThrOutFifo)
        /\ freeBufs' = freeBufs /\ itx.pc = "get"
        /\ \/ itx'.pc = "store"
           \/ itx' = itx /\ status' # status
    BY <1>2 DEF DefragFind, DefragCreate, DefragLost, Running
  <2>2. Len(fusionThrOutFifo') = n - 1
    BY <1>0, <2>1, HeadTailProperties
  <2>3. Held = 0 /\ (Held' = 1 \/ (Held' = 0 /\ status' # status))
    BY <2>1 DEF Held
  <2> QED BY <1>0, <2>1, <2>2, <2>3 DEF InUse
<1>3. CASE DefragStore \/ IotSend
  <2>1. /\ fusionThrOutFifo' = fusionThrOutFifo /\ itx.pc \in {"store", "send"}
        /\ \/ freeBufs' = freeBufs /\ itx' = [itx EXCEPT !.pc = "send"]
           \/ freeBufs' = freeBufs + 1 /\ itx' = ItxIdle
    BY <1>3 DEF DefragStore, IotSend, PutBack
  <2>2. /\ Held = 1 /\ (itx' = ItxIdle => Held' = 0)
        /\ itx' = [itx EXCEPT !.pc = "send"] => Held' = 1
    <3>1. itx' = [itx EXCEPT !.pc = "send"] => itx'.pc = "send"
      BY DEF FlowInv
    <3>2. itx' = ItxIdle => itx'.pc = "get"
      BY DEF ItxIdle
    <3>3. Held = 1
      BY <2>1 DEF Held
    <3>4. (itx'.pc = "get" => Held' = 0) /\ (itx'.pc = "send" => Held' = 1)
      BY DEF Held
    <3> QED BY <3>1, <3>2, <3>3, <3>4, Zenon
  <2> QED BY <1>0, <2>1, <2>2 DEF InUse
<1>4. CASE ~FusionReceive /\ ~DefragFind /\ ~DefragCreate /\ ~DefragLost /\ ~DefragStore /\ ~IotSend
  <2>1. fusionThrOutFifo' = fusionThrOutFifo /\ freeBufs' = freeBufs /\ itx' = itx
    BY <1>4 DEF Next, Defragment, Dumping, vars, peer, PeerSend, PeerReply, DumpCheck, Dump, Tick
  <2> QED BY <1>0, <2>1 DEF InUse, Held
<1> QED BY <1>1, <1>2, <1>3, <1>4

LEMMA StepBuf == FlowInv /\ BufInv /\ [Next]_vars => BufInv'
<1> SUFFICES ASSUME FlowInv, BufInv, [Next]_vars PROVE BufInv'
  OBVIOUS
<1>1. /\ InUse \in Int /\ freeBufs' \in Nat /\ InUse' <= InUse /\ InUse <= NBufs
      /\ NBufs \in Int
  <2>1. Len(fusionThrOutFifo) \in Nat /\ freeBufs \in Nat /\ Held \in {0, 1}
    BY LenProperties DEF FlowInv, BufInv, Held
  <2> QED BY <2>1, InUseSteps, RxAssumption DEF BufInv, InUse
<1>2. InUse' <= NBufs
  BY <1>1, InUseSteps
<1>3. /\ Len(fusionThrOutFifo') \in Nat /\ Held' \in {0, 1}
  BY StepFlow, LenProperties DEF FlowInv, Held
<1> QED BY <1>1, <1>2, <1>3 DEF BufInv, InUse

\* A slot never counts more fragments than a datagram can have.
LEMMA StepRoom == FlowInv /\ SlotsTyped /\ RoomInv /\ [Next]_vars => RoomInv'
<1> SUFFICES ASSUME FlowInv, SlotsTyped, RoomInv, [Next]_vars, NEW s \in Slots
             PROVE  fragments'[s].accumulated <= IF Sending(s)' THEN 31 ELSE 30
  BY DEF RoomInv
<1> DEFINE a == fragments[s].accumulated
           b == fragments'[s].accumulated
<1>0. a \in Nat /\ b \in Nat /\ a <= IF Sending(s) THEN 31 ELSE 30
  <2>1. fragments[s] \in SlotType /\ fragments'[s] \in SlotType
    BY SlotSteps DEF SlotsTyped
  <2> QED BY <2>1 DEF SlotType, RoomInv
<1>1. CASE DefragStore /\ s = SlotIndex(itx.msg) /\ fragments'[s] = Filled(fragments[s], itx.msg)
  <2>1. /\ fragments[s] \in SlotType /\ itx.msg.pkt \in PktIds /\ itx.msg.idx \in Idx
        /\ itx.pc = "store"
    BY <1>1, KnownShape DEF SlotsTyped, FlowInv, DefragStore
  <2>2. b = a + 1 /\ ~Sending(s)
    BY <2>1, <1>1, FilledTyped DEF Sending
  <2>3. IF Packets[itx.msg.pkt] <= b THEN Sending(s)' ELSE ~Sending(s)'
    BY <1>1, SendingSteps
  <2>4. PICK c \in 1..31 : c = Packets[itx.msg.pkt]
    BY <2>1, PacketSizes
  <2> HIDE DEF a, b
  <2>5. b <= IF Sending(s)' THEN 31 ELSE 30
    BY <1>0, <2>2, <2>3, <2>4
  <2> QED BY <2>5 DEF b
<1>2. CASE b = 0
  BY <1>2
<1>3. CASE b = a /\ ~(DefragStore /\ s = SlotIndex(itx.msg)) /\ ~(IotSend /\ s = SlotIndex(itx.msg))
  <2>1. Sending(s)' <=> Sending(s)
    BY <1>3, SendingSteps
  <2> QED BY <1>0, <1>3, <2>1
<1>4. \/ DefragStore /\ s = SlotIndex(itx.msg) /\ fragments'[s] = Filled(fragments[s], itx.msg)
      \/ b = 0
      \/ b = a /\ ~(DefragStore /\ s = SlotIndex(itx.msg)) /\ ~(IotSend /\ s = SlotIndex(itx.msg))
  <2>1. Cleared.accumulated = 0
    BY DEF Cleared
  <2>2. Dump => ~DefragStore /\ ~IotSend
    BY DEF Dump, DefragStore, IotSend, vars, FlowInv, ItxIdle
  <2> QED BY <2>1, <2>2, SlotSteps DEF Alike
<1> QED BY <1>1, <1>2, <1>3, <1>4

LEMMA StepScan == FlowInv /\ SlotsTyped /\ ScanInv /\ [Next]_vars => ScanInv'
<1> SUFFICES ASSUME FlowInv, SlotsTyped, ScanInv, [Next]_vars PROVE ScanInv'
  OBVIOUS
<1>1. pkt_drop_count' \in 0..(DropPeriod - 1)
  <2>1. pkt_drop_count' = pkt_drop_count \/ pkt_drop_count' = (pkt_drop_count + 1) % DropPeriod
    BY DEF Next, Defragment, Dumping, vars, peer, PeerSend, PeerReply, FusionReceive,
       DefragFind, DefragCreate, DefragLost, DefragStore, IotSend, DumpCheck, Dump, Tick
  <2>2. PICK d \in Nat \ {0} : d = DropPeriod
    BY RxAssumption DEF RxAssumption
  <2>3. \A x \in Int : x % d \in 0..(d - 1)
    OBVIOUS
  <2>4. pkt_drop_count \in 0..(d - 1) /\ pkt_drop_count + 1 \in Int
    BY <2>2 DEF ScanInv
  <2>5. pkt_drop_count' = pkt_drop_count \/ pkt_drop_count' = (pkt_drop_count + 1) % d
    BY <2>1, <2>2
  <2>6. pkt_drop_count' \in 0..(d - 1)
    BY <2>3, <2>4, <2>5
  <2> QED BY <2>2, <2>6
<1>2. scan' \in 0..(MaxPkts - 1) \cup {None}
  BY DEF ScanInv, Next, Defragment, Dumping, vars, peer, PeerSend, PeerReply, FusionReceive,
     DefragFind, DefragCreate, DefragLost, DefragStore, IotSend, DumpCheck, Dump, Tick
<1>3. status' \in {"run", "null", "overrun"}
  BY DEF ScanInv, Next, Defragment, Dumping, vars, peer, PeerSend, PeerReply, FusionReceive,
     DefragFind, DefragCreate, DefragLost, DefragStore, IotSend, DumpCheck, Dump, Tick
<1>4. pkts_recv' \in Nat
  <2>1. pkts_recv' = pkts_recv \/ pkts_recv' = pkts_recv + 1
    BY DEF PutBack, Next, Defragment, Dumping, vars, peer, PeerSend, PeerReply, FusionReceive,
       DefragFind, DefragCreate, DefragLost, DefragStore, IotSend, DumpCheck, Dump, Tick
  <2> QED BY <2>1 DEF ScanInv
<1>5. twice' \subseteq Slots
  <2>1. CASE DefragStore
    <3>1. twice' = twice \/ twice' = twice \cup {SlotIndex(itx.msg)}
      BY <2>1 DEF DefragStore
    <3>2. SlotIndex(itx.msg) \in Slots
      BY <2>1 DEF DefragStore, FlowInv
    <3> QED BY <3>1, <3>2 DEF ScanInv
  <2>2. CASE DefragCreate \/ IotSend
    BY <2>2 DEF ScanInv, DefragCreate, IotSend
  <2>3. CASE ~DefragStore /\ ~DefragCreate /\ ~IotSend
    BY <2>3 DEF ScanInv, Next, Defragment, Dumping, vars, peer, ghosts, PeerSend, PeerReply,
       FusionReceive, DefragFind, DefragLost, DumpCheck, Dump, Tick
  <2> QED BY <2>1, <2>2, <2>3
<1>6. raced' \in BOOLEAN
  <2>1. CASE DefragStore \/ Dump
    <3>1. \E b \in BOOLEAN : raced' = (raced \/ b)
      BY <2>1, Zenon DEF DefragStore, Dump
    <3> QED BY <3>1 DEF ScanInv
  <2>2. CASE ~DefragStore /\ ~Dump
    BY <2>2 DEF ScanInv, Next, Defragment, Dumping, vars, peer, ghosts, PeerSend, PeerReply,
       FusionReceive, DefragFind, DefragCreate, DefragLost, IotSend, DumpCheck, Tick
  <2> QED BY <2>1, <2>2
<1> QED BY <1>1, <1>2, <1>3, <1>4, <1>5, <1>6 DEF ScanInv

\* The type invariant of the receiving path, with its capacities: every buffer is in
\* one place or lost, and no packet counts more fragments than it can have.
THEOREM TypeInvariant == Spec => []TypeOK
<1>1. FlowInv /\ SlotsTyped /\ FromInv /\ AskInv /\ NetInv /\ BufInv /\ RoomInv /\ ScanInv =>
        TypeOK
  <2> SUFFICES ASSUME FlowInv, SlotsTyped, FromInv, AskInv, NetInv, BufInv, RoomInv, ScanInv
               PROVE  TypeOK
    OBVIOUS
  <2>1. Known(sent.pkt) \subseteq Fragment /\ Askable(sent.pkt) \subseteq Request
    BY DEF Known, Fragment, Askable
  <2>2. net \in Seq(Fragment) /\ fusionThrOutFifo \in Seq(Fragment) /\ asked \in Seq(Request)
    <3>1. /\ net \in Seq(Known(sent.pkt)) /\ fusionThrOutFifo \in Seq(Known(sent.pkt))
          /\ asked \in Seq(Askable(sent.pkt))
      BY DEF FlowInv, AskInv
    <3> QED BY <2>1, <3>1, SeqGrows
  <2>3. itx.pc \in {"get", "store", "send"} /\ (itx.pc # "get" => itx.msg \in Fragment)
    BY <2>1 DEF FlowInv
  <2>4. freeBufs \in 0..NBufs
    <3>1. Len(fusionThrOutFifo) \in Nat /\ Held \in {0, 1} /\ NBufs \in Nat
      BY <2>2, LenProperties, RxAssumption DEF Held, RxAssumption
    <3> QED BY <3>1 DEF BufInv
  <2>5. ASSUME NEW s \in Slots PROVE Slot(fragments[s])
    <3> DEFINE f == fragments[s]
    <3>1. f \in SlotType /\ f.accumulated <= 31
      <4>1. f \in SlotType
        BY DEF SlotsTyped
      <4>2. f.accumulated \in Nat /\ f.accumulated <= IF Sending(s) THEN 31 ELSE 30
        BY <4>1 DEF SlotType, RoomInv
      <4> QED BY <4>1, <4>2
    <3>5. f.size \in 0..(31 * MaxMsgSize)
      <4>1. f.size \in Nat /\ f.accumulated \in Nat /\ f.size <= f.accumulated * MaxMsgSize
        BY <3>1 DEF SlotType, FromInv, SourcesOK
      <4> HIDE DEF f
      <4>2. PICK a \in Nat, x \in Nat : a = f.accumulated /\ x = MaxMsgSize
        BY <4>1, FragmentLengths
      <4>3. a * x <= 31 * x
        BY <3>1, <4>2, TimesMonotonic
      <4> QED BY <4>1, <4>2, <4>3
    <3> HIDE DEF f
    <3>2. PICK D \in SUBSET Idx : f.data \in [D -> PktIds]
      BY <3>1 DEF SlotType, Copies
    <3>3. DOMAIN f.data \subseteq Idx /\ \A i \in DOMAIN f.data : f.data[i] \in PktIds
      BY <3>2
    <3>4. Slot(f)
      BY <3>1, <3>3, <3>5 DEF SlotType, Slot
    <3> QED BY <3>4 DEF f
  <2>6. DOMAIN fragments = Slots
    BY DEF SlotsTyped
  <2> QED BY <2>2, <2>3, <2>4, <2>5, <2>6
          DEF TypeOK, NetInv, BufInv, AskInv, ScanInv, FromInv
<1> QED BY <1>1, InitFlow, StepFlow, InitSlots, StepSlots, InitFill, StepFill, InitFrom,
        StepFrom, InitAsk, StepAsk, InitRest, StepNet, StepBuf, StepRoom, StepScan, PTL DEF Spec
\* Only the simulated loss, one fragment in DropPeriod, and the end of the process take
\* a buffer out of circulation, and no path gives one back twice.
THEOREM BuffersLeaveSlowly == Spec => BuffersLeaveByLoss
<1>1. FlowInv /\ BufInv /\ [Next]_vars =>
        [\/ InUse' = InUse
         \/ InUse' = InUse - 1 /\ (pkt_drop_count = 0 \/ status' # status)]_vars
  BY InUseSteps, Zenon
<1> QED BY <1>1, InitFlow, StepFlow, InitRest, StepBuf, PTL DEF Spec, BuffersLeaveByLoss

-------------------------------------------------------------------------------
(* How the process is lost *)

LEMMA InitLost == Init => LostOnlyBeyondTable
BY DEF Init, LostOnlyBeyondTable

LEMMA StepLost ==
  FlowInv /\ SlotsTyped /\ LostOnlyBeyondTable /\ [Next]_vars => LostOnlyBeyondTable'
<1> SUFFICES ASSUME FlowInv, SlotsTyped, LostOnlyBeyondTable, [Next]_vars
             PROVE  LostOnlyBeyondTable'
  OBVIOUS
<1>0. MaxPkts \in Nat \ {0} /\ MaxPkts \in Slots
  BY RxAssumption DEF Slots
<1>1. 1..sent.pkt \subseteq 1..sent'.pkt
  <2>1. sent.pkt \in Int /\ sent'.pkt \in Int /\ sent.pkt <= sent'.pkt
    BY SentSteps, PacketSizes DEF FlowInv
  <2> QED BY <2>1
<1>2. CASE DefragLost
  <2> DEFINE m == Head(fusionThrOutFifo)
             s == SlotIndex(m)
  <2>1. /\ ~Found(s) /\ sent' = sent /\ fragments' = fragments /\ fusionThrOutFifo # <<>>
        /\ \/ s \in Slots /\ fragments[s].used /\ status' = "null"
           \/ s \notin Slots /\ status' = "overrun"
    BY <1>2 DEF DefragLost, peer
  <2>2. m \in Known(sent.pkt)
    BY <2>1, HeadTailProperties DEF FlowInv
  <2>3. m.pkt \in PktIds /\ m.pkt <= sent.pkt
    BY <2>2, KnownShape
  <2>4. m.pkt \in 1..sent.pkt /\ s = SeqNumOf(m.pkt)
    BY <2>3, PacketSizes DEF PktIds, FlowInv, SlotIndex, MsgSeq
  <2>5. s \in Nat
    <3>1. SeqSpace \in Nat \ {0} /\ m.pkt \in Nat
      BY <2>3, RxAssumption, PacketSizes DEF PktIds
    <3> HIDE DEF m
    <3>2. m.pkt % SeqSpace \in Nat
      BY <3>1
    <3> QED BY <2>4, <3>2 DEF SeqNumOf
  <2> HIDE DEF s, m
  <2>6. CASE s \in Slots /\ fragments[s].used /\ status' = "null"
    <3>1. s = MaxPkts
      BY <1>0, <2>1, <2>5, <2>6 DEF Found, Slots
    <3> QED BY <2>1, <2>4, <2>6, <3>1 DEF LostOnlyBeyondTable
  <2>7. CASE s \notin Slots /\ status' = "overrun"
    <3>1. s > MaxPkts
      BY <1>0, <2>5, <2>7 DEF Slots
    <3> QED BY <2>1, <2>4, <2>7, <3>1 DEF LostOnlyBeyondTable
  <2> QED BY <2>1, <2>6, <2>7
<1>3. CASE ~DefragLost
  <2>1. status' = status
    BY <1>3 DEF Next, Defragment, Dumping, vars, peer, PeerSend, PeerReply, FusionReceive,
       DefragFind, DefragCreate, DefragStore, IotSend, DumpCheck, Dump, Tick
  <2>2. ~Running => fragments'[MaxPkts].used = fragments[MaxPkts].used
    <3> SUFFICES ASSUME ~Running PROVE fragments'[MaxPkts].used = fragments[MaxPkts].used
      OBVIOUS
    <3>1. ~DefragStore /\ ~IotSend /\ ~DefragCreate /\ ~Dump
      BY DEF DefragStore, IotSend, DefragCreate, Dump
    <3> QED BY <1>0, <3>1, SlotSteps
  <2> QED BY <1>1, <2>1, <2>2 DEF LostOnlyBeyondTable, Running
<1> QED BY <1>2, <1>3

\* The process is lost only to fragments whose sequence number has no slot of its own:
\* for any size of the table, a peer that numbers its datagrams below MAX_PKTS cannot
\* bring it down, whatever is lost, repeated, overtaken or dumped at a bad moment.
THEOREM LostBeyondTable == Spec => []LostOnlyBeyondTable
BY InitFlow, StepFlow, InitSlots, StepSlots, InitLost, StepLost, PTL DEF Spec

=============================================================================
