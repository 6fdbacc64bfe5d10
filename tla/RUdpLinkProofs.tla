--------------------------- MODULE RUdpLinkProofs ---------------------------
(***************************************************************************)
(* Proofs about RUdpLink, for any number of losses: its steps are steps of *)
(* RxPath, so what is invariant in the path is invariant on the link, and  *)
(* what it calls delivered is a datagram of the peer.                      *)
(***************************************************************************)
EXTENDS RUdpLink, RxPathProofs

LEMMA LinkStep == [LinkNext]_linkVars => [Next]_vars
<1> SUFFICES ASSUME [LinkNext]_linkVars PROVE [Next]_vars
  OBVIOUS
<1>1. CASE Send
  BY <1>1 DEF Send, Next
<1>2. CASE Reply
  BY <1>2 DEF Reply, Next
<1>3. CASE Receive
  BY <1>3 DEF Receive, Next
<1>4. CASE Reassemble
  BY <1>4 DEF Reassemble, Next
<1>5. CASE UNCHANGED linkVars
  BY <1>5 DEF linkVars
<1> QED BY <1>1, <1>2, <1>3, <1>4, <1>5 DEF LinkNext

\* The step that delivers a datagram hands its bytes to the device.
LEMMA DeliveryStep ==
  ASSUME FlowInv, SlotsTyped, FillInv, FromInv, [LinkNext]_linkVars,
         NEW p \in delivered' \ delivered
  PROVE  out'.size = Bytes(p) /\ out'.data = [i \in 0..(Packets[p] - 1) |-> p]
<1>1. Reassemble
  BY DEF LinkNext, Send, Reply, Receive, linkVars
<1>2. /\ itx.pc = "send" /\ out'.missing = {} /\ out'.from = {p} /\ p = itx.msg.pkt
      /\ Defragment
  BY <1>1 DEF Reassemble
<1>3. IotSend
  BY <1>2 DEF Defragment, DefragFind, DefragCreate, DefragLost, DefragStore
<1>4. p \in PktIds
  BY <1>2, KnownShape DEF FlowInv
<1>5. PICK s \in Slots : Sending(s) /\ out' = Datagram(s)
  BY <1>2, <1>3 DEF FlowInv, Sending, IotSend
<1> DEFINE d == Datagram(s)
<1>6. /\ d.size = Bytes(p) /\ DOMAIN d.data = 0..(Packets[p] - 1)
      /\ \A i \in DOMAIN d.data : d.data[i] = p
  <2>1. d.missing = {} /\ d.from = {p}
    BY <1>2, <1>5
  <2>2. \A q \in PktIds : d.from = {q} =>
          /\ \A i \in DOMAIN d.data : i \in 0..(Packets[q] - 1) \ d.missing => d.data[i] = q
          /\ ~d.twice \/ d.missing = {} =>
               d.size = Bytes(q) /\ DOMAIN d.data = 0..(Packets[q] - 1)
    BY <1>5, WhatIsSent
  <2> HIDE DEF d
  <2> QED BY <1>4, <2>1, <2>2
<1>7. d.data = [i \in DOMAIN d.data |-> d.data[i]]
  BY DEF Datagram
<1> HIDE DEF d
<1>8. d.data = [i \in 0..(Packets[p] - 1) |-> p]
  BY <1>6, <1>7
<1> QED BY <1>5, <1>6, <1>8 DEF d

\* Each datagram that counts as delivered, after any number of losses and answered
\* requests, is the datagram that the peer sent: as long, and fragment for fragment.
THEOREM DeliveredIsSent == LinkSpec => DeliveredAsSent
<1>1. LinkInit => FlowInv /\ SlotsTyped /\ FillInv /\ FromInv
  BY InitFlow, InitSlots, InitFill, InitFrom DEF LinkInit
<1>2. FlowInv /\ SlotsTyped /\ FillInv /\ FromInv /\ [LinkNext]_linkVars =>
        (FlowInv /\ SlotsTyped /\ FillInv /\ FromInv)'
  BY LinkStep, StepFlow, StepSlots, StepFill, StepFrom
<1>3. FlowInv /\ SlotsTyped /\ FillInv /\ FromInv /\ [LinkNext]_linkVars =>
        [\A p \in delivered' \ delivered :
           out'.size = Bytes(p) /\ out'.data = [i \in 0..(Packets[p] - 1) |-> p]]_linkVars
  BY DeliveryStep, Zenon
<1> QED BY <1>1, <1>2, <1>3, PTL DEF LinkSpec, DeliveredAsSent
===============================================================================
