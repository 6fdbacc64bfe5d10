------------------------------- MODULE RUdpLink -------------------------------
(***************************************************************************)
(* What the retransmission is for: RxPath on a link that keeps the order,  *)
(* loses no more than MaxLosses of the fragments that the peer sends and   *)
(* none of those it sends again, with a peer that still keeps what it is   *)
(* asked for (handle_lost_request, hist_find_frag), all within the timeout *)
(* of the slots.  The first fragment that arrives is lost besides, by the  *)
(* simulated loss.                                                         *)
(***************************************************************************)
EXTENDS RxPath

CONSTANT MaxLosses

ASSUME LinkAssumption == MaxLosses \in Nat

VARIABLES
  lost,       \* fragments that the link has lost
  delivered   \* datagrams that the device has received entire

linkVars == <<vars, lost, delivered>>

LinkInit == Init /\ lost = {} /\ delivered = {}

\* A fragment is sent for the first time, and arrives or is lost.
Send ==
  /\ PeerSend
  /\ \/ net' # net /\ UNCHANGED lost
     \/ net' = net /\ Cardinality(lost) < MaxLosses /\ lost' = lost \cup {sent'}
  /\ UNCHANGED delivered

\* handle_lost_request at the peer: what was sent is still kept, and is sent again.
\* A fragment that was not sent yet is not found.
Reply ==
  /\ PeerReply
  /\ net' # net \/ Answers(Head(asked)) = {}
  /\ UNCHANGED <<lost, delivered>>

Receive == FusionReceive /\ UNCHANGED <<lost, delivered>>

Reassemble ==
  /\ Defragment
  /\ delivered' = IF itx.pc = "send" /\ out'.missing = {} /\ out'.from = {itx.msg.pkt}
                  THEN delivered \cup {itx.msg.pkt} ELSE delivered
  /\ UNCHANGED lost

LinkNext == Send \/ Reply \/ Receive \/ Reassemble

\* The peer goes on, fragments arrive, and the terminal goes on.
LinkSpec ==
  /\ LinkInit /\ [][LinkNext]_linkVars
  /\ WF_linkVars(Send) /\ WF_linkVars(Reply) /\ WF_linkVars(Receive) /\ WF_linkVars(Reassemble)

-------------------------------------------------------------------------------
(* Properties *)

\* A datagram of several fragments of which the link lost one reaches the device
\* entire, although nobody asks again for what is not answered: it is enough that the
\* peer begins another datagram.  (Of a datagram of one fragment, or of the last one,
\* the terminal does not know that anything is missing.)
Recoverable(p) == Packets[p] > 1 /\ p < Len(Packets)
OneLossRecovered ==
  \A p \in PktIds :
    ({f \in lost : f.pkt = p} # {} /\ Recoverable(p)) ~> p \in delivered

\* What counts as delivered is the datagram of the peer, byte for byte as long and
\* fragment for fragment: recovery does not hand the device another one, or the
\* fragments of two.
DeliveredAsSent ==
  [][\A p \in delivered' \ delivered :
       out'.size = Bytes(p) /\ out'.data = [i \in 0..(Packets[p] - 1) |-> p]]_linkVars
===============================================================================
