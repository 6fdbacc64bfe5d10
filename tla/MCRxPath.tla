------------------------------- MODULE MCRxPath -------------------------------
(* Instances of RxPath: the numbers of fragments in the datagrams of the peer,  *)
(* and the lengths of the last ones.                                            *)
EXTENDS RxPath

Two      == <<2, 2>>
Wrapping == <<2, 1, 2, 1, 2>>
FourPkts == <<1, 1, 1, 2>>

Short == [p \in PktIds |-> 1]
===============================================================================
