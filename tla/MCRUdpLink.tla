------------------------------ MODULE MCRUdpLink ------------------------------
(* An instance of RUdpLink: the numbers of fragments in the datagrams, and the  *)
(* lengths of the last ones.                                                    *)
EXTENDS RUdpLink

FourDatagrams == <<1, 4, 3, 1>>

Short == [p \in PktIds |-> 1]
===============================================================================
