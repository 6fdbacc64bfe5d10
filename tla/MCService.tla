------------------------------ MODULE MCService ------------------------------
(* An instance of Service: contents of the file of the ports. *)
EXTENDS Service

L(n, v) == [name |-> n, value |-> v]
Blank == L("", NoValue)
Full(n) == <<L("Fusion_RxPort", 8841), L("Fusion_TxPort", 8840), L("IOT_Device_Port", n)>>

FourFiles ==
  {<<>>, Full(65536), <<Blank>> \o Full(8080),
   <<L("Fusion_RxPort", 65537), L("Other", 7), L("IOT_Device_Port", 8080),
     L("Fusion_TxPort", 8840), Blank, L("IOT_Device_Port", 9090)>>}
===============================================================================
