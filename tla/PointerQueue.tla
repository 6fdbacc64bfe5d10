----------------------------- MODULE PointerQueue -----------------------------
(***************************************************************************)
(* What Fifo_put and Fifo_get promise to the threads that hand buffers to  *)
(* each other: every pointer that is put is obtained once, by one thread,  *)
(* whole, and in the order of the puts.  The promise ends with the first   *)
(* Fifo_flush.                                                             *)
(***************************************************************************)
EXTENDS Sequences

CONSTANTS Threads, Pointers, Nothing
VARIABLES queue, hand, flushed

all == <<queue, hand, flushed>>

Init == queue = <<>> /\ hand = [t \in Threads |-> Nothing] /\ flushed = FALSE

Put(p) ==
  /\ queue' = Append(queue, p)
  /\ UNCHANGED <<hand, flushed>>

Get(t) ==
  /\ queue # <<>> /\ hand[t] = Nothing
  /\ hand' = [hand EXCEPT ![t] = Head(queue)]
  /\ queue' = Tail(queue)
  /\ UNCHANGED flushed

Return(t) ==
  /\ hand[t] # Nothing
  /\ hand' = [hand EXCEPT ![t] = Nothing]
  /\ UNCHANGED <<queue, flushed>>

Flush == flushed' = TRUE /\ UNCHANGED <<queue, hand>>

Unspecified == flushed /\ flushed'

Next ==
  \/ \E p \in Pointers : Put(p)
  \/ \E t \in Threads : Get(t) \/ Return(t)
  \/ Flush \/ Unspecified

Spec == Init /\ [][Next]_all
===============================================================================
