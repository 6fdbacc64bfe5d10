------------------------------ MODULE BufferRing ------------------------------
(***************************************************************************)
(* What the circulation of buffers promises, whatever the threads do: the  *)
(* N buffers stand in a ring that is only ever turned, and the ring is cut  *)
(* in stages that a buffer passes in this order,                           *)
(*                                                                         *)
(*   free -> filling -> waiting -> linking -> kept -> free                  *)
(*                                                                         *)
(* of which filling and linking have room for one buffer.  ring[1] is the  *)
(* buffer that has been kept longest.                                      *)
(***************************************************************************)
EXTENDS Integers, Sequences

CONSTANT N
VARIABLES ring, kept, linking, waiting, filling

stages == <<kept, linking, waiting, filling>>
all    == <<ring, stages>>

Turned == Append(Tail(ring), Head(ring))

Init ==
  /\ ring = [i \in 1..N |-> i]
  /\ kept = 0 /\ linking = 0 /\ waiting = 0 /\ filling = 0

Fill ==
  /\ filling = 0 /\ kept + linking + waiting < N
  /\ filling' = 1
  /\ UNCHANGED <<ring, kept, linking, waiting>>

Publish ==
  /\ filling = 1
  /\ filling' = 0 /\ waiting' = waiting + 1
  /\ UNCHANGED <<ring, kept, linking>>

Take ==
  /\ waiting > 0 /\ linking = 0
  /\ waiting' = waiting - 1 /\ linking' = 1
  /\ UNCHANGED <<ring, kept, filling>>

Link ==
  /\ linking = 1
  /\ linking' = 0 /\ kept' = kept + 1
  /\ UNCHANGED <<ring, waiting, filling>>

Release ==
  /\ kept > 0
  /\ kept' = kept - 1
  /\ ring' = Turned
  /\ UNCHANGED <<linking, waiting, filling>>

Next == Fill \/ Publish \/ Take \/ Link \/ Release

Spec == Init /\ [][Next]_all

-------------------------------------------------------------------------------
(* Properties *)

\* The buffers follow each other in the ring in the order of their numbers, so they
\* are used in turn: none is filled again before all the others were.
InTurn == \A i \in 1..N : ring[(i % N) + 1] = (ring[i] % N) + 1
===============================================================================
