------------------------------ MODULE FifoProofs ------------------------------
(***************************************************************************)
(* Proofs about Fifo, for any number of threads, any size of a pointer and *)
(* any capacity of the pipe: its types, and that until the first flush the *)
(* pipe holds whole pointers, the counter counts them exactly, the fifo is *)
(* a queue, Fifo_put does not wait and Fifo_get does not fail.             *)
(***************************************************************************)
EXTENDS Fifo, TLAPS, SequenceTheorems, FiniteSetTheorems

LEMMA Quotient ==
  ASSUME NEW m \in Nat \ {0}, NEW q \in Int, NEW n \in Int, n = m * q
  PROVE  n \div m = q /\ n % m = 0
OBVIOUS

LEMMA Multiple ==
  ASSUME NEW m \in Nat \ {0}, NEW n \in Nat, n % m = 0
  PROVE  \E q \in Nat : n = m * q /\ n \div m = q
<1>1. PICK q \in Int : q = n \div m
  OBVIOUS
<1>2. n = m * q
  BY <1>1
<1>3. q >= 0
  <2>1. SUFFICES ASSUME q <= -1 PROVE FALSE
    OBVIOUS
  <2>2. m * q <= m * (-1)
    BY <2>1
  <2> QED BY <1>2, <2>2
<1> QED BY <1>1, <1>2, <1>3

LEMMA Added ==
  ASSUME NEW S, NEW x, IsFiniteSet(S), x \notin S
  PROVE  Cardinality(S \cup {x}) = Cardinality(S) + 1 /\ Cardinality(S) \in Nat
BY FS_AddElement, FS_CardinalityType

LEMMA Removed ==
  ASSUME NEW S, NEW x, IsFiniteSet(S), x \in S
  PROVE  Cardinality(S \ {x}) = Cardinality(S) - 1 /\ Cardinality(S) \in Nat
BY FS_RemoveElement, FS_CardinalityType

-------------------------------------------------------------------------------
(* Types *)

GetterType == [pc : {"idle", "read", "short", "count"}, bytes : Seq(Byte)]
TypeInv    == TypeOK /\ getter \in [Getters -> GetterType]

LEMMA BytesTyped ==
  ASSUME NEW p \in Ptrs
  PROVE  Bytes(p) \in Seq(Byte) /\ Len(Bytes(p)) = W
<1>1. W \in Nat
  BY FifoAssumption DEF FifoAssumption
<1>2. \A k \in 1..W : <<p, k>> \in Byte
  BY DEF Byte
<1> QED BY <1>1, <1>2 DEF Bytes

LEMMA InitType == Init => TypeInv
<1> SUFFICES ASSUME Init PROVE TypeInv
  OBVIOUS
<1>1. pipe \in Seq(Byte) /\ Len(pipe) = 0 /\ Len(pipe) <= Capacity /\ nFlushes \in 0..MaxFlushes
  BY FifoAssumption, EmptySeq DEF Init, FifoAssumption
<1>2. Idle \in GetterType
  BY EmptySeq DEF Idle, GetterType
<1>3. getter \in [Getters -> GetterType]
  BY <1>2 DEF Init
<1>4. \A t \in Getters : /\ getter[t].pc \in {"idle", "read", "short", "count"}
                         /\ getter[t].bytes \in Seq(Byte)
  BY <1>3 DEF GetterType
<1>5. /\ numBufs \in Int /\ flush \in BOOLEAN /\ putter \in [Putters -> Ptrs \cup {NoPtr}]
      /\ flusher \in [Flushers -> BOOLEAN]
  <2>1. numBufs = 0 /\ flush = FALSE
    BY DEF Init
  <2>2. putter = [t \in Putters |-> NoPtr] /\ flusher = [t \in Flushers |-> FALSE]
    BY DEF Init
  <2>3. putter \in [Putters -> Ptrs \cup {NoPtr}]
    BY <2>2
  <2>4. flusher \in [Flushers -> BOOLEAN]
    BY <2>2
  <2>5. numBufs \in Int
    BY <2>1
  <2>6. flush \in BOOLEAN
    BY <2>1, Zenon
  <2> QED BY <2>3, <2>4, <2>5, <2>6
<1> QED BY <1>1, <1>3, <1>4, <1>5 DEF TypeInv, TypeOK

\* What GetRead takes from the pipe, and what it leaves.
LEMMA ReadSplits ==
  ASSUME TypeInv, pipe # <<>>,
         NEW n, n = IF Len(pipe) < ReadSize THEN Len(pipe) ELSE ReadSize
  PROVE  /\ n \in 1..W /\ n <= Len(pipe) /\ Len(pipe) \in Nat
         /\ SubSeq(pipe, 1, n) \in Seq(Byte)
         /\ SubSeq(pipe, n + 1, Len(pipe)) \in Seq(Byte)
         /\ Len(SubSeq(pipe, n + 1, Len(pipe))) = Len(pipe) - n
<1>1. pipe \in Seq(Byte) /\ Len(pipe) \in Nat /\ Len(pipe) # 0 /\ W \in Nat \ {0}
  BY FifoAssumption, LenProperties, EmptySeq DEF TypeInv, TypeOK, FifoAssumption
<1>2. n \in 1..W /\ n <= Len(pipe)
  BY <1>1 DEF ReadSize
<1>3. SubSeq(pipe, 1, n) \in Seq(Byte)
  BY <1>1, <1>2, SubSeqProperties
<1>4. /\ SubSeq(pipe, n + 1, Len(pipe)) \in Seq(Byte)
      /\ Len(SubSeq(pipe, n + 1, Len(pipe))) = Len(pipe) - n
  BY <1>1, <1>2, SubSeqProperties
<1> QED BY <1>1, <1>2, <1>3, <1>4

Rest ==
  /\ numBufs \in Int /\ flush \in BOOLEAN /\ putter \in [Putters -> Ptrs \cup {NoPtr}]
  /\ flusher \in [Flushers -> BOOLEAN] /\ nFlushes \in 0..MaxFlushes

LEMMA StepType == TypeInv /\ [Next]_vars => TypeInv'
<1> SUFFICES ASSUME TypeInv, [Next]_vars PROVE TypeInv'
  OBVIOUS
<1>0. /\ pipe \in Seq(Byte) /\ Len(pipe) <= Capacity /\ Len(pipe) \in Nat
      /\ numBufs \in Int /\ flush \in BOOLEAN
      /\ putter \in [Putters -> Ptrs \cup {NoPtr}] /\ getter \in [Getters -> GetterType]
      /\ flusher \in [Flushers -> BOOLEAN] /\ nFlushes \in 0..MaxFlushes
      /\ Capacity \in Nat /\ W \in Nat \ {0} /\ MaxFlushes \in Nat
  BY FifoAssumption, LenProperties DEF TypeInv, TypeOK, FifoAssumption
<1>1. pipe' \in Seq(Byte) /\ Len(pipe') <= Capacity
  <2>1. ASSUME NEW t \in Putters, PutWrite(t) PROVE pipe' \in Seq(Byte) /\ Len(pipe') <= Capacity
    <3>1. PICK p \in Ptrs : p = putter[t]
      BY <1>0, <2>1 DEF PutWrite
    <3>2. pipe' = pipe \o Bytes(p) /\ Len(pipe) + W <= Capacity
      BY <2>1, <3>1 DEF PutWrite
    <3>3. Bytes(p) \in Seq(Byte) /\ Len(Bytes(p)) = W
      BY BytesTyped
    <3>4. pipe \o Bytes(p) \in Seq(Byte) /\ Len(pipe \o Bytes(p)) = Len(pipe) + Len(Bytes(p))
      BY <1>0, <3>3, ConcatProperties
    <3> QED BY <3>2, <3>3, <3>4
  <2>2. ASSUME NEW t \in Getters, GetRead(t) PROVE pipe' \in Seq(Byte) /\ Len(pipe') <= Capacity
    <3>1. PICK n : n = IF Len(pipe) < ReadSize THEN Len(pipe) ELSE ReadSize
      OBVIOUS
    <3>2. pipe # <<>> /\ pipe' = SubSeq(pipe, n + 1, Len(pipe))
      BY <2>2, <3>1 DEF GetRead
    <3>3. n \in 1..W /\ pipe' \in Seq(Byte) /\ Len(pipe') = Len(pipe) - n
      BY <3>1, <3>2, ReadSplits
    <3> QED BY <1>0, <3>3
  <2>3. ASSUME NEW t \in Flushers, FlushWrite(t) PROVE pipe' \in Seq(Byte) /\ Len(pipe') <= Capacity
    <3>1. FlushByte \in Byte
      BY DEF Byte
    <3> QED BY <1>0, <2>3, <3>1, AppendProperties DEF FlushWrite
  <2>4. CASE pipe' = pipe
    BY <1>0, <2>4
  <2> QED BY <2>1, <2>2, <2>3, <2>4
       DEF Next, vars, PutCount, GetCheck, GetCount, GetShort, FlushSet
<1>2. getter' \in [Getters -> GetterType]
  <2>1. Idle \in GetterType
    BY EmptySeq DEF Idle, GetterType
  <2>2. ASSUME NEW t \in Getters, GetRead(t) PROVE getter' \in [Getters -> GetterType]
    <3>1. PICK n : n = IF Len(pipe) < ReadSize THEN Len(pipe) ELSE ReadSize
      OBVIOUS
    <3>2. /\ pipe # <<>>
          /\ getter' = [getter EXCEPT ![t] = [pc |-> IF n = W THEN "count" ELSE "short",
                                              bytes |-> SubSeq(pipe, 1, n)]]
      BY <2>2, <3>1 DEF GetRead
    <3>3. SubSeq(pipe, 1, n) \in Seq(Byte)
      BY <3>1, <3>2, ReadSplits
    <3> QED BY <1>0, <3>2, <3>3 DEF GetterType
  <2>3. ASSUME NEW t \in Getters, GetCheck(t) PROVE getter' \in [Getters -> GetterType]
    BY <1>0, <2>3 DEF GetCheck, GetterType
  <2>4. ASSUME NEW t \in Getters, GetCount(t) \/ GetShort(t) PROVE getter' \in [Getters -> GetterType]
    BY <1>0, <2>1, <2>4 DEF GetCount, GetShort
  <2>5. CASE getter' = getter
    BY <1>0, <2>5
  <2> QED BY <2>2, <2>3, <2>4, <2>5 DEF Next, vars, PutCount, PutWrite, FlushSet, FlushWrite
<1>3. Rest'
  <2>1. ASSUME NEW t \in Putters, NEW p \in Ptrs, PutCount(t, p) PROVE Rest'
    BY <1>0, <2>1 DEF PutCount, Rest
  <2>2. ASSUME NEW t \in Putters, PutWrite(t) PROVE Rest'
    BY <1>0, <2>2 DEF PutWrite, Rest
  <2>3. ASSUME NEW t \in Getters, GetCheck(t) \/ GetRead(t) \/ GetCount(t) \/ GetShort(t)
        PROVE  Rest'
    <3>1. numBufs' \in {numBufs, numBufs - 1} /\ UNCHANGED <<putter, flusher, nFlushes>>
      BY <2>3 DEF GetCheck, GetRead, GetCount, GetShort
    <3>2. flush' = flush \/ flush' = FALSE
      BY <2>3 DEF GetCheck, GetRead, GetCount, GetShort
    <3>3. flush' \in BOOLEAN
      BY <1>0, <3>2
    <3> QED BY <1>0, <3>1, <3>3 DEF Rest
  <2>4. ASSUME NEW t \in Flushers, FlushSet(t) PROVE Rest'
    BY <1>0, <2>4 DEF FlushSet, Rest
  <2>5. ASSUME NEW t \in Flushers, FlushWrite(t) PROVE Rest'
    BY <1>0, <2>5 DEF FlushWrite, Rest
  <2>6. CASE UNCHANGED vars
    BY <1>0, <2>6 DEF vars, Rest
  <2> QED BY <2>1, <2>2, <2>3, <2>4, <2>5, <2>6 DEF Next
<1>4. \A t \in Getters : /\ getter'[t].pc \in {"idle", "read", "short", "count"}
                         /\ getter'[t].bytes \in Seq(Byte)
  BY <1>2 DEF GetterType
<1> QED BY <1>1, <1>2, <1>3, <1>4 DEF TypeInv, TypeOK, Rest

\* The pipe never holds more than its capacity, and nothing but bytes of pointers
\* and of flushes, whatever the number of threads that use the fifo.
THEOREM TypeInvariant == Spec => []TypeOK
<1>1. TypeInv => TypeOK
  BY DEF TypeInv
<1> QED BY <1>1, InitType, StepType, PTL DEF Spec

-------------------------------------------------------------------------------
(* The counter *)

\* Until the first flush no thread is flushing.
QuietInv == nFlushes = 0 => \A t \in Flushers : ~flusher[t]

CountInv == QuietInv /\ CountCoversEntries

LEMMA InitCount == Init => CountInv
<1> SUFFICES ASSUME Init PROVE CountInv
  OBVIOUS
<1>1. PICK m \in Nat \ {0} : m = W
  BY FifoAssumption DEF FifoAssumption
<1>2. 0 \div m = 0 /\ 0 % m = 0
  OBVIOUS
<1>3. Entries = 0 /\ Len(pipe) % W = 0
  BY <1>1, <1>2 DEF Init, Entries
<1>4. Writing = {} /\ Counting = {}
  BY DEF Init, Writing, Counting, Idle
<1>5. numBufs = 0 /\ Cardinality(Writing) = 0 /\ Cardinality(Counting) = 0
  BY <1>4, FS_EmptySet DEF Init
<1> QED BY <1>3, <1>5 DEF Init, CountInv, QuietInv, CountCoversEntries

LEMMA StepCount == TypeInv /\ CountInv /\ [Next]_vars => CountInv'
<1> SUFFICES ASSUME TypeInv, CountInv, [Next]_vars, nFlushes' = 0
             PROVE  /\ \A t \in Flushers : ~flusher'[t]
                    /\ numBufs' = Entries' + Cardinality(Writing)' + Cardinality(Counting)'
                    /\ Len(pipe') % W = 0
  BY DEF CountInv, QuietInv, CountCoversEntries, Entries
<1>0. /\ pipe \in Seq(Byte) /\ Len(pipe) \in Nat /\ numBufs \in Int
      /\ putter \in [Putters -> Ptrs \cup {NoPtr}] /\ getter \in [Getters -> GetterType]
      /\ flusher \in [Flushers -> BOOLEAN] /\ nFlushes \in Nat /\ NoPtr \notin Ptrs
  BY FifoAssumption, LenProperties DEF TypeInv, TypeOK, FifoAssumption
<1>1. nFlushes = 0 /\ nFlushes' = nFlushes
  BY <1>0 DEF Next, vars, PutCount, PutWrite, GetCheck, GetRead, GetCount, GetShort, FlushSet,
     FlushWrite
<1>2. /\ \A t \in Flushers : ~flusher[t]
      /\ numBufs = Entries + Cardinality(Writing) + Cardinality(Counting) /\ Len(pipe) % W = 0
  BY <1>1 DEF CountInv, QuietInv, CountCoversEntries
<1>3. /\ IsFiniteSet(Writing) /\ IsFiniteSet(Counting)
      /\ Cardinality(Writing) \in Nat /\ Cardinality(Counting) \in Nat
  <2>1. /\ IsFiniteSet(Putters) /\ IsFiniteSet(Getters)
        /\ Writing \in SUBSET Putters /\ Counting \in SUBSET Getters
    BY FifoAssumption DEF FifoAssumption, Writing, Counting
  <2> QED BY <2>1, FS_Subset, FS_CardinalityType
<1>4. PICK m \in Nat \ {0} : m = W
  BY FifoAssumption DEF FifoAssumption
<1>5. PICK q \in Nat : Len(pipe) = m * q /\ Entries = q
  <2>1. PICK q \in Nat : Len(pipe) = m * q /\ Len(pipe) \div m = q
    BY <1>0, <1>2, <1>4, Multiple
  <2> QED BY <1>4, <2>1 DEF Entries
<1>6. ASSUME NEW t \in Putters, NEW p \in Ptrs, PutCount(t, p)
      PROVE  /\ flusher' = flusher /\ pipe' = pipe /\ Counting' = Counting
             /\ numBufs' = numBufs + 1 /\ Cardinality(Writing)' = Cardinality(Writing) + 1
  <2>1. Writing' = Writing \cup {t} /\ t \notin Writing /\ Counting' = Counting
    BY <1>0, <1>6 DEF PutCount, Writing, Counting
  <2> QED BY <1>3, <1>6, <2>1, Added DEF PutCount
<1>7. ASSUME NEW t \in Putters, PutWrite(t)
      PROVE  /\ flusher' = flusher /\ Len(pipe') = Len(pipe) + m /\ Counting' = Counting
             /\ numBufs' = numBufs /\ Cardinality(Writing)' = Cardinality(Writing) - 1
  <2>1. Writing' = Writing \ {t} /\ t \in Writing /\ Counting' = Counting
    BY <1>0, <1>7 DEF PutWrite, Writing, Counting
  <2>2. PICK p \in Ptrs : p = putter[t]
    BY <1>0, <1>7 DEF PutWrite
  <2>3. Len(pipe') = Len(pipe) + m
    <3>1. pipe' = pipe \o Bytes(p) /\ Bytes(p) \in Seq(Byte) /\ Len(Bytes(p)) = W
      BY <1>7, <2>2, BytesTyped DEF PutWrite
    <3>2. Len(pipe \o Bytes(p)) = Len(pipe) + Len(Bytes(p))
      BY <1>0, <3>1, ConcatProperties
    <3> QED BY <1>4, <3>1, <3>2
  <2> QED BY <1>3, <1>7, <2>1, <2>3, Removed DEF PutWrite
<1>8. ASSUME NEW t \in Getters, GetRead(t)
      PROVE  /\ flusher' = flusher /\ Len(pipe') = Len(pipe) - m /\ Writing' = Writing
             /\ numBufs' = numBufs /\ Cardinality(Counting)' = Cardinality(Counting) + 1
  <2>1. PICK n : n = IF Len(pipe) < ReadSize THEN Len(pipe) ELSE ReadSize
    OBVIOUS
  <2>2. /\ pipe # <<>> /\ getter[t].pc = "read" /\ pipe' = SubSeq(pipe, n + 1, Len(pipe))
        /\ getter' = [getter EXCEPT ![t] = [pc |-> IF n = W THEN "count" ELSE "short",
                                            bytes |-> SubSeq(pipe, 1, n)]]
    BY <1>8, <2>1 DEF GetRead
  <2>3. n \in 1..W /\ n <= Len(pipe) /\ Len(pipe') = Len(pipe) - n
    BY <2>1, <2>2, ReadSplits
  <2>4. q >= 1
    BY <1>4, <1>5, <2>3
  <2>5. m * q >= m
    BY <1>4, <2>4
  <2>6. n = m
    BY <1>0, <1>4, <1>5, <2>1, <2>5 DEF ReadSize
  <2>7. Counting' = Counting \cup {t} /\ t \notin Counting /\ Writing' = Writing
    <3>1. getter'[t].pc = "count"
      BY <1>0, <1>4, <2>2, <2>6
    <3>2. \A u \in Getters : u # t => getter'[u] = getter[u]
      BY <1>0, <2>2
    <3>3. putter' = putter
      BY <1>8 DEF GetRead
    <3> QED BY <2>2, <3>1, <3>2, <3>3 DEF Counting, Writing
  <2> QED BY <1>3, <1>8, <2>3, <2>6, <2>7, Added DEF GetRead
<1>9. ASSUME NEW t \in Getters, GetCount(t)
      PROVE  /\ flusher' = flusher /\ pipe' = pipe /\ Writing' = Writing
             /\ numBufs' = numBufs - 1 /\ Cardinality(Counting)' = Cardinality(Counting) - 1
  <2>1. Counting' = Counting \ {t} /\ t \in Counting /\ Writing' = Writing
    BY <1>0, <1>9 DEF GetCount, Counting, Writing, Idle
  <2> QED BY <1>3, <1>9, <2>1, Removed DEF GetCount
<1>10. ASSUME NEW t \in Getters, GetCheck(t) \/ GetShort(t)
       PROVE  /\ flusher' = flusher /\ pipe' = pipe /\ Writing' = Writing
              /\ numBufs' = numBufs /\ Counting' = Counting
  <2>1. CASE GetCheck(t)
    <3>1. \A u \in Getters : getter'[u].pc = "count" <=> getter[u].pc = "count"
      BY <1>0, <2>1 DEF GetCheck, GetterType
    <3> QED BY <2>1, <3>1 DEF GetCheck, Counting, Writing
  <2>2. CASE GetShort(t)
    <3>1. \A u \in Getters : getter'[u].pc = "count" <=> getter[u].pc = "count"
      BY <1>0, <2>2 DEF GetShort, Idle
    <3> QED BY <2>2, <3>1 DEF GetShort, Counting, Writing
  <2> QED BY <1>10, <2>1, <2>2
<1>11. ASSUME NEW t \in Flushers PROVE ~FlushSet(t) /\ ~FlushWrite(t)
  BY <1>0, <1>1, <1>2 DEF FlushSet, FlushWrite
<1>13. ASSUME NEW d \in {-1, 0, 1}, Len(pipe') = Len(pipe) + m * d
       PROVE  Entries' = q + d /\ Len(pipe') % W = 0
  <2>1. Len(pipe') = m * (q + d)
    BY <1>5, <1>13
  <2>2. PICK e \in Int, n \in Int : e = q + d /\ n = Len(pipe')
    BY <2>1
  <2>3. n \div m = e /\ n % m = 0
    BY <2>1, <2>2, Quotient
  <2> QED BY <1>4, <2>2, <2>3 DEF Entries
<1>14. Len(pipe) = Len(pipe) + m * 0 /\ m * 1 = m /\ m * (-1) = -m
  BY <1>0
<1>15. PICK w \in Nat, c \in Nat : w = Cardinality(Writing) /\ c = Cardinality(Counting)
  BY <1>3
<1>16. numBufs = q + w + c
  BY <1>2, <1>5, <1>15
<1> DEFINE Exact == /\ \A t \in Flushers : ~flusher[t]
                    /\ numBufs = Entries + Cardinality(Writing) + Cardinality(Counting)
                    /\ Len(pipe) % W = 0
<1>17. ASSUME NEW t \in Putters, NEW p \in Ptrs, PutCount(t, p) PROVE Exact'
  <2>1. Entries' = q /\ Len(pipe') % W = 0 /\ \A u \in Flushers : ~flusher'[u]
    BY <1>2, <1>5, <1>6, <1>17 DEF Entries
  <2>2. numBufs' = numBufs + 1 /\ Cardinality(Writing)' = w + 1 /\ Cardinality(Counting)' = c
    BY <1>6, <1>15, <1>17
  <2> QED BY <1>16, <2>1, <2>2
<1>18. ASSUME NEW t \in Putters, PutWrite(t) PROVE Exact'
  <2>1. Entries' = q + 1 /\ Len(pipe') % W = 0 /\ \A u \in Flushers : ~flusher'[u]
    BY <1>2, <1>7, <1>13, <1>14, <1>18
  <2>2. numBufs' = numBufs /\ Cardinality(Writing)' = w - 1 /\ Cardinality(Counting)' = c
    BY <1>7, <1>15, <1>18
  <2> QED BY <1>16, <2>1, <2>2
<1>19. ASSUME NEW t \in Getters, GetRead(t) PROVE Exact'
  <2>1. Entries' = q + (-1) /\ Len(pipe') % W = 0 /\ \A u \in Flushers : ~flusher'[u]
    <3>1. Len(pipe') = Len(pipe) + m * (-1)
      BY <1>0, <1>8, <1>14, <1>19
    <3> QED BY <1>2, <1>8, <1>13, <1>19, <3>1
  <2>2. numBufs' = numBufs /\ Cardinality(Writing)' = w /\ Cardinality(Counting)' = c + 1
    BY <1>8, <1>15, <1>19
  <2> QED BY <1>16, <2>1, <2>2
<1>20. ASSUME NEW t \in Getters, GetCount(t) PROVE Exact'
  <2>1. Entries' = q /\ Len(pipe') % W = 0 /\ \A u \in Flushers : ~flusher'[u]
    BY <1>2, <1>5, <1>9, <1>20 DEF Entries
  <2>2. numBufs' = numBufs - 1 /\ Cardinality(Writing)' = w /\ Cardinality(Counting)' = c - 1
    BY <1>9, <1>15, <1>20
  <2> QED BY <1>16, <2>1, <2>2
<1>21. ASSUME NEW t \in Getters, GetCheck(t) \/ GetShort(t) PROVE Exact'
  BY <1>2, <1>10, <1>21 DEF Entries
<1>22. CASE UNCHANGED vars
  BY <1>2, <1>22 DEF vars, Entries, Writing, Counting
<1> QED BY <1>11, <1>17, <1>18, <1>19, <1>20, <1>21, <1>22 DEF Next

\* What Fifo_getNumEntries returns is the number of pointers in the pipe, being
\* put and just obtained, and the pipe holds whole pointers, for any number of
\* putting and getting threads and any sizeof(void*), until the first flush.
THEOREM CountIsExact == Spec => []CountCoversEntries
<1>1. CountInv => CountCoversEntries
  BY DEF CountInv
<1> QED BY <1>1, InitType, StepType, InitCount, StepCount, PTL DEF Spec

-------------------------------------------------------------------------------
(* The queue of pointers *)

\* Until the first flush all bytes are of pointers, and a getter has read a whole one.
WholeInv ==
  nFlushes = 0 =>
    /\ \A k \in 1..Len(pipe) : pipe[k][1] \in Ptrs
    /\ \A t \in Getters :
         \/ getter[t].pc \in {"idle", "read"} /\ getter[t].bytes = <<>>
         \/ getter[t].pc = "count" /\ getter[t].bytes # <<>> /\ getter[t].bytes[1][1] \in Ptrs

\* Where a pointer begins in a pipe that holds q of them.
LEMMA Place ==
  ASSUME NEW m \in Nat \ {0}, NEW q \in Nat, NEW i \in 1..q
  PROVE  (i - 1) * m + 1 \in 1..(m * q) /\ ((i + 1) - 1) * m + 1 = ((i - 1) * m + 1) + m
<1>1. (i - 1) * m = i * m - m /\ ((i + 1) - 1) * m = i * m
  OBVIOUS
<1>2. PICK d \in Nat : q = i + d
  <2>1. q - i \in Nat /\ q = i + (q - i)
    OBVIOUS
  <2> QED BY <2>1
<1>3. m * q = i * m + m * d /\ m * d \in Nat /\ i * m \in Nat
  BY <1>2
<1>4. i * m >= m
  <2>1. PICK e \in Nat : i = 1 + e
    <3>1. i - 1 \in Nat /\ i = 1 + (i - 1)
      OBVIOUS
    <3> QED BY <3>1
  <2>2. i * m = m + e * m /\ e * m \in Nat
    BY <2>1
  <2> QED BY <2>2
<1>5. PICK x \in Nat, y \in Nat : x = i * m /\ y = m * d
  BY <1>3
<1> QED BY <1>1, <1>3, <1>4, <1>5

\* The pointers in the pipe.
LEMMA PipeHolds ==
  ASSUME TypeInv, CountInv, nFlushes = 0
  PROVE  Entries \in Nat /\ Len(pipe) = W * Entries /\ W \in Nat \ {0}
<1>1. Len(pipe) \in Nat /\ Len(pipe) % W = 0
  BY LenProperties DEF TypeInv, TypeOK, CountInv, CountCoversEntries
<1>2. PICK m \in Nat \ {0} : m = W
  BY FifoAssumption DEF FifoAssumption
<1>3. PICK q \in Nat : Len(pipe) = m * q /\ Len(pipe) \div m = q
  BY <1>1, <1>2, Multiple
<1> QED BY <1>2, <1>3 DEF Entries

\* What Fifo_get reads before any flush is one pointer.
LEMMA ReadsWhole ==
  ASSUME TypeInv, CountInv, nFlushes = 0, NEW t \in Getters, GetRead(t)
  PROVE  /\ Entries \in Nat \ {0} /\ W <= Len(pipe) /\ getter[t].pc = "read"
         /\ pipe' = SubSeq(pipe, W + 1, Len(pipe))
         /\ getter' = [getter EXCEPT ![t] = [pc |-> "count", bytes |-> SubSeq(pipe, 1, W)]]
<1>1. PICK n : n = IF Len(pipe) < ReadSize THEN Len(pipe) ELSE ReadSize
  OBVIOUS
<1>2. /\ pipe # <<>> /\ pipe' = SubSeq(pipe, n + 1, Len(pipe)) /\ getter[t].pc = "read"
      /\ getter' = [getter EXCEPT ![t] = [pc |-> IF n = W THEN "count" ELSE "short",
                                          bytes |-> SubSeq(pipe, 1, n)]]
  BY <1>1 DEF GetRead
<1>3. n \in 1..W /\ n <= Len(pipe) /\ Len(pipe) \in Nat
  BY <1>1, <1>2, ReadSplits
<1>4. PICK m \in Nat \ {0}, q \in Nat : m = W /\ q = Entries /\ Len(pipe) = m * q
  BY PipeHolds
<1>5. q >= 1
  BY <1>3, <1>4
<1>6. m * q >= m
  BY <1>4, <1>5
<1>7. n = W
  BY <1>1, <1>3, <1>4, <1>6 DEF ReadSize
<1> QED BY <1>2, <1>3, <1>4, <1>5, <1>7

LEMMA InitWhole == Init => WholeInv
BY EmptySeq DEF Init, WholeInv, Idle

LEMMA StepWhole == TypeInv /\ CountInv /\ WholeInv /\ [Next]_vars => WholeInv'
<1> SUFFICES ASSUME TypeInv, CountInv, WholeInv, [Next]_vars, nFlushes' = 0
             PROVE  WholeInv'
  BY DEF WholeInv
<1>0. /\ pipe \in Seq(Byte) /\ Len(pipe) \in Nat /\ getter \in [Getters -> GetterType]
      /\ putter \in [Putters -> Ptrs \cup {NoPtr}] /\ nFlushes \in Nat /\ W \in Nat \ {0}
  BY FifoAssumption, LenProperties DEF TypeInv, TypeOK, FifoAssumption
<1>1. nFlushes = 0
  BY <1>0 DEF Next, vars, PutCount, PutWrite, GetCheck, GetRead, GetCount, GetShort, FlushSet,
     FlushWrite
<1>2. /\ \A k \in 1..Len(pipe) : pipe[k][1] \in Ptrs
      /\ \A t \in Getters :
           \/ getter[t].pc \in {"idle", "read"} /\ getter[t].bytes = <<>>
           \/ getter[t].pc = "count" /\ getter[t].bytes # <<>> /\ getter[t].bytes[1][1] \in Ptrs
  BY <1>1 DEF WholeInv
<1> DEFINE Fine == /\ \A k \in 1..Len(pipe) : pipe[k][1] \in Ptrs
                   /\ \A t \in Getters :
                        \/ getter[t].pc \in {"idle", "read"} /\ getter[t].bytes = <<>>
                        \/ /\ getter[t].pc = "count" /\ getter[t].bytes # <<>>
                           /\ getter[t].bytes[1][1] \in Ptrs
<1>3. ASSUME NEW t \in Putters, PutWrite(t) PROVE Fine'
  <2>1. PICK p \in Ptrs : p = putter[t]
    BY <1>0, <1>3 DEF PutWrite
  <2>2. pipe' = pipe \o Bytes(p) /\ Bytes(p) \in Seq(Byte) /\ Len(Bytes(p)) = W /\ getter' = getter
    BY <1>3, <2>1, BytesTyped DEF PutWrite
  <2>3. /\ Len(pipe') = Len(pipe) + W
        /\ \A k \in 1..(Len(pipe) + W) :
              pipe'[k] = IF k <= Len(pipe) THEN pipe[k] ELSE Bytes(p)[k - Len(pipe)]
    BY <1>0, <2>2, ConcatProperties
  <2>4. ASSUME NEW k \in 1..Len(pipe') PROVE pipe'[k][1] \in Ptrs
    <3>1. CASE k <= Len(pipe)
      BY <1>0, <1>2, <2>3, <3>1
    <3>2. CASE k > Len(pipe)
      <4>1. k - Len(pipe) \in 1..W /\ pipe'[k] = Bytes(p)[k - Len(pipe)]
        BY <1>0, <2>3, <3>2
      <4> QED BY <4>1 DEF Bytes
    <3> QED BY <1>0, <2>3, <3>1, <3>2
  <2> QED BY <1>2, <2>2, <2>4
<1>4. ASSUME NEW t \in Getters, GetRead(t) PROVE Fine'
  <2>1. /\ W <= Len(pipe) /\ pipe' = SubSeq(pipe, W + 1, Len(pipe))
        /\ getter' = [getter EXCEPT ![t] = [pc |-> "count", bytes |-> SubSeq(pipe, 1, W)]]
    BY <1>1, <1>4, ReadsWhole
  <2>2. /\ SubSeq(pipe, 1, W) \in Seq(Byte) /\ Len(SubSeq(pipe, 1, W)) = W
        /\ SubSeq(pipe, 1, W)[1] = pipe[1]
    BY <1>0, <2>1, SubSeqProperties
  <2>3. SubSeq(pipe, 1, W) # <<>> /\ SubSeq(pipe, 1, W)[1][1] \in Ptrs
    <3>1. 1 \in 1..Len(pipe) /\ Len(<<>>) = 0
      BY <1>0, <2>1
    <3>2. pipe[1][1] \in Ptrs
      BY <1>2, <3>1
    <3> QED BY <1>0, <2>2, <3>1, <3>2
  <2>4. /\ Len(pipe') = Len(pipe) - W
        /\ \A k \in 1..(Len(pipe) - W) : pipe'[k] = pipe[k + W]
    BY <1>0, <2>1, SubSeqProperties
  <2>5. \A k \in 1..Len(pipe') : pipe'[k][1] \in Ptrs
    BY <1>0, <1>2, <2>1, <2>4
  <2> QED BY <1>0, <1>2, <2>1, <2>3, <2>5
<1>5. ASSUME NEW t \in Getters, GetCheck(t) \/ GetCount(t) \/ GetShort(t) PROVE Fine'
  <2>1. \A u \in Getters : \/ getter'[u] = getter[u] \/ getter'[u] = Idle
                           \/ getter'[u] = [getter[u] EXCEPT !.pc = "read"] /\ getter[u].pc = "idle"
    BY <1>0, <1>5 DEF GetCheck, GetCount, GetShort
  <2>2. Idle.pc = "idle" /\ Idle.bytes = <<>>
    BY DEF Idle
  <2>3. ASSUME NEW u \in Getters, getter'[u] = [getter[u] EXCEPT !.pc = "read"],
               getter[u].pc = "idle"
        PROVE  getter'[u].pc = "read" /\ getter'[u].bytes = <<>>
    BY <1>0, <1>2, <2>3 DEF GetterType
  <2>4. pipe' = pipe
    BY <1>5 DEF GetCheck, GetCount, GetShort
  <2> QED BY <1>2, <2>1, <2>2, <2>3, <2>4
<1>6. ASSUME NEW t \in Flushers PROVE ~FlushSet(t) /\ ~FlushWrite(t)
  BY <1>0, <1>1 DEF FlushSet, FlushWrite, CountInv, QuietInv
<1>7. ASSUME pipe' = pipe, getter' = getter PROVE Fine'
  <2>1. \A k \in 1..Len(pipe') : pipe'[k][1] \in Ptrs
    BY <1>2, <1>7
  <2>2. \A t \in Getters :
           \/ getter'[t].pc \in {"idle", "read"} /\ getter'[t].bytes = <<>>
           \/ getter'[t].pc = "count" /\ getter'[t].bytes # <<>> /\ getter'[t].bytes[1][1] \in Ptrs
    BY <1>2, <1>7
  <2> QED BY <2>1, <2>2
<1> HIDE DEF Fine
<1>8. Fine'
  BY <1>3, <1>4, <1>5, <1>6, <1>7 DEF Next, vars, PutCount
<1> USE DEF Fine
<1> QED BY <1>8 DEF WholeInv

\* Before any flush each step is one of the queue, or none of its business.
LEMMA QueueStep ==
  ASSUME TypeInv, CountInv, WholeInv, nFlushes = 0, [Next]_vars
  PROVE  [AsQueue!Next]_(AsQueue!all)
<1>0. /\ pipe \in Seq(Byte) /\ Len(pipe) \in Nat /\ getter \in [Getters -> GetterType]
      /\ putter \in [Putters -> Ptrs \cup {NoPtr}]
      /\ \A k \in 1..Len(pipe) : pipe[k][1] \in Ptrs
  BY FifoAssumption, LenProperties DEF TypeInv, TypeOK, WholeInv
<1>1. PICK m \in Nat \ {0}, q \in Nat : m = W /\ q = Entries /\ Len(pipe) = m * q
  BY PipeHolds
<1>2. ASSUME NEW d \in {-1, 1}, Len(pipe') = Len(pipe) + m * d
      PROVE  Entries' = q + d
  <2>1. PICK e \in Int, n \in Int : e = q + d /\ n = Len(pipe') /\ n = m * e
    <3>1. Len(pipe') = m * (q + d)
      BY <1>1, <1>2
    <3> QED BY <3>1
  <2> QED BY <1>1, <2>1, Quotient DEF Entries
<1>3. Queue = [i \in 1..q |-> pipe[(i - 1) * m + 1][1]] /\ Queue \in Seq(Ptrs) /\ Len(Queue) = q
  <2>1. Queue = [i \in 1..q |-> pipe[(i - 1) * m + 1][1]]
    BY <1>1 DEF Queue
  <2>2. \A i \in 1..q : pipe[(i - 1) * m + 1][1] \in Ptrs
    BY <1>0, <1>1, Place
  <2> QED BY <2>1, <2>2
<1>4. ASSUME NEW t \in Putters, PutWrite(t) PROVE AsQueue!Next
  <2>1. PICK p \in Ptrs : p = putter[t]
    BY <1>0, <1>4 DEF PutWrite
  <2>2. pipe' = pipe \o Bytes(p) /\ Bytes(p) \in Seq(Byte) /\ Len(Bytes(p)) = W
    BY <1>4, <2>1, BytesTyped DEF PutWrite
  <2>3. /\ Len(pipe') = Len(pipe) + m
        /\ \A k \in 1..(Len(pipe) + m) :
              pipe'[k] = IF k <= Len(pipe) THEN pipe[k] ELSE Bytes(p)[k - Len(pipe)]
    BY <1>0, <1>1, <2>2, ConcatProperties
  <2>4. Entries' = q + 1
    <3>1. Len(pipe') = Len(pipe) + m * 1
      BY <1>0, <1>1, <2>3
    <3> QED BY <1>2, <3>1
  <2>5. Queue' = [i \in 1..(q + 1) |-> pipe'[(i - 1) * m + 1][1]]
    BY <1>1, <2>4 DEF Queue
  <2>6. \A i \in 1..q : pipe'[(i - 1) * m + 1] = pipe[(i - 1) * m + 1]
    <3>1. ASSUME NEW i \in 1..q PROVE pipe'[(i - 1) * m + 1] = pipe[(i - 1) * m + 1]
      <4>1. PICK x \in Int : x = (i - 1) * m + 1 /\ x \in 1..Len(pipe)
        BY <1>1, Place
      <4>2. x \in 1..(Len(pipe) + m) /\ x <= Len(pipe)
        BY <1>0, <4>1
      <4> QED BY <2>3, <4>1, <4>2
    <3> QED BY <3>1
  <2>7. pipe'[((q + 1) - 1) * m + 1] = <<p, 1>>
    <3>1. ((q + 1) - 1) * m + 1 = Len(pipe) + 1
      BY <1>1
    <3>2. Len(pipe) + 1 \in 1..(Len(pipe) + m) /\ 1 \in 1..W
      BY <1>0, <1>1
    <3>3. pipe'[Len(pipe) + 1] = Bytes(p)[1]
      BY <1>0, <2>3, <3>2
    <3> QED BY <3>1, <3>2, <3>3 DEF Bytes
  <2>8. Queue' = Append(Queue, p)
    <3>1. Append(Queue, p) = [i \in 1..(q + 1) |-> IF i = q + 1 THEN p ELSE Queue[i]]
      BY <1>3
    <3>2. \A i \in 1..(q + 1) :
             pipe'[(i - 1) * m + 1][1] = IF i = q + 1 THEN p ELSE Queue[i]
      <4>1. ASSUME NEW i \in 1..q
            PROVE  pipe'[(i - 1) * m + 1][1] = Queue[i]
        BY <1>3, <2>6
      <4>2. pipe'[((q + 1) - 1) * m + 1][1] = p
        BY <2>7
      <4>3. \A i \in 1..(q + 1) : i = q + 1 \/ (i \in 1..q /\ i # q + 1)
        OBVIOUS
      <4> QED BY <4>1, <4>2, <4>3, Zenon
    <3> QED BY <2>5, <3>1, <3>2
  <2>9. Hand' = Hand /\ (nFlushes > 0)' = (nFlushes > 0)
    BY <1>4 DEF PutWrite, Hand
  <2> QED BY <2>8, <2>9 DEF AsQueue!Next, AsQueue!Put
<1>5. ASSUME NEW t \in Getters, GetRead(t) PROVE AsQueue!Next
  <2>1. /\ q \in Nat \ {0} /\ m <= Len(pipe) /\ getter[t].pc = "read"
        /\ pipe' = SubSeq(pipe, m + 1, Len(pipe))
        /\ getter' = [getter EXCEPT ![t] = [pc |-> "count", bytes |-> SubSeq(pipe, 1, m)]]
    BY <1>1, <1>5, ReadsWhole
  <2>2. /\ Len(pipe') = Len(pipe) - m
        /\ \A k \in 1..(Len(pipe) - m) : pipe'[k] = pipe[k + m]
        /\ SubSeq(pipe, 1, m) \in Seq(Byte) /\ Len(SubSeq(pipe, 1, m)) = m
        /\ SubSeq(pipe, 1, m)[1] = pipe[1]
    BY <1>0, <2>1, SubSeqProperties
  <2>3. Entries' = q - 1
    <3>1. Len(pipe') = Len(pipe) + m * (-1)
      <4>1. m * (-1) = -m
        BY <1>1
      <4> QED BY <1>0, <1>1, <2>2, <4>1
    <3>2. Entries' = q + (-1)
      BY <1>2, <3>1
    <3> QED BY <3>2
  <2>4. Queue' = [i \in 1..(q - 1) |-> pipe'[(i - 1) * m + 1][1]]
    BY <1>1, <2>3 DEF Queue
  <2>5. Queue' = Tail(Queue)
    <3>1. Tail(Queue) = [i \in 1..(q - 1) |-> Queue[i + 1]]
      BY <1>3, <2>1, SMTT(30)
    <3>2. ASSUME NEW i \in 1..(q - 1)
          PROVE  pipe'[(i - 1) * m + 1][1] = Queue[i + 1]
      <4>1. PICK r \in Nat : r = q - 1 /\ i \in 1..r
        BY <2>1
      <4>2. Len(pipe) - m = m * r
        BY <1>1, <4>1
      <4>3. (i - 1) * m + 1 \in 1..(m * r) /\ ((i + 1) - 1) * m + 1 = ((i - 1) * m + 1) + m
        BY <4>1, Place
      <4>4. pipe'[(i - 1) * m + 1] = pipe[((i - 1) * m + 1) + m]
        BY <2>2, <4>2, <4>3
      <4>5. i + 1 \in 1..q
        BY <2>1
      <4>6. Queue[i + 1] = pipe[((i + 1) - 1) * m + 1][1]
        BY <1>3, <4>5
      <4> QED BY <4>3, <4>4, <4>6
    <3> QED BY <2>4, <3>1, <3>2
  <2>6. Queue # <<>> /\ Head(Queue) = pipe[1][1]
    <3>1. Queue[1] = pipe[(1 - 1) * m + 1][1] /\ (1 - 1) * m + 1 = 1
      BY <1>3, <2>1
    <3>2. Queue # <<>> /\ Head(Queue) = Queue[1]
      <4>1. Len(<<>>) = 0
        OBVIOUS
      <4>2. Queue # <<>> /\ Queue \in Seq(Ptrs)
        BY <1>3, <2>1, <4>1
      <4> QED BY <4>2, HeadTailProperties
    <3> QED BY <3>1, <3>2
  <2>7. Hand[t] = NoPtr /\ Hand' = [Hand EXCEPT ![t] = Head(Queue)]
    <3>1. getter[t].bytes = <<>>
      BY <2>1 DEF WholeInv
    <3>2. SubSeq(pipe, 1, m) # <<>>
      BY <2>2, EmptySeq
    <3>3. /\ getter'[t].bytes = SubSeq(pipe, 1, m)
          /\ \A u \in Getters : u # t => getter'[u] = getter[u]
      BY <1>0, <2>1
    <3> QED BY <2>2, <2>6, <3>1, <3>2, <3>3, ZenonT(60) DEF Hand
  <2>8. (nFlushes > 0)' = (nFlushes > 0)
    BY <1>5 DEF GetRead
  <2> QED BY <2>5, <2>6, <2>7, <2>8 DEF AsQueue!Next, AsQueue!Get
<1>6. ASSUME NEW t \in Getters, GetCount(t) PROVE AsQueue!Next
  <2>1. /\ getter[t].bytes # <<>> /\ getter[t].bytes[1][1] \in Ptrs
    BY <1>6 DEF GetCount, WholeInv
  <2>2. Hand[t] # NoPtr
    BY <2>1, FifoAssumption DEF Hand, FifoAssumption
  <2>3. Hand' = [Hand EXCEPT ![t] = NoPtr]
    <3>1. /\ getter'[t].bytes = <<>>
          /\ \A u \in Getters : u # t => getter'[u] = getter[u]
      BY <1>0, <1>6 DEF GetCount, Idle
    <3> QED BY <3>1 DEF Hand
  <2>4. Queue' = Queue /\ (nFlushes > 0)' = (nFlushes > 0)
    BY <1>6 DEF GetCount, Queue, Entries
  <2> QED BY <2>2, <2>3, <2>4 DEF AsQueue!Next, AsQueue!Return
<1>7. ASSUME NEW t \in Getters, GetCheck(t) PROVE UNCHANGED AsQueue!all
  <2>1. \A u \in Getters : getter'[u].bytes = getter[u].bytes
    BY <1>0, <1>7 DEF GetCheck, GetterType
  <2>2. Hand' = Hand
    BY <2>1 DEF Hand
  <2> QED BY <1>7, <2>2 DEF GetCheck, AsQueue!all, Queue, Entries
<1>8. ASSUME NEW t \in Getters PROVE ~GetShort(t)
  BY DEF GetShort, WholeInv
<1>9. ASSUME NEW t \in Flushers, FlushSet(t) PROVE AsQueue!Next
  BY <1>9 DEF FlushSet, Queue, Entries, Hand, AsQueue!Next, AsQueue!Flush
<1>10. ASSUME NEW t \in Flushers PROVE ~FlushWrite(t)
  BY DEF FlushWrite, CountInv, QuietInv
<1>11. CASE UNCHANGED <<pipe, getter, nFlushes>>
  BY <1>11 DEF AsQueue!all, Queue, Entries, Hand
<1> QED BY <1>4, <1>5, <1>6, <1>7, <1>8, <1>9, <1>10, <1>11 DEF Next, vars, PutCount

\* Fifo_put and Fifo_get, byte by byte through the pipe, are a queue of pointers for
\* any number of threads, size of a pointer and capacity, until the first flush.
THEOREM RefinesPointerQueue == Spec => ImplementsPointerQueue
<1>1. Init => AsQueue!Init
  <2> SUFFICES ASSUME Init PROVE AsQueue!Init
    OBVIOUS
  <2>1. PICK m \in Nat \ {0} : m = W
    BY FifoAssumption DEF FifoAssumption
  <2>2. 0 \div m = 0
    OBVIOUS
  <2>3. Queue = <<>>
    BY <2>1, <2>2 DEF Init, Queue, Entries
  <2>4. Hand = [t \in Getters |-> NoPtr]
    BY DEF Init, Hand, Idle
  <2>5. (nFlushes > 0) = FALSE
    BY DEF Init
  <2> QED BY <2>3, <2>4, <2>5 DEF AsQueue!Init
<1>2. TypeInv /\ CountInv /\ WholeInv /\ [Next]_vars => [AsQueue!Next]_(AsQueue!all)
  <2> SUFFICES ASSUME TypeInv, CountInv, WholeInv, [Next]_vars
               PROVE  [AsQueue!Next]_(AsQueue!all)
    OBVIOUS
  <2>1. CASE nFlushes = 0
    BY <2>1, QueueStep
  <2>2. CASE nFlushes # 0
    <3>1. nFlushes \in Nat /\ (nFlushes' = nFlushes \/ nFlushes' = nFlushes + 1)
      BY DEF TypeInv, TypeOK, Next, vars, PutCount, PutWrite, GetCheck, GetRead, GetCount,
         GetShort, FlushSet, FlushWrite
    <3>2. nFlushes > 0 /\ nFlushes' > 0
      BY <2>2, <3>1
    <3> QED BY <3>2 DEF AsQueue!Next, AsQueue!Unspecified
  <2> QED BY <2>1, <2>2
<1> QED
  BY <1>1, <1>2, InitType, StepType, InitCount, StepCount, InitWhole, StepWhole,
     PTL DEF Spec, ImplementsPointerQueue, AsQueue!Spec

-------------------------------------------------------------------------------
(* What the paths of the data take for granted *)

\* As long as nobody has flushed, a thread that puts a pointer does not wait when the
\* pipe can hold as many pointers as the fifo counts, because the counter covers the
\* pointer that is being put, for any number of threads and any sizeof(void*).
THEOREM PutNeverWaits == Spec => []PutHasRoom
<1>1. TypeInv /\ CountInv => PutHasRoom
  <2> SUFFICES ASSUME TypeInv, CountInv, nFlushes = 0, numBufs * W <= Capacity,
                      NEW t \in Writing
               PROVE  Len(pipe) + W <= Capacity
    BY DEF PutHasRoom
  <2>1. PICK m \in Nat \ {0}, q \in Nat : m = W /\ q = Entries /\ Len(pipe) = m * q
    BY PipeHolds
  <2>2. Cardinality(Writing) \in Nat \ {0} /\ Cardinality(Counting) \in Nat
    <3>1. /\ IsFiniteSet(Putters) /\ IsFiniteSet(Getters)
          /\ Writing \in SUBSET Putters /\ Counting \in SUBSET Getters
      BY FifoAssumption DEF FifoAssumption, Writing, Counting
    <3>2. IsFiniteSet(Writing) /\ IsFiniteSet(Counting) /\ Writing # {}
      BY <3>1, FS_Subset
    <3> QED BY <3>2, FS_CardinalityType, FS_EmptySet
  <2>3. PICK e \in Nat : numBufs = q + 1 + e
    <3>1. PICK w \in Nat \ {0}, c \in Nat : numBufs = q + w + c
      BY <2>1, <2>2 DEF CountInv, CountCoversEntries
    <3>2. (w - 1) + c \in Nat /\ numBufs = q + 1 + ((w - 1) + c)
      BY <3>1
    <3> QED BY <3>2
  <2>4. numBufs * m = m * q + m + e * m /\ e * m \in Nat
    BY <2>1, <2>3
  <2>5. PICK x \in Int, y \in Nat : x = m * q /\ y = e * m
    BY <2>1, <2>4
  <2> QED BY <2>1, <2>4, <2>5, FifoAssumption DEF FifoAssumption
<1> QED BY <1>1, InitType, StepType, InitCount, StepCount, PTL DEF Spec

\* Until the first flush the flag is not set, and what has been read is as long as
\* a pointer.
HandInv ==
  nFlushes = 0 => ~flush /\ \A t \in Getters : getter[t].pc = "count" => Len(getter[t].bytes) = W

LEMMA InitHand == Init => HandInv
BY DEF Init, HandInv, Idle

LEMMA StepHand == TypeInv /\ CountInv /\ HandInv /\ [Next]_vars => HandInv'
<1> SUFFICES ASSUME TypeInv, CountInv, HandInv, [Next]_vars, nFlushes' = 0
             PROVE  HandInv'
  BY DEF HandInv
<1>0. pipe \in Seq(Byte) /\ getter \in [Getters -> GetterType] /\ nFlushes \in Nat
      /\ W \in Nat \ {0}
  BY FifoAssumption DEF TypeInv, TypeOK, FifoAssumption
<1>1. nFlushes = 0 /\ ~\E t \in Flushers : FlushSet(t)
  BY <1>0 DEF Next, vars, PutCount, PutWrite, GetCheck, GetRead, GetCount, GetShort, FlushSet,
     FlushWrite
<1>2. ~flush /\ \A t \in Getters : getter[t].pc = "count" => Len(getter[t].bytes) = W
  BY <1>1 DEF HandInv
<1>3. ~flush'
  BY <1>1, <1>2 DEF Next, vars, PutCount, PutWrite, GetCheck, GetRead, GetCount, GetShort,
     FlushWrite
<1>4. ASSUME NEW t \in Getters, GetRead(t), NEW u \in Getters, getter'[u].pc = "count"
      PROVE  Len(getter'[u].bytes) = W
  <2>1. /\ W <= Len(pipe)
        /\ getter' = [getter EXCEPT ![t] = [pc |-> "count", bytes |-> SubSeq(pipe, 1, W)]]
    BY <1>1, <1>4, ReadsWhole
  <2>2. Len(SubSeq(pipe, 1, W)) = W
    BY <1>0, <2>1, LenProperties, SubSeqProperties
  <2>3. CASE u = t
    BY <1>0, <2>1, <2>2, <2>3
  <2>4. CASE u # t
    BY <1>0, <1>2, <1>4, <2>1, <2>4
  <2> QED BY <2>3, <2>4
<1>5. ASSUME NEW t \in Getters, GetCheck(t) \/ GetCount(t) \/ GetShort(t),
             NEW u \in Getters, getter'[u].pc = "count"
      PROVE  Len(getter'[u].bytes) = W
  <2>1. getter'[u] = getter[u]
    BY <1>0, <1>5 DEF GetCheck, GetCount, GetShort, GetterType, Idle
  <2> QED BY <1>2, <1>5, <2>1
<1>6. ASSUME getter' = getter, NEW u \in Getters, getter'[u].pc = "count"
      PROVE  Len(getter'[u].bytes) = W
  BY <1>2, <1>6
<1>7. \A u \in Getters : getter'[u].pc = "count" => Len(getter'[u].bytes) = W
  BY <1>1, <1>4, <1>5, <1>6 DEF Next, vars, PutCount, PutWrite, FlushWrite
<1> QED BY <1>3, <1>7 DEF HandInv

\* As long as nobody has flushed, and nothing in the program flushes, Fifo_get has no
\* error to return: neither the flag nor a short read gets in its way, and what it has
\* obtained is a whole pointer.
THEOREM GetNeverFails == Spec => []GetObtainsPointer
<1>1. WholeInv /\ HandInv => GetObtainsPointer
  <2> SUFFICES ASSUME WholeInv, HandInv, nFlushes = 0 PROVE
                 /\ ~flush
                 /\ \A t \in Getters : getter[t].pc = "count" =>
                      Len(getter[t].bytes) = W /\ Hand[t] \in Ptrs
                 /\ \A t \in Getters : getter[t].pc # "short"
    BY DEF GetObtainsPointer
  <2>1. \A t \in Getters : getter[t].pc = "count" => Hand[t] \in Ptrs
    BY DEF WholeInv, Hand
  <2> QED BY <2>1 DEF WholeInv, HandInv
<1> QED BY <1>1, InitType, StepType, InitCount, StepCount, InitWhole, StepWhole, InitHand,
           StepHand, PTL DEF Spec
===============================================================================
