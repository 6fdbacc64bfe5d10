--------------------------------- MODULE Fifo ---------------------------------
(***************************************************************************)
(* hs_fifo.c: a queue of pointers made of a pipe, a counter and a flag.    *)
(* The pipe is a queue of bytes, so the model has W bytes to a pointer: a  *)
(* write of a pointer is atomic, a read takes what is there up to W bytes, *)
(* and Fifo_flush writes a single byte.  The mutex guards only the counter *)
(* and the flag, so each access to them is one step.                       *)
(***************************************************************************)
EXTENDS Integers, Sequences, FiniteSets

CONSTANTS
  Putters, Getters, Flushers,  \* threads that call Fifo_put, Fifo_get, Fifo_flush
  Ptrs,                        \* pointers that are put
  NoPtr,                       \* what is not a pointer
  W,                           \* sizeof(void*)
  Capacity,                    \* bytes that the pipe holds
  MaxFlushes                   \* bound: calls of Fifo_flush

ASSUME FifoAssumption ==
  /\ NoPtr \notin Ptrs /\ W \in Nat \ {0, 1}
  /\ Capacity \in Nat /\ Capacity >= W /\ MaxFlushes \in Nat
  /\ IsFiniteSet(Putters) /\ IsFiniteSet(Getters)

VARIABLES
  pipe,      \* bytes written and not yet read
  numBufs,
  flush,
  putter,    \* the pointer that a putter has counted and not yet written
  getter,    \* pc of each getter, and the bytes it has read
  flusher,   \* whether a flusher has set the flag and not yet written
  nFlushes   \* calls of Fifo_flush so far

vars == <<pipe, numBufs, flush, putter, getter, flusher, nFlushes>>

Bytes(p)  == [k \in 1..W |-> <<p, k>>]
FlushByte == <<NoPtr, 0>>
Byte      == (Ptrs \X (1..W)) \cup {FlushByte}
Idle      == [pc |-> "idle", bytes |-> <<>>]

\* Fifo_create.
Init ==
  /\ pipe = <<>> /\ numBufs = 0 /\ flush = FALSE
  /\ putter = [t \in Putters |-> NoPtr]
  /\ getter = [t \in Getters |-> Idle]
  /\ flusher = [t \in Flushers |-> FALSE]
  /\ nFlushes = 0

-------------------------------------------------------------------------------
(* Fifo_put *)

\* Faulty variants: the pointer is not counted; the pipe has no end.
PutUncounted(t, p) ==
  /\ putter[t] = NoPtr
  /\ putter' = [putter EXCEPT ![t] = p]
  /\ UNCHANGED <<pipe, numBufs, flush, getter, flusher, nFlushes>>
PutWriteUnbounded(t) ==
  /\ putter[t] # NoPtr
  /\ pipe' = pipe \o Bytes(putter[t])
  /\ putter' = [putter EXCEPT ![t] = NoPtr]
  /\ UNCHANGED <<numBufs, flush, getter, flusher, nFlushes>>

PutCount(t, p) ==
  /\ putter[t] = NoPtr
  /\ numBufs' = numBufs + 1
  /\ putter' = [putter EXCEPT ![t] = p]
  /\ UNCHANGED <<pipe, flush, getter, flusher, nFlushes>>

\* The write waits until the pipe has room for all of the pointer.
PutWrite(t) ==
  /\ putter[t] # NoPtr /\ Len(pipe) + W <= Capacity
  /\ pipe' = pipe \o Bytes(putter[t])
  /\ putter' = [putter EXCEPT ![t] = NoPtr]
  /\ UNCHANGED <<numBufs, flush, getter, flusher, nFlushes>>

-------------------------------------------------------------------------------
(* Fifo_get *)

\* With the flag set it returns -1 at once, and leaves the flag and the pipe alone.
GetCheck(t) ==
  /\ getter[t].pc = "idle"
  /\ getter' = IF flush THEN getter ELSE [getter EXCEPT ![t].pc = "read"]
  /\ UNCHANGED <<pipe, numBufs, flush, putter, flusher, nFlushes>>

\* Faulty variant: the size of something else than a pointer.
ReadSizeHalf == W \div 2
ReadSize == W

\* The read waits for a byte, and takes as many as there are up to ReadSize.
GetRead(t) ==
  /\ getter[t].pc = "read" /\ pipe # <<>>
  /\ LET n == IF Len(pipe) < ReadSize THEN Len(pipe) ELSE ReadSize
     IN  /\ getter' = [getter EXCEPT ![t] = [pc |-> IF n = W THEN "count" ELSE "short",
                                             bytes |-> SubSeq(pipe, 1, n)]]
         /\ pipe' = SubSeq(pipe, n + 1, Len(pipe))
  /\ UNCHANGED <<numBufs, flush, putter, flusher, nFlushes>>

\* It returns 0 with the pointer.
GetCount(t) ==
  /\ getter[t].pc = "count"
  /\ numBufs' = numBufs - 1
  /\ getter' = [getter EXCEPT ![t] = Idle]
  /\ UNCHANGED <<pipe, flush, putter, flusher, nFlushes>>

\* A part of a pointer: it returns -1, and the bytes are gone.
GetShort(t) ==
  /\ getter[t].pc = "short"
  /\ flush' = FALSE
  /\ getter' = [getter EXCEPT ![t] = Idle]
  /\ UNCHANGED <<pipe, numBufs, putter, flusher, nFlushes>>

-------------------------------------------------------------------------------
(* Fifo_flush *)

FlushSet(t) ==
  /\ ~flusher[t] /\ nFlushes < MaxFlushes
  /\ flush' = TRUE
  /\ flusher' = [flusher EXCEPT ![t] = TRUE]
  /\ nFlushes' = nFlushes + 1
  /\ UNCHANGED <<pipe, numBufs, putter, getter>>

\* Faulty variant: no byte is written.
FlushWriteSkipped(t) ==
  /\ flusher[t]
  /\ flusher' = [flusher EXCEPT ![t] = FALSE]
  /\ UNCHANGED <<pipe, numBufs, flush, putter, getter, nFlushes>>

FlushWrite(t) ==
  /\ flusher[t] /\ Len(pipe) < Capacity
  /\ pipe' = Append(pipe, FlushByte)
  /\ flusher' = [flusher EXCEPT ![t] = FALSE]
  /\ UNCHANGED <<numBufs, flush, putter, getter, nFlushes>>

Next ==
  \/ \E t \in Putters : PutWrite(t) \/ \E p \in Ptrs : PutCount(t, p)
  \/ \E t \in Getters : GetCheck(t) \/ GetRead(t) \/ GetCount(t) \/ GetShort(t)
  \/ \E t \in Flushers : FlushSet(t) \/ FlushWrite(t)

Spec == Init /\ [][Next]_vars

\* A system call that can return does so, and a flush that has begun ends.
FairSpec ==
  Spec /\ (\A t \in Getters : WF_vars(GetRead(t))) /\ (\A t \in Flushers : WF_vars(FlushWrite(t)))

-------------------------------------------------------------------------------
(* Properties *)

\* The type of every variable; the pipe never holds more than its capacity.
TypeOK ==
  /\ pipe \in Seq(Byte) /\ Len(pipe) <= Capacity
  /\ numBufs \in Int /\ flush \in BOOLEAN
  /\ putter \in [Putters -> Ptrs \cup {NoPtr}]
  /\ \A t \in Getters : /\ getter[t].pc \in {"idle", "read", "short", "count"}
                        /\ getter[t].bytes \in Seq(Byte)
  /\ flusher \in [Flushers -> BOOLEAN] /\ nFlushes \in 0..MaxFlushes

\* Fifo_put and Fifo_get, byte by byte, are a queue of pointers until the fifo is
\* flushed: a pointer takes effect when its bytes are written, and leaves when
\* they are read.
Entries == Len(pipe) \div W
Queue == [i \in 1..Entries |-> pipe[(i - 1) * W + 1][1]]
Hand  == [t \in Getters |-> IF getter[t].bytes = <<>> THEN NoPtr ELSE getter[t].bytes[1][1]]
AsQueue == INSTANCE PointerQueue
             WITH Threads <- Getters, Pointers <- Ptrs, Nothing <- NoPtr,
                  queue <- Queue, hand <- Hand, flushed <- nFlushes > 0
ImplementsPointerQueue == AsQueue!Spec

\* What Fifo_getNumEntries returns is never less than what is in the pipe: it also
\* counts each pointer that a thread is putting or has just obtained, and nothing
\* else, as long as nobody has flushed.
Writing == {t \in Putters : putter[t] # NoPtr}
Counting == {t \in Getters : getter[t].pc = "count"}
CountCoversEntries ==
  nFlushes = 0 => /\ numBufs = Entries + Cardinality(Writing) + Cardinality(Counting)
                  /\ Len(pipe) % W = 0

\* As long as nobody has flushed, a thread that puts a pointer does not wait when the
\* pipe can hold as many pointers as the fifo counts.  (It holds 8,192, and a pool
\* lends 63.)
PutHasRoom ==
  (nFlushes = 0 /\ numBufs * W <= Capacity) => \A t \in Writing : Len(pipe) + W <= Capacity

\* As long as nobody has flushed, Fifo_get returns only with a whole pointer: neither
\* the flag nor a short read makes it return -1.
GetObtainsPointer ==
  nFlushes = 0 => /\ ~flush
                  /\ \A t \in Getters : getter[t].pc = "count" =>
                       Len(getter[t].bytes) = W /\ Hand[t] \in Ptrs
                  /\ \A t \in Getters : getter[t].pc # "short"

\* "Make sure any Fifo_get() calls are unblocked": once the flag is set, the one
\* thread that waits in Fifo_get does not wait for ever, put or no put.
FlushUnblocks ==
  \A t \in Getters : (getter[t].pc = "read" /\ flush) ~> getter[t].pc # "read"
===============================================================================
