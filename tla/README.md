# udp_service: a TLA+ model of the terminal's UDP service

`udp_service` runs on a satellite terminal. It takes datagrams from an IoT device, cuts them in
fragments of at most 60 bytes, and sends these to a hub ("fusion"); and it reassembles the fragments
that come from the hub and hands the datagrams to the device. A thin reliability layer ("R-UDP") on
each side keeps the fragments that were sent for 40 seconds, asks the peer for missing fragments, and
answers the requests of the peer.

This directory holds the specifications, the TLC configurations that check them on small instances,
and the proofs that TLAPS checks for every instance. All paths below are relative to `src/`.

## 1. Inventory

### The threads

| thread | code | does |
|---|---|---|
| iot receive | `hs_udp_service.c` `iot_receive_routine` | device socket -> fragments -> `IotThrOutFifo` |
| fusion transmit | `hs_udp_service.c` `fusion_transmit_routine` | `IotThrOutFifo` -> hub, then the history |
| r_udp | `r_udp.c` `r_udp_routine` | each second: expired fragments of the history -> `IotThrInFifo` |
| fusion receive | `hs_udp_service.c` `fusion_receive_routine` | hub -> `fusionThrOutFifo`; serves requests for lost fragments |
| iot transmit | `hs_udp_service.c` `iot_transmit_routine` | `fusionThrOutFifo` -> `defragment` -> device; asks for what is missing |
| r_udp_req | `rudp_req.c` `r_udp_req_routine` | each second: dumps packets that stayed incomplete |
| service control | `service_check.c` `service_control` | enable, disable, statistics |
| inotify | `inotify.c` | runs `hslog_init` again when the log configuration changes |

### The components

| component | state it keeps | operations | what makes it correct | here |
|---|---|---|---|---|
| Sending path (`hs_udp_service.c`) | buffers, two fifos, `txSeqNum`, the pc of two threads | receive and cut, put, take and send | no buffer lost or owned twice; fragments in order, none skipped; headers agree with payloads | `TxPath` |
| Retransmission history (`r_udp.c`) | linked list `ListHead`..`ListTail`, mutex `sync_hist`, `time` of each buffer | push, peek, pop, find, serve a request | in order of the time-outs but for what requests lifted; kept for the timeout; released in the end, unless requests hold the head; what is found is what was asked for | `TxPath` |
| Receiving path (`hs_udp_service.c`) | `fusionThrInFifo`, `fusionThrOutFifo`, `pkt_drop_count` | receive, drop, hand over | buffers conserved; what the device gets was sent | `RxPath` |
| Reassembly and requests (`rudp_req.c`, `hs_udp_fragments.c`) | table of slots, `last_pkt_seq` | find, take, store, release, ask, dump | a stored fragment is kept; a complete packet is sent, an incomplete one is not; slots come back | `RxPath` |
| Fifo (`hs_fifo.c`) | a pipe, a counter, a flag, a mutex | put, get, flush, count | a queue of pointers for many threads; flush wakes a waiting thread | `Fifo`, in `TxPath` and `RxPath` as sequences |
| Buffer pool (`hs_buffer_pool.c`) | ring indices, mutex, condition variable | next free, put back | no element lent twice; a waiting thread gets one | its use at start-up, in `Service` |
| UDP sockets (`hs_udp.c`) | descriptors, the peer's address | create, send, receive | a full socket loses, never blocks | queues that lose in `TxPath`, `RxPath`; creation in `Service` |
| Service control (`service_check.c`) | `service_disabled`, a socket | enable, disable, statistics | the last message decides; what is forwarded was received while enabled; each counter in an answer was current between request and answer | `Service` |
| Statistics (`sensor_stats.c`) | three counters | add, copy | no update lost | `Service`, each update as a load and a store |
| Start-up (`main.c`, `start_udp_service`) | which sockets, fifos, threads exist | the sequence and its failures | nothing is used before it is there; it ends | `Service`, `HSLog` |
| Terminals table (`Terminals_Handler.c`) | table of ids | add, remove, get | no id twice, what was added is found | its creation, in `Service`; nothing calls the rest |
| Configuration (`hs_config_file_reader.c`) | a static buffer | read a value | the three values are not mixed up; a wrong value is refused | `Service` |
| Logging and its reload (`hslog/hslog.c`, `inotify.c`) | the global configuration, a recursive mutex | log, set, init again | one thread inside at a time; the mutex is released by who took it; the settings catch up with the file | `HSLog` |
| SPI configuration, mitigation (`conf_read.c`, `mitigation.c`) | none | read a device, an ioctl | | not modelled: never called, pure I/O |
| Examples (`inotity_example.c`, `hslog/hslog-multicast.c` and others) | | | | not modelled: not part of the service, or output only |

### How they interact

A `Msg_Buf_t` belongs to whoever holds its pointer. On the sending side the 63 buffers go round
`IotThrInFifo` (free) -> iot receive -> `IotThrOutFifo` -> fusion transmit -> history -> r_udp ->
`IotThrInFifo`. On the receiving side they go `fusionThrInFifo` -> fusion receive ->
`fusionThrOutFifo` -> iot transmit -> `fusionThrInFifo`. Two things cross this ownership: fusion
receive reads and writes a buffer of the sending side while it answers a request, after it has
released `sync_hist`; and r_udp_req looks at and releases slots of the fragment table, which iot
transmit uses without a lock.

### What is hard here

* The handler of a request works on a buffer it does not own. Between `hist_find_frag` and
  `udp_send` the buffer can expire, be recycled, be filled with another fragment and be stamped anew.
  `time.tv_sec += 1` and the store to the bit field `msgCode` are each a load and a store of memory
  that other threads write.
* `free_history` looks only at the head of the list, so a request that lifts the head holds back all
  behind it, and nothing limits how often the head is lifted.
* All buffers may be in the history; the thread that needs one waits for the clock.
* Sequence numbers have four bits, the table four slots and one more that no search reaches, and the
  history 63 buffers: the three numbers do not match.
* The counter that decides that a packet is complete, and the size that goes to the device, count
  arrivals, not fragments.
* Fragments are lost on purpose (each thirteenth), by the network, and by full nonblocking sockets.
* A pipe is a queue of bytes. The flush of a fifo writes one byte, a pointer has eight.
* Every thread logs, and the thread of `inotify.c` initialises the log, its mutex included, while they
  do. Its watch is on all of `/etc`, whose events share one queue.
* `start_udp_service` starts threads that use sockets which other threads, started later, set.
* The counters and the switch are shared by three threads without a lock.

`PROJECT.json` lists each hazard at its line.

## 2. The modules

| module | models | composes |
|---|---|---|
| `BufferRing` | abstract: N buffers on a ring that only turns, cut in stages | |
| `TxPath` | sending path, history, service of requests | implements `BufferRing` |
| `RxPath` | receiving path, reassembly, requests, time-outs, the lossy network | |
| `PointerQueue` | abstract: a queue of pointers for several getters, until it is flushed | |
| `Fifo` | `hs_fifo.c`, byte by byte | implements `PointerQueue` |
| `RUdpLink` | a link with one loss and a peer that answers | extends `RxPath` |
| `HSLog` | the logger, its settings, the thread that reloads them | |
| `Service` | the process: start-up, control, counters, configuration, what the threads share | |
| `MCTxPath`, `MCRxPath`, `MCRUdpLink`, `MCFifo`, `MCHSLog`, `MCService` | instances for TLC | |
| `TxPathProofs`, `TxHistoryProofs`, `TxOrderProofs`, `RxPathProofs`, `RUdpLinkProofs`, `FifoProofs`, `HSLogProofs`, `ServiceProofs` | theorems, section 4 | extend the modules they are about |

Names of variables and fields are those of the code. Each definition that a comment calls a *faulty
variant* is a plausible bug, used to see that a property notices it; no specification uses one.

### TxPath

The atomic steps are those another thread can tell apart:

* `IotReceive`, `IotReceiveNothing`, `IotFillFragment`, `IotPutFragment` are the loop of
  `iot_receive_routine`. Taking the buffer and filling it are one step: nobody else holds a free
  buffer, except the request handler, whose every access is a step of its own. `txSeqNum` advances
  also when nothing was received. A datagram that arrives while the service is disabled is not seen.
* `FusionTransmit` takes a fragment, completes the header, sends, and reads the clock; `HistPushFrag`
  is the critical section of `hist_push_frag`. The clock is read before the lock, so the stamp can be
  older than the moment at which the fragment is linked in, and `Tick` ages it meanwhile.
* `FreeHistoryLock`, `HistPopFrag`, `FreeHistoryUnlock` are a round of `free_history`. A popped
  buffer is in `IotThrInFifo` while the mutex is still held, as in the code.
* `HistFindFrag` walks the list under the mutex; `LingerLoad`, `LingerStore`, `ReplyCodeLoad`,
  `ReplyCodeStore` and `SendReply` follow without it. `msgCode` lies in one byte with the fragment
  index and the low bit of the number of fragments, so its store writes these back as they were read.
* The fifos are sequences here. `Fifo` shows that the pipe behaves as one as long as nobody calls
  `Fifo_flush`, and nobody does.
* `time[b]` is the time left, `time.tv_sec` minus the clock. A second is one step `Tick`.
  Any number of requests is served; only one that would lift a time-out over `Timeout + MaxLinger` waits
  for a second to pass.
* `due`, `lifted` and `staleWrite` are history variables. `lifted` says of each buffer in the history
  who has changed its time since it was linked in: nobody, a request, or a late store, one through a
  pointer to an earlier use of the buffer. `due` counts the second that each request grants, apart from
  `time`. `staleWrite` says whether the handler has written `msgCode` into a buffer that was recycled
  under it.

### RxPath

* `FusionReceive` is `fusion_receive_routine` for a data fragment, with the drop of each
  `DropPeriod`-th and its buffer.
* `DefragFind`, `DefragCreate` and `DefragLost` are the first half of `defragment`, the search for a
  slot; `DefragStore` the second, with the request for a fragment that was jumped over; `IotSend` the
  hand-over to the device and `release_fragment`. The halves are apart because `r_udp_req_routine`
  can dump the slot in between; it reads `used` and `lastTime` in `DumpCheck` and clears `used` in
  `Dump`.
* The slots are the four that `find_terminal` searches and the one at index `MAX_PKTS`, which
  `get_freeFragment` can take as well. Beyond it the code indexes outside the table; the model stops
  there with `status = "overrun"`.
* The peer is a terminal of the same kind: it sends the fragments of its datagrams in order
  (`Contiguous` and `HeadersTruthful` of `TxPath`), and answers a request with a fragment that has
  the identity, or not at all. The network may lose each fragment and, with `Reorder`, let each
  overtake all others. It does not duplicate; a retransmission makes duplicates enough.
  A sequence number that the sender skips (`IotReceiveNothing` of `TxPath`) looks here like a datagram
  of which every fragment is lost.
* A fragment's content is the number of its datagram. `data` of a slot is a function from the places
  written to, and stays when the slot is dumped, as the bytes do. Every fragment but the last has
  `MaxMsgSize` bytes, the last `LastLen`. `size` adds up the lengths of all that arrive (`rudp_req.c:183`),
  and that many bytes of the slot go to the device (`hs_udp_service.c:211`), whether they were written to
  or not: `Datagram` gives them by place.
* `from` is a history variable: the datagrams of which a slot was filled since it was taken.

### Fifo

`PutCount`, `PutWrite`; `GetCheck`, `GetRead`, `GetCount` or `GetShort`; `FlushSet`, `FlushWrite`:
one step for each system call and for each critical section. A write of a pointer is atomic and waits
for room (the pipe of the code holds more pointers than there are buffers; here it fills up). A read
takes what is there, up to a pointer.

### RUdpLink

`RxPath` in the case that the retransmission was made for. The link keeps the order and loses at most
`MaxLosses` of the fragments that are sent for the first time (`Send`); a fragment that is sent again
arrives (`Reply`, which is `handle_lost_request` at the peer: it finds what it is asked for as long as
that was sent; `KeptForTimeout` of `TxPath` says that it is kept). `Receive` and `Reassemble`
are the two threads of the terminal, `Reassemble` with the note of what the device has got entire. The
time-out thread is left out: all happens within the timeout of the slots.

### HSLog

* `MainInit`, `MainConfig`, `MainNetwork`, `MainWatch` are the set-up of the log in `main()`. The first
  `hslog_init` is one step, there is no other thread yet.
* `hslog()` is `LogBegin`, `SyncLock`, `LogCheck`, `LogOutput`, `SyncUnlock`: the settings are read twice
  in it, before and while it writes, and change in between. The mutex is recursive, an owner and a
  depth; the unlock of a mutex that one does not own ends the process, as in the code.
* The second `hslog_init` is `ReloadDefaults`, `ReloadSyncInit`, `ReloadOpen`, a `ReloadLine` for each
  line, `ReloadDone`. None of them takes the mutex.
* `WatchEvent` handles one event of the inotify queue: the end of a write to the file of settings, or
  one that is skipped. `EditOpen` and `EditClose` are whoever edits the file, external to the program: it
  is empty in between. `OtherFile` is an event of any other file, since the watch is on all of `/etc`
  (`inotify.c:68`). An event that finds the queue full is lost; the kernel's note of that names no file
  and is skipped. `missed` says that the last change of the file went this way, or came before the
  directory was watched.
* A line of the file is a name and a number; unknown names change nothing. The levels are cut to the 16
  bits of their fields, `nToFile` to one. The switches of `MULTICAST` and `UNICAST` are not among what
  `hslog_init` resets, so they keep the value of an earlier content when the new one has no line for
  them. `commanded` notes that the first was last set by a message from the network.

### Service

* `main` and `k` are the place in `main()` and `start_udp_service`: one action per step of `Order`, each
  round of a loop a step, each with its failure. What the steps make is in `made`, `fed`, `thread`.
* A thread whose `pthread_create` failed, or which got no epoll instance, is `"ended"`, and start-up goes
  on, as in the code. `MaxMissing` bounds how many.
* `sockTx` and `fusionSock` are set by `SetSocket`, by threads that start after those that use them. The
  use of a null pointer stops the model with a `status` that names it.
* The six threads are reduced to the order in which they receive, look at the switch, count, pass
  fragments on, and use what others set; `TxPath` and `RxPath` have the rest. Each count is a load and a
  store.
* `service_control` takes a message (`ControlReceive`), copies the counters one at a time (`CopyStats`)
  and answers.
* The configuration file is a sequence of lines, each with the name before its colon and a number. One
  static buffer holds what `get_config_param` returns. Ports are cut to 16 bits by the conversion.

## 3. The runs

| run | instance | properties |
|---|---|---|
| `tx_circulation` (`MCTxPath.cfg`) | 2 buffers, datagrams of 1 and 3 fragments, 2 sequence numbers, 3 datagrams, timeout 1, any number of requests | `TypeOK`, `Ownership`, `Contiguous`, `HeadersTruthful`, `IdentityUnique`, `ImplementsBufferRing` |
| `tx_history` (`MCTxPathHistory.cfg`) | 2 buffers, datagrams of 2 fragments, 1 sequence number, 2 datagrams, timeout 1, any number of requests; fair | `FoundIsRequested`, `HistoryByAge`, `KeptForTimeout`, `ReceiveProceeds`, `HistoryDrains` |
| `rx_reassembly` (`MCRxPath.cfg`) | 4 buffers, 2 searched slots, 4 sequence numbers, five datagrams of 2, 1, 2, 1, 2 fragments, 2 bytes in a fragment and 1 in the last, 1 reply, reordering; fair | `TypeOK`, `StoredIsKept`, `CompleteIsSent`, `IncompleteOnlyIfTwice`, `SentIsOneDatagram`, `LostOnlyBeyondTable`, `AskedExists`, `SlotsReleased` |
| `fifo` (`MCFifo.cfg`) | 2 putters, 1 getter, 1 flusher, 3 bytes to a pointer, 7 to the pipe, 2 flushes; fair | `TypeOK`, `CountCoversEntries`, `ImplementsPointerQueue`, `FlushUnblocks` |
| `rudp_recovery` (`MCRUdpLink.cfg`) | the constants of the program (63 buffers, 4 slots, 16 sequence numbers), datagrams of 1, 4, 3 and 1 fragments, one loss beside the simulated one; fair | `OneLossRecovered` |
| `log_reload` (`MCHSLog.cfg`) | 2 threads that log, 3 contents of the file, 2 events in the queue; fair | `TypeOK`, `LockDiscipline`, `ExitOnlyAfterReinit`, `SendsOnSocket`, `SettledIsCurrent`, `CallsReturn`, `Converges` |
| `service` (`MCService.cfg`) | pools of 4, 4 files of ports, 1 result to count for each counter, 2 control messages, 1 missing thread; fair | `TypeOK`, `PortsConfigured`, `ThreadsEquipped`, `NullNeedsTraffic`, `ControlDecides`, `StatsExact`, `StatsBracketed`, `SwitchObeyed`, `StartupEnds` |
| `tx_reply`, `rx_slots`, `rx_entire`, `rx_buffers`, `log_exit` | small instances; the three on reassembly with the constants of the code, `rx_entire` on the link of `rudp_recovery` (`MCRUdpLinkEntire.cfg`) | one property each, violated: see section 5 |

What they show:

* **tx_circulation.** Under all interleavings of the four threads no buffer is lost or owned twice,
  buffers never overtake each other, and from the first fifo to the end of the history each fragment
  is followed by the right one. Headers agree with payloads unless a late reply wrote into a recycled
  buffer. With two buffers and a datagram of three fragments the free list runs dry, a datagram is
  in several stages at once, and a buffer is recycled and refilled while its reply is pending. Three
  datagrams go around the two sequence numbers: two fragments of the history with one identity are a whole
  turn apart. The socket holds nothing here; what is sent is in `tx_history` and `tx_reply`.
* **tx_history.** A fragment holds back those behind it only if a request or a late store changed a
  time: all others are in the order of the time-outs, although `Tick`, requests and the handler that was
  held up come in between. No fragment leaves before its time-out and the seconds that requests added,
  again but for a late store. `iot_receive_routine` gets a buffer and each fragment leaves the history,
  *unless* requests hold the head (`HeldByRequests`): one buffer stays the head for ever and its time is
  lifted again and again. Without this exception both fail: one request a second for the head is enough
  (`r_udp.c:82`, `132`, `148`), and `Fifo_get` at `hs_udp_service.c:107` waits as long as the requests
  come. What the properties say is that nothing else stops the path: requests for other fragments,
  late stores, a handler that stops in the middle, or the order of the list do not. Two
  buffers are enough for one to expire behind another that was lifted, and with a single sequence number
  two fragments of different datagrams have the same identity.
* **rx_reassembly.** Whatever is lost, late or dumped: what is stored is kept until it is sent or
  dumped (but for one race, section 5), a packet with all its fragments does not wait, every
  request names a fragment of a packet that has been begun, and every slot is released. What the device
  gets is of one datagram, or of several a whole turn of the sequence numbers apart; what is of one has
  each arrived fragment in its place and, unless one was counted twice, its number of bytes. The process
  ends only through a sequence number that has no slot. The five
  datagrams go once around the sequence numbers, so that an old fragment meets a new packet in its
  slot; two of the four sequence numbers have no searched slot, so the ends of the process are
  reached. The same invariants hold with `Packets` set to <<2,1,2,1,3>>, <<1,3,2>>, <<3,2>> and
  <<2,1,1,3>>.
* **fifo.** Until a flush the pipe is a queue of whole pointers and the counter is never behind it. A
  flush wakes the thread that waits; with a second getter it need not, since one byte wakes one of
  them. No fifo of the service has two getters. Bytes are numbered within their pointer, so a
  misaligned read would be seen, and a pipe of 7 bytes for 3 per pointer also fills up in the middle.
* **rudp_recovery.** A fragment that the link loses is asked for when the peer begins its next datagram,
  is sent again, and its datagram reaches the device entire, although nobody repeats a request. The
  simulated loss takes the first fragment that arrives. The datagrams have the sequence numbers 1 to 4
  of the code: the last one lies in the slot beyond the table, so it has one fragment (section 5).
  The limits of the recovery show when the instance is changed: with two losses in one datagram it
  need not come, since both requests are sent again for a fragment that is asked for twice, and the
  copies count for each other. And what the recovery does to the datagram after the one that lost a
  fragment is in `rx_entire` (section 5).
* **log_reload.** The mutex admits one thread at a time and every call returns, until `hslog_init`
  initialises it under its holder; a process that exits in `hslog_sync_unlock` does so for that reason
  only. The edits overlap the reloads, and still the settings are in the end what the file says, and
  whenever nothing is left to do, unless the event of the last change was lost because the queue was full
  of events of other files, or the change came before the directory was watched. The settings are the
  levels, `nToFile` after the first reload, and the two switches where the file has a line for them. The
  three contents are the empty one, one that switches both kinds of sending on, and one that sets a level
  twice, the other to -1 (65535 in its field), a one-bit field to 3, and one switch off.
* **service.** Every failure of start-up at every step, and every order of the threads that already
  run beside it. The four files are empty, well-formed with a port that does not fit 16 bits, with a
  blank line first, and with other names and a name twice. A pool of four is fed to its last element,
  two messages suffice to set the switch back, and one result for each counter to be lost by a
  concurrent update.

### Bounds

`MaxSeq`, `MaxReplies`, `MaxFlushes` bound the number of datagrams, replies and flushes; `WireCap`,
`NetCap`, `AskCap` the sockets and the network. `MaxLinger` bounds how far over `Timeout` requests lift a
time; the number of requests is not bounded, since each `Tick` makes room for another. A time left of
`-MaxLinger` stands for itself and all below, so a request that lifts it may leave it there (`Lifted`). An
age above `Timeout` is not told apart from `Timeout + 1`.

`MaxLosses` and `DropPeriod = 50` leave one loss by the link and one by the terminal: the model is about
the recovery of a single loss, and the period of the code is in `rx_buffers` and
`rx_slots`. `EventCap` is the inotify queue (16384 events in a default Linux), here two, so that it
overflows; `MaxEvents`, `MaxMsgs` and `MaxMissing` bound the results
counted, the control messages and the missing threads of `Service`. None of the bounds is needed by a
theorem: these hold for all their values.

Deadlock is checked wherever the system cannot stop: time can always pass in the two paths, a getter of
a flushed fifo can always call again, and the file of settings can always be edited. It is not checked
in `service`, where `main()` may return, nor in `rudp_recovery`, which ends when all has been sent.

### Fairness

`TxPath!FairSpec`: `iot_receive_routine` and `fusion_transmit_routine` take a step that stays
possible, `r_udp_routine` does as well, and time passes (weak fairness). `HistPushFrag` has strong
fairness: the thread competes for `sync_hist` with `r_udp_routine`, which sleeps a second between two
rounds. Nothing is assumed of the device or of the thread that serves the requests: it may stop in the
middle. Of the requests no fairness says anything, but they can starve the path, so the two liveness
properties have the exception `HeldByRequests`.

`RxPath!FairSpec`: the threads that reassemble and dump go on, and time passes. Nothing is assumed of
the peer, the network or `fusion_receive_routine`, which in fact stops (section 5).

`Fifo!FairSpec`: a read that can return does, and a flush that was begun is finished. Nothing is
assumed of the threads that put.

`HSLog!FairSpec`: the inotify thread goes on, and so does a thread inside `hslog` (weak fairness). A
thread that waits for the mutex gets it in the end (strong fairness of `SyncLock`): the others release
it between two messages. Nothing is assumed of who edits the file.

`Service!FairSpec`: `main()` goes on. `RUdpLink!LinkSpec`: the peer goes on and answers, what arrives is
received and reassembled.

## 4. The proofs

Every invariant, action property and refinement that a passing run checks is also proved, for every
value of the constants that the assumption of its module admits. Liveness is model-checked only: it is
out of the prover's reach, as is everything that rests on fairness. The argument is always the same: a
conjunction that is inductive, one lemma per part of it, one step per action.

| module | theorem | proves |
|---|---|---|
| `TxPathProofs` | `TypeInvariant`, `RefinesBufferRing`, `BuffersOwned`, `BuffersUsedInTurn` | `TypeOK`, `ImplementsBufferRing`, `Ownership`, *`UsedInTurn`* |
| `TxHistoryProofs` | `WhatIsFoundIsRequested`, `HistoryIsByAge`, `FragmentsAreKept` | `FoundIsRequested`, `HistoryByAge`, `KeptForTimeout` |
| `TxOrderProofs` | `FragmentsAreContiguous`, `HeadersAreTruthful`, `FragmentsAreIdentified` | `Contiguous`, `HeadersTruthful`, `IdentityUnique` |
| `RxPathProofs` | `TypeInvariant`, `RequestsAreReal`, `StoredStays`, `NoneIsLeftComplete`, `SentWholeUnlessTwice`, `SentUnmixed`, `LostBeyondTable`, `BuffersLeaveSlowly` | `TypeOK`, `AskedExists`, `StoredIsKept`, `CompleteIsSent`, `IncompleteOnlyIfTwice`, `SentIsOneDatagram`, `LostOnlyBeyondTable`, *`BuffersLeaveByLoss`* |
| `RUdpLinkProofs` | `DeliveredIsSent` | *`DeliveredAsSent`* |
| `FifoProofs` | `TypeInvariant`, `CountIsExact`, `RefinesPointerQueue`, `PutNeverWaits`, `GetNeverFails` | `TypeOK`, `CountCoversEntries`, `ImplementsPointerQueue`, *`PutHasRoom`*, *`GetObtainsPointer`* |
| `HSLogProofs` | `TypeInvariant`, `MutexHeldInside`, `ExitHasOneCause`, `NothingSentEarly`, `SettledMeansCurrent` | `TypeOK`, `LockDiscipline`, `ExitOnlyAfterReinit`, `SendsOnSocket`, `SettledIsCurrent` |
| `ServiceProofs` | `TypeInvariant`, `LastMessageDecides`, `SwitchIsObeyed`, `NoCountIsLost`, `AnswersAreBracketed`, `RequestsHarmlessWithoutTraffic`, `PortsAreConfigured`, `ThreadsAreEquipped`, `PoolsAreFed` | `TypeOK`, `ControlDecides`, `SwitchObeyed`, `StatsExact`, `StatsBracketed`, `NullNeedsTraffic`, `PortsConfigured`, `ThreadsEquipped`, *`FeedNeverWaits`* |

What stands in italics is proved and in no run: it holds in the instances of the runs as well, where
adding it to the configuration of its module checks it (with `Capacity = 9` for `PutHasRoom`, so that a
third pointer has room). Three of them are what one module takes for granted of another: the two paths
have fifos on which a put never waits and a get never fails, which `PutHasRoom` and `GetObtainsPointer`
say of `Fifo` as long as nobody flushes; and `RxPath` starts with its pool fed, which `FeedNeverWaits` and
`ThreadsEquipped` say of `Service`.

The inductive invariants, and why they are needed:

* **Types of `TxPath`.** `TypeOK` alone is not inductive: a request lifts the time of its buffer, and the
  store comes after the search. `LingerBound` adds that a lift that is still pending starts below the
  bound.
* **The ring.** The refinement mapping puts history, hand of fusion transmit, out fifo, hand of iot
  receive and free fifo in one sequence `Ring`. Five actions are the five actions of `BufferRing`, one
  lemma each; all others leave `Ring` alone. `RingInv` carries `Len(Ring) = NBufs` beside `Ownership`.
  `HistPopFrag` turns the ring by one place, which keeps it injective and keeps its range (`Turning`).
  For `UsedInTurn` the turn is followed element by element: the successor of the last place is the first
  (`TurnInTurn`, with `ModInTurn` for the remainders).
* **The history.** `FoundInv`: while the buffer that a request found has not been recycled it is in the
  history, and what the store of `msgCode` will write back to its byte is what is there. `AgeInv`: a
  buffer whose time nobody changed has at most `Timeout` left, and no more than the one that is being
  linked in; `due` and `time` agree unless a late store came; and what the handler has loaded through a
  fresh pointer is what is in the buffer, so its store adds to the right value.
* **The order.** `OrderInv` ties the last filled buffer to what `iot_receive_routine` is about to do;
  `HeaderInv` adds how many fragments are still to be cut, and that what has been sent has its header.
  `IdentityUnique` follows from these: a later fragment is of a later datagram or has a greater index
  (`FilledInOrder`, by the least counterexample, since induction is out of reach), and numbers with the
  same remainder are a turn apart (`TurnApart`).
* **`RxPath`.** `FlowInv`: all that is in the network, in the fifos and in the hand of the thread was
  sent. `FillInv`: what a slot holds comes from one datagram up to a turn of the sequence numbers, and
  its counter is at least what its mask says, but for fragments that came twice (`SlotFrom`,
  `Counted`, `Sending`). `KeptInv`, `OutInv` and `AskInv` are the properties with what a step needs of
  the slot it works on; `NetInv`, `BufInv`, `RoomInv`, `ScanInv` are the capacities. `FromInv` says of
  which datagrams a slot was filled, and, when it is one and nothing came twice, that `size` is the sum
  of the lengths of the fragments in the mask (`SourcesOK`, `SizeOf`). `WhatIsSent` reads from both what is
  handed over, and the link's deliveries with it.
* **`RUdpLink`.** Each of its four actions is, by definition, one of `RxPath` with fewer outcomes
  (`LinkStep`), so the invariants of `RxPath` hold and `DeliveryStep` uses them at the one action that
  delivers.
* **`Fifo`.** Before a flush the length of the pipe is a whole number of pointers, and `CountInv` says
  the counter is exactly the pointers in the pipe and between count and pipe. `WholeInv`: every getter
  has read a whole pointer, and (`HandInv`) none is told to give up. The mapping takes each W bytes for
  an entry of the queue. A put has room because the counter already covers the pointer it writes.
* **`HSLog`.** `LogInv` joins the properties with `QuietUntilReady`: nobody logs before the sockets exist.
  `ReloadInv` says what the settings are at each place of the reload: the defaults before the file is
  opened, and then, unless an edit is under way or its event is pending or lost (`Unchanged`), each name
  that no remaining line has is at the value that the file gives it, a switch only if the file has a line
  for it (`Parsing`).
* **`Service`.** `TypeInv` ties the rounds of the loops to the steps they belong to. `LoadsFresh`: a
  counter that a thread has loaded has not changed since, because one thread alone stores it.
  `BracketInv`: what has been copied lies between what was seen and what is now. `PortsInv`,
  `MadeInv`, `PoolInv` (a pool that is not fed yet has more than one element left) say what has been
  done at each place of `Order`, and the theorems about the end follow from the order of the steps
  (`MainOrder`). `SocketInv`: a thread that start-up has not come to is off (`NotYet`), what is queued or
  kept was counted or taken by a thread that runs, and a setter that runs has set its socket
  (`TrafficInv`).

Assumptions: the constants are natural numbers, divisors are not zero. `TxAssumption` also says that no
datagram has more than 31 fragments (the field has five bits; the receive buffer of 1500 bytes makes 25
at most) and that the sequence numbers of the header divide 256, since the four bits are cut from a
`uint8_t`. `FifoAssumption`: a pointer has at least two bytes, the pipe room for one, and the threads are
finitely many. `ServiceAssumption`: a pool has at least two elements.

## 5. Where the code departs from what it says

Shown by a run:

* `tx_reply`. The reply to a request can be another fragment than the one requested. `hist_find_frag`
  releases the mutex and returns a pointer; the buffer is recycled, refilled, and sent, and
  `r_udp.c:60` logs success for the fragment that was asked for. The trace needs the handler to be
  held up while the time that the fragment has left runs out.
* `rx_slots`. `hs_udp_fragments.h:8` promises 16 packets per terminal; there are four slots. The
  datagram with sequence number 4 takes the slot after the last, which is never searched; its second
  fragment finds no slot, and `rudp_req.c:156` clears a null handle. Further sequence numbers index outside
  the table. The run has the constants of the code: 63 buffers, four slots, 16 sequence numbers.
* `rx_entire`. "Returns 0 when the entire message is colated" (`rudp_req.c:128`): a fragment that
  arrives twice counts twice, so a late original together with its retransmission stands for
  a fragment that is missing. One lost fragment on a link that keeps the order is enough. Fragment 1 of
  datagram 2 is lost, asked for when fragment 2 comes, and its copy arrives before fragment 3. Fragment 3
  then follows a fragment 1, which looks like a gap: fragment 2 is asked for although it is held
  (`rudp_req.c:201`). Datagram 2 is complete and sent, fragment 0 of datagram 3 is stored, and only then
  the needless copy of fragment 2 comes. It opens the slot of datagram 2 once more and is a change of
  packet, so all that datagram 3 lacks is asked for (`rudp_req.c:163-165`), its fragment 1 among them,
  which is on its way. The original and the copy make three of three, and datagram 3 goes to the device
  before its last fragment has been sent. `IncompleteOnlyIfTwice` shows that there is no other cause but
  the wrap of sequence numbers.
* `rx_buffers`. The simulated loss (`hs_udp_service.c:350`) loses the buffer too. After 63 such
  losses `fusion_receive_routine` waits for ever for a free buffer.
* `log_exit`. `hslog.c:49-52` treats a failed unlock as fatal. `hslog_init`, run by the inotify thread,
  initialises the mutex (`hslog.c:413-424`) while another thread is inside `hslog`; that thread's unlock
  fails and the process exits, because the file of settings was edited.

Not shown by a run of their own, and visible in the models:

* `rudp_req.c:54-57` decides to dump on `used` and `lastTime`, without a lock. A fragment that comes
  between the look and the store goes into a slot that is no longer in use (`raced` in
  `StoredIsKept`). `lastTime` is not reset when a slot is taken anew after a dump, so for a moment
  the new packet looks timed out.
* `rudp_req.c:201` asks for the fragment before the one that came, once, whether it is held or not,
  and for no earlier one that was skipped as well. `rrudp_complete_last_pkt` may ask for fragments
  of a packet that is still being sent, when an old fragment opens a slot in the middle of it.
* The size of a packet counts what comes twice (`rudp_req.c:183`). Of a datagram of 140 bytes, in
  fragments of 60, 60 and 20, the arrivals 0, 0, 1 make it complete, and 180 bytes go to the device
  (`hs_udp_service.c:211`); the last 60 are whatever the slot held. `SentIsOneDatagram` has the exception.
* The comment at `r_udp.c:26-29` (poll, serve, free the history) describes an earlier structure: a
  fragment that has been served stays, one second longer, and can be asked for again. Nothing limits
  that: one request a second for the head of the history keeps it there, with all behind it, and once all
  buffers are in the history `iot_receive_routine` stops (`HeldByRequests`).
* `hslog_init` resets the levels, but not the switches of `MULTICAST` and `UNICAST` (`hslog.c:408-421`): a
  file without a line for them leaves what an earlier content said.
* The watch for the file of settings is on all of `/etc` (`inotify.c:68`), and `handle_events` skips the
  note of an overflow, which has no name (`inotify.c:41`): the settings can stay old until the file is
  closed again (`missed`).
* The slot at index `MAX_PKTS` is not scanned for time-outs (`rudp_req.c:51`).
* `update_stats_pkts_recv` adds to `pkts_sent` and the reverse (`sensor_stats.c`); the model has the
  counters as the code does.
* A second loss in a datagram is not always recovered, a lost datagram of one fragment and a loss in the
  last datagram never: nothing tells the terminal that they are missing (`Recoverable` in `RUdpLink`).
* `retransmit_msg` (`rudp_req.c:122-125`) compares with the code of a request, so a fragment that is sent
  again counts as a new packet for `last_pkt_seq`.
* `pthread_create` reports errors by positive numbers, which the checks for `< 0` never see
  (`hs_udp_service.c:575` and after): the service runs without the thread.
* A request that comes between the start of `fusion_receive_routine` and that of `r_udp_routine`, or
  when the latter is missing, is answered through a null socket (`hs_udp_service.c:603`);
  `NullNeedsTraffic` says what it takes.
* The port is cut to 16 bits before it is compared with `ULONG_MAX` (`hs_udp_service.c:379`): 65537 is
  accepted as port 1.
* `init_terminal_cluster` checks the address of the pointer, not the pointer (`Terminals_Handler.c`): the
  error path for a failed allocation is never taken.
* A reload sets the levels to zero for a moment, so messages of all severities come out, and settings
  made by `hslog_config_set` are lost (`nToFile` among them).
* `hslog_to_network` (`hslog-multicast.c:206-223`) indexes names of severities that lack the entry of
  `HSLOG_NONE`.
* The wait of `bufpool_getNextFreeBuffer` is an `if` (`hs_buffer_pool.c:90`): of two threads that are
  woken by one broadcast the second would take an element that is not there. No element is ever put
  back, and only `main()` takes any.
* After a `Fifo_flush` that finds nobody waiting each `Fifo_get` returns -1, and nothing resets the
  flag. Nothing calls it.

## 6. Not modelled, and why

* The branch of `defragment` for `frgmntIdx >= frgmnts`: no fragment of a peer that runs this program
  takes it.
* The end of a receiving thread when `epoll_wait` fails (`hs_udp_service.c:75-78`), with which the
  service goes on without it.
* A clock that is set: `gettimeofday` is taken to advance.
* A datagram longer than 31 fragments, an address of the device that is not known yet, malformed
  requests: the model's inputs are those of a peer and a device that keep to the format.
* What nothing calls: `bufpool_putBackBuffer` and with it the wait for an element, `delete_bufpool`;
  `add_TerminalData`, `remove_terminal`, `get_terminal`; `Fifo_delete` and the two functions that set the
  size of a pipe; the rotation of the log file; `conf_read.c` and `mitigation.c`, which read a device
  and make an ioctl. (`Fifo_flush`, which nothing calls either, is modelled, because the behaviour of
  `Fifo_get` depends on it.)
* The example programs (`inotity_example.c`, `hslog/multicast-send.c`).
* The wording, colours and layout of log messages, the conversion of the options of the command line.
* `Service` does not repeat what `TxPath` and `RxPath` do to the data, and these take the fifos for
  sequences, which `ImplementsPointerQueue` allows as long as nothing calls `Fifo_flush`.

## 7. What could follow

The components that run are modelled, and their safety is proved. Left are: a clock that is set (the
code promises nothing then); several losses in one datagram, with a specification of what the protocol
should recover, which the repository does not state; and the functions that nothing calls, once
something does.
