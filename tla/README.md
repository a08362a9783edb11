# HomePanel firmware: a TLA+ model

The firmware of a wall panel (STM32F429, FreeRTOS, lwIP, mbedTLS, uGFX): it
keeps a TLS session with a home server, shows a touch interface and carries a
two-way voice intercom over UDP.  This directory holds TLA+ modules for the
parts that are the application's own, the TLC runs that check them on small
instances, and proofs for instances of any size.

## 1. The system

| part | state | operations | talks to |
|---|---|---|---|
| intercom thread (`thread_intercom.c`) | four FreeRTOS queues of frame buffers, the buffer being received into and the one being sent, start-up counters, notification bits | open, close, allocate, drain, poll, take, send, receive, play | UI thread (notification bits), lwIP UDP socket |
| ADC and DAC handlers (same file) | the halves of the two DMA buffers | move one frame from or to a queue | intercom thread (queues); `Error_Handler` when the network queue is full |
| client thread (`thread_client.c`) | `xQueueOutMessages`, `buffer_out`/`bytes_remaining`, `timeout_mark`, the TLS context | connect, handshake, write, read, ping, reconnect | server (TLS over TCP), UI and itself (queue), parser (call) |
| parser (`parser.c`) | phase, count, expected length, message buffer | one byte | client thread; calls back with a message |
| message codecs (`ping.c`, `command.c`, ...) | none | encode, decode, send | client queue |
| user interface (`thread_ui.c`) | console queue, pending call, notification timer, enabled buttons | configure, call, end, volume, answer; update of lists and labels | intercom (notifications), client (queue); called by the client thread |
| sockets (`net_sockets.c`) | descriptor | connect, send, recv, free | lwIP |
| Ethernet (`ethernetif.c`) | DMA descriptors, semaphores, link state | receive, transmit, link change | lwIP, interrupt |

The application's threads run at one priority, are preemptive and time-sliced at 1 kHz
(`freertos.c`, `FreeRTOSConfig.h`); all DMA interrupts have one priority
(`dma.c`).  The receiving thread of the driver and lwIP's own run above them, the
timer daemon below (priority 2).  Hard here: buffers that pass between a thread and interrupt
handlers; sends that answer "again" with state kept for the retry;
notification bits that coalesce; a bounded queue whose only reader also writes
to it; sessions that end in three different ways; state that survives from one
channel or session to the next; pointers, addresses and descriptors shared by
two threads without a lock; one event buffer between touch and thread; a DMA
ring with two owners, and a lock that is a flag.

### What makes each part correct

* **Intercom.**  Each frame buffer has exactly one owner (a queue, a variable,
  the heap) at any moment; the pool of capture buffers is neither drained nor
  enlarged, which is what lets the ADC handler treat a full network queue as
  impossible; captured frames leave whole, once, in order, although a send may
  have to be tried again; a close really closes; nothing of one channel leaks
  into the next.
* **Client.**  Messages go to TLS once and in the order they were queued; a
  write that could not complete is retried verbatim; a session that has ended
  is noticed and a new one made; an idle session is kept alive; the thread does
  not wait for itself (it may: section 5), and its pings do not pile up.
* **Parser.**  A frame comes out as the message that was sent, whatever it
  contains; after a cut the parser finds its way back into the stream and never
  writes behind its buffer.
* **User interface.**  Address and port of a channel belong to one call; a channel
  that was opened can be ended; End ends it; the tab set comes back after a
  notification.
* **Sockets.**  Each connection is closed once, by the thread that opened it.
* **Ethernet.**  Whole frames go up, each once and in order; no wake-up of the
  receiving thread is lost; what is given to the DMA is sent; reception never
  stops for good.

## 2. Modules

| module | models | state and actions |
|---|---|---|
| `FramePipe` | abstract: a bounded pipe of numbered frames | what both directions out of the panel promise; instantiated by the next two |
| `IntercomAudio` | `thread_intercom.c` | the variables keep their names in the code; one action per section of the thread's loop between two points where it can be preempted with an effect, one per interrupt handler |
| `IntercomAudioProofs` | | theorems about it: types, pool, refinement of `Channel` |
| `IntercomOwnershipProofs` | | theorems about it: who owns the buffers, and that they suffice |
| `IntercomPipeProofs` | | theorems about it: what the buffers hold, refinement of `FramePipe` |
| `ClientThread` | `thread_client.c` with the TLS record, the TCP connection and the user as a sender | one action per section of the loop of lines 229-339, per result of connect, handshake, write and read |
| `ClientThreadProofs` | | theorems about it: types, retries, order, refinement of `FramePipe` |
| `ClientQueueProofs` | | theorems about it: what is sent twice, what a ping finds unwritten |
| `Parser` | `parser.c`, the size field of the codecs | one action per branch of `HomeProtocol_ParserProcessBytes`, on one byte; the stream and its cuts |
| `ParserProofs` | | theorems about it |
| `Channel` | abstract: requests to open and close, and what the intercom thread does with them | implemented by `IntercomAudio`, part of `IntercomControl` |
| `IntercomControl` | `thread_ui.c`, the listener of uGFX, the timer daemon, the two stores and two reads of the address | five actors; one action per call or store another actor can see |
| `IntercomControlProofs` | | theorems about it |
| `Sockets` | the socket table of lwIP, `net_sockets.c`, the sockets of client and intercom | one action per call that opens or closes a descriptor |
| `EthernetDriver` | `ethernetif.c`, the transmit, receive and interrupt functions of the HAL, the DMA | the descriptor rings, the lock, both threads, the DMA |
| `EthernetDriverProofs` | | theorems about it |
| `MC*` | | small instances |

Operators named as mutants in their comments (`PeekFrame`, `DequeueAlways`,
...) are not part of a specification.  Each is one definition with a plausible
mistake in it, and `PROJECT.json` says which property fails when it takes the
definition's place.

### IntercomAudio

`pc` is where the thread is: `wait` (line 122), `alloc` (158-164), then the
loop `drain` (177) - `poll` (184) - `fill` (218) - `send` (223) - `recv` (247) -
`play` (261), `stop` (188-214), or `halted` (`Error_Handler`).  A buffer is a
model value; the four queues, `buf_in` and `buf_out` hold them and `heap` is the
set of those that are not allocated, so that a double free, a use after free or
a leak is visible.  A handler is one action, because all handlers have one
priority and FreeRTOS masks them in the calls of the thread.  The complete and
the half-complete callback of a converter do the same to queues and are one
action.  The sound itself is a number: `AdcInterrupt` writes the next number
into the buffer (`content`), so overwritten or swapped frames show.

`CloseChannel` is one action: it stops the timer that triggers both converters
first, and nothing else looks at the queues between its steps.

A datagram on the send side goes out whole or not at all (lwIP UDP), which
makes `bytes_to_send` either 0 or `FRAME_SIZE` as long as `sendto` fails only
with `EAGAIN` or `EINTR`; `SendFails` is the other case.

### ClientThread

A frame is a message's kind and its number; `bytes_remaining` is the frame in
`buffer_out`, because one frame fits one TLS record and `mbedtls_ssl_write`
takes it whole or keeps the record and answers `WANT_WRITE`.  `record` is what
mbedTLS keeps.  The connection is what lwIP shows of it: `up`, ended by a TLS
close_notify (`notify`), by FIN alone (`fin`) or by a reset (`rst`); after the
last two `recv` returns 0 or an error for ever.  `heap` counts the calls of
`mbedtls_ssl_setup` that can still get memory: every call allocates both record
buffers and `mbedtls_ssl_session_reset` does not free them.  `overdue` is the
test of line 314.  Ten seconds pass in a session when it has nothing to write, when
a write is being refused (`Stalls`), or when the thread waits for room in its own
queue; a session that can write does so in its next round.

### Parser

`phase` stands for `in_header` and `in_body`; `buffer` for the `byte_count` bytes
stored, those behind the message buffer included: line 45 looks at no bound and
neither does `StoreByte`.  `Room` is how many the buffer holds.  `rest` is what the server has still to
send of the current frame, `started` whether the parser was hunting when that
frame began, `received` what the callback got during it.  The header is kept in
the order of the code (id, size low, size high, other bytes) since what a cut
makes of it depends on that order.

### Channel and IntercomControl

The two halves of the intercom meet at `Channel`: a channel that is closed, open
or halted, and the notification bits.  `IntercomAudio` implements it
(`ImplementsChannel`, checked by TLC and proved), so `IntercomControl` may use it
in place of the audio path: the intercom thread there is `Channel!Take`, `Lose`
and `Halt` with the two reads of the address (`thread_intercom.c:141-142`), during
which it takes no request.

`pcUi` is where the UI thread is in the handler of a button; `event`,
`withListener` and `waitqueue` are the listener's buffer, its flag and semaphore
(`gevent.c`), so a touch that comes while the buffer is in use is lost.  The
windows are flags; each of the calls that change one is an action, because the
timer daemon or the client thread may run in between.  `pendingIntercomRequest` is
what the pointer leads to: nothing, a caller's request, a block that was freed,
or one that is allocated and not yet written.

Two facts about time are assumed and named where they are used.  `WorkedOff`: a
touch and its request are dealt with in milliseconds, before the user's next
touch, unless the UI thread waits for room in the client's queue (`send`), which
may take any time.  That leaves out most overlaps of two touches: one that replaces
an event already signalled, or two `ChannelOpen`s at once, except for an answer
held up in `send`.  Calls from the server come at any time.  `TimerFires`: the notification lasts two seconds, and the
daemon runs at priority 2, below the threads', so it fires when the UI thread
waits and the request has been taken.

`spinning` is the client thread in a session that is dead (finding 2): it goes
round its loop without ever waiting, and the daemon, of lower priority, does not
run (`DaemonRuns`), while the threads of the client's own priority go on.  It ends
when a message is written and the write fails, which need not happen.

### Sockets

`sockets` is the table, with the thread each entry belongs to; `Alloc` gives out
the lowest free index, as `alloc_socket` does, and `Close` takes whatever index it
is given.  `ssl_fd` starts with any value (`thread_client.c:176`).  The host's name
is not defined in the repository, so `getaddrinfo` may fail (`ResolveFails`).

### EthernetDriver

A descriptor is its owner, its first and last bits and the number of the frame
it holds.  The DMA may store a frame over several descriptors, run out of them in
the middle or find none.  `pcIn` follows the receiving thread through
`ethernetif_input`, `low_level_input` and `HAL_ETH_GetReceivedFrame_IT`: the test
of the lock and its setting are two actions, and so is every descriptor scanned.
`pcOut` follows the thread that holds lwIP's core lock through
`HAL_ETH_TransmitFrame`.  The interrupt handler gives the semaphore, clears the
flag and clears the lock, whoever set it.  `gaveUp` records that the last drain
ended for want of a pbuf or by the lock, which is what the properties need to
tell such a drain from one that emptied the ring.  The DMA of the model
always fetches a frame in time, so the underflow flag and the resumption that
follows it (`ethernetif.c:416-423`) are left out.

## 3. Runs

| run | instance | shows |
|---|---|---|
| `intercom_safety` | 7 buffers, queues and pool of 2, frames of 2 units, no hard faults | types, single ownership, conserved pool, space for every free buffer, no `Error_Handler`, no leak, quiet after close, prebuffered start, `FramePipe` implemented |
| `intercom_faults` | 3 buffers, one per queue, every call may fail for good | ownership and order survive heap exhaustion and channels reopened over running streams; `Channel` implemented; a captured frame is sent, a close closes |
| `intercom_recv_error` | `recvfrom` may fail | **violated**: space for a free buffer |
| `intercom_control` | two callers and the fixed address | types, one call per channel, an open channel can be ended, End takes effect, the tab set returns |
| `client_safety` | queue of 2, send buffer of 2, two sessions, every way of losing them | types, `FramePipe` implemented, verbatim retry, order within a session, what may be sent twice, what a ping finds unwritten |
| `client_liveness` | queue of 2 filled by the user, writes refused for any time, two sessions that end with close_notify | reconnection, progress, keep-alive, unless the thread has come to wait for itself |
| `client_fin` | the server ends with FIN only | **violated**: a dropped connection reconnects |
| `parser_stream` | header of 4, data up to 7 bytes | whole messages, nothing expected that is past, nothing written behind the buffer, resynchronisation within a frame and a message |
| `parser_codec` | the size field of the codecs | **violated**: a frame comes out whole |
| `ethernet` | rings of 3 and 2, frames of up to 2 descriptors, a mailbox of 1, 3 frames | types, whole frames, order, no lost wake-up, transmission ends, reception resumed unless a drain was cut short |
| `eth_stall` | rings of 2 and 1, 3 frames of 1 descriptor | **violated**: reception is resumed |
| `sockets_closed_twice` | 4 sockets, as in the code | **violated**: the client closes only its own connection |

**Bounds.**  Buffers and queues: with two buffers in the pool and two places in
each queue, every queue can be empty, partly filled and full, and the thread can
hold one buffer while the ADC fills another; the order of the ratio in the code
(pool = queue length, 10 and 10) is kept, which is what `SpaceForFreeBuffer`
depends on.  Seven buffers are those that can be allocated at once (one being
received, two in the pool, two waiting for the DAC, two played), as the heap of
the panel has room for far more than 31.  `FrameMod` numbers frames modulo more
than the pool.  `MaxPlayed` bounds the DAC interrupts in one turn of the loop: a
turn takes a few ticks of 1 ms, an interrupt comes per 160 samples; were more
than 10 to fall into one turn the handler would drop buffers (line 301).
`MaxExcess` caps how often a failing `sendto` may add to `bytes_to_send`.  In
the client `NumMod` exceeds everything in flight; `HeapSlots` is the number of
sessions; `UiLimit` how much of the queue the user fills.  In `client_liveness` two
places, two messages of the user, two sessions and refused writes are enough to
bring the thread into the wait for its own queue: behind the user's messages, behind
pings, and behind both.  The properties name that state (`WaitsForItself`) and exempt
it; the bounds do not keep it away.  In `client_safety` sessions end in every way as
well.  In the parser nothing caps what is stored; in `parser_stream` the properties
themselves bound it.  `MaxStray` (492 bytes with the code's sizes) is tight, TLC
reaches it.  `MaxData` of the stream run is longer than the shortest
frame, so that a cut message can swallow a whole frame and part of the next.
The server's ids are not 0 and all sizes are below 256, as in `message.h`.
In `intercom_faults` queues and pool are of 1, so that one hard fault already
meets full and empty queues, and the frames of the temporal properties stay few.
In the control two callers let one request replace another.  In the driver three
receive descriptors hold a frame of two segments and one of another, wrap round,
and fill; with two transmit descriptors the DMA can be one behind; `MaxFrames`
caps what the network sends and is more than the ring and the mailbox need to
overflow in turn.

**Deadlock** is not checked where the device does stop: runs with hard faults and
`intercom_control` (`Error_Handler`), and `sockets_closed_twice` (the client and
the intercom may hold every socket, and the intercom halts without one).

**Fairness.**  `FairSpec` of `IntercomAudio`: the thread (weak: it is time-sliced
with the others of its priority), both handlers (weak: DMA is circular), and
`SendFrame` (strong: a socket that answers `EAGAIN` now and again sends in the
end).  Nothing is assumed of the user or of the sender of datagrams.  `FairSpec`
of `ClientThread`: the thread and a user blocked on the queue (weak), a live
server reads (weak), its connection does not refuse writes for ever (strong),
and it does not answer every read with a record that carries no data (strong on
`ReadData \/ ReadTimeout`).  `FairSpec` of `IntercomControl`: the threads, of one
priority and time-sliced (weak on `Ui`, `Client`, `Intercom`: a thread of the same priority that
spins does not stop them), and the daemon (strong).  The daemon runs when the
threads wait, as they do again and again: the intercom thread for a tick in every
turn, the UI thread for 10 ms between two events, the client thread for up to
100 ms in a read.  While it spins in a dead session instead, no action of the daemon is
enabled and the strong fairness says nothing; `TabsetReturns` therefore speaks of
runs in which such a session comes to an end.  Nothing is assumed of `MessageSent`,
the queue may stay full, nor of `SessionEnds`.  `FairSpec` of
`EthernetDriver`: both threads, the fetch of a frame by lwIP, a pending interrupt
and the transmit DMA (all weak); nobody has to send or receive.

## 4. Proofs

`IntercomAudioProofs`, for every heap, queue length, pool, frame size and
interrupt rate that the assumptions of `IntercomAudio` allow:

* `TypeCorrect`: `Spec => []TypeOK`, whichever calls fail.
* `PoolIsConserved`, `FreeBufferHasSpace`, `ClosedChannelIsQuiet`, when `recvfrom`
  does not fail for good (else they are false: run `intercom_recv_error`).  None
  is inductive by itself.  `PoolInv` adds what makes them so: outside a
  channel the capture queues are empty and the converters are off, during the
  allocation exactly `allocated` buffers are in `xTxBufferQueue`, and within the
  loop free, captured and held buffers add up to `PoolSize`, which is at most the
  length of a queue.

`ClientThreadProofs`, for every queue, send buffer, heap and peer:

* `TypeCorrect`.
* `RetriesAreVerbatim`: strengthened by `RecordInvariant`, that TLS has no
  record between sessions (the reset of line 337).
* `SessionIsInOrder`: the server sees consecutive messages within a session.
  `OrderInv` strengthens it: along queue, `buffer_out`, wire and server each
  message has the number after the one ahead of it, and until the connection is
  reset what TLS is given next follows what it was given last.  The retries need
  `RecordInvariant`: a repeated write sends what TLS kept.
* `ThreadImplementsPipe`: `ClientThread` implements `FramePipe`.  The refinement
  maps every step that takes a message into the queue to `Enter`, the write that
  completes to `Leave`, and the rest to stutters.  It rests on
  `TypeOK` alone; the lemmas are about the numbers of the frames in the backlog.

`ClientQueueProofs`, both without further hypotheses:

* `OnlyTheLastComesAgain`: `ResentOnlyAfterClose`.  No
  message carries a mark that it was sent, and in the model two are the same when
  their numbers are; so `AgeInv` gives the age of every message on its way, how
  far its number is behind the next one.  The ages of the backlog are its
  positions; those on the wire follow without a gap, shifted by one when the
  session closed with a record written that the thread still counts as its own
  (`overlap`), and above a gap when a reset lost frames (`lost`).  As `NumMod`
  exceeds every age, equal numbers are equal ages (`AgesDiffer`), and the shift is
  the only way to have one.
* `PingsDoNotPileUp`: `PingsDoNotPile`.  `PingInv` says of a session in which ten
  seconds have passed without traffic that the thread's own messages are on their
  way to the next write (`Drained`), or behind one that was refused: such seconds
  pass only when nothing waits or a write is refused, and what the last session left
  is written, behind the new request, before the first read.

`ParserProofs`, for every size of header and data:

* `TypeCorrect`, whatever the size field counts and the cuts leave.  It bounds what
  is expected (the test of line 52), not what is stored.
* `FramesDelivered`: `DeliveredWhole`, when the size field counts the whole message
  (else it is false: run `parser_codec`).  `StreamInv` says that what is left of a
  frame is its end, `InStep` that a parser that hunted when the frame began is
  where the frame is: in phase, bytes stored and length expected.  No byte is
  excluded, so a frame may contain what looks like the start of another.
* `NeverExpectsLess`, `StaysInBuffer`, `BackInStep`: `ExpectsMore`, `InsideBuffer` and
  `Resynchronises`, when the size field counts the whole message and ids and the
  bytes of a cut stream are not `A` (`CleanStream`; with `A` among them
  the first two are false, see section 5).  `BodyInv` looks ahead: the size of the
  message being stored is that of bytes still to come, and is at least the
  header's.  `StrayInv` bounds what a session may have lost so far together with
  what the parser is still going to swallow (`Fresh`, `Late`, `Early`: before the
  size is known, with a size that fits, with one that is too large).

`IntercomAudioProofs`, besides the above, whichever calls fail:
`ThreadImplementsChannel`, and `PlaybackIsPrebuffered`, by the invariant that
`frame_count` counts at most the frames in the queue as long as the DAC is off.

`IntercomOwnershipProofs` treats the owners of buffers as a ledger from owners to
sequences:

* `BuffersOwnedOnce`, whichever calls fail.  `Once` says of any ledger that no
  buffer is in it twice or both in it and on the heap.  It is kept by giving the
  first buffer of an owner back, taking one from the heap, moving one, losing one
  and by owners giving up all they hold (lemmas `Ledger...`); every action is one
  or two of these (`OwnStep`).
* `NoBufferIsLost`, when `recvfrom` does not fail for good.  Of the same moves,
  only losing takes a buffer out of the ledger and the heap, and a buffer is lost
  where a queue is full or the thread leaves its loop.  `PoolInv` says that the
  capture queues have room, `PlayedInv` that the queue of played buffers has: it
  holds at most the frames played since it was drained, fewer than `MaxPlayed`.
* `ThreadNeverHalts`, when moreover sockets can be made and the heap has at least
  `PoolSize + MaxPlayed + 1` buffers.  The calls of `Error_Handler` that depend on
  buffers are those for an allocation that fails and for a full network queue.
  The first needs a count that no list of owners shows: since every buffer is on
  the heap or owned, an empty heap means that all of `Buf` is in queues, and these
  hold fewer (`QueueHoldsAtMost`, `HeapLasts`).  The second is `SpaceForFreeBuffer`.

`IntercomPipeProofs`:

* `CaptureIsInOrder`, whichever calls fail.  The sequence of the numbers of
  captured frames only ever gets the next number at its end, loses its first, or
  is emptied (`AdcEnters`, `SendLeaves`, `HeldLeaves`, `CloseEmpties`, `OtherSteps`).
  That the interrupt overwrites none of them needs ownership: the free buffer it
  fills is not on its way to the network.
* `CaptureImplementsPipe`, when `recvfrom` does not fail for good: the same steps
  are those of `FramePipe`.  `PoolInv` gives the room, `StreamOn` that the ADC
  runs during the whole loop.

`EthernetDriverProofs`, for every ring, mailbox and number of segments:

* `TypeCorrect`, `OneFrameIsCopied`, `NoWakeUpIsLost`.  None is inductive.
  `RingInv` says what the ring holds from its oldest descriptor (the start of the
  segments counted so far) up to the DMA's: whole frames one after another, the
  last of them perhaps unfinished, all owned by the driver, and from there on
  descriptors of the DMA.  A scan moves through the first of these frames
  (`Scan`), the DMA lengthens the last, and a release takes the first away.  That
  `SegCount` stays within the ring follows only from it.
* `FramesStayInOrder`: `DeliveredInOrder`, from `RingInv` and `OrderInv`: the
  frames of the ring carry numbers that do not decrease, grow behind a last
  segment, and are newer than the newest frame taken.

`IntercomControlProofs`, for every set of callers, assuming that the fixed address
is none of them:

* `TypeCorrect`, `OneCallIsOpened`, `OpenChannelIsEndable`.  The invariant
  adds which button each step can be for (`HandlerInv`), that a handler of the tab
  set has no request and no other touch beside it (`QueueInv`), that the stored
  address and port agree from the notification until both are read (`AddrInv`),
  that the End button is on while a channel to the fixed address is open or
  asked for (`EndInv`), and that somebody is on the way to bring back a tab set
  that is disabled or hidden (`TabInv`).

Every invariant and every refinement that a passing run checks is proved.  Only
model-checked: the properties under fairness (`OldestIsSent`, `CloseTakesEffect`,
`EndTakesEffect`, `TabsetReturns`, `DroppedReconnects`, `OldestIsWritten`,
`KeptAlive`, `GivenIsSent`, `ResumesUnlessCutShort`), because liveness and `ENABLED`
are out of the prover's reach.  About `Sockets` there is no theorem: what is said
of it is false (section 5).

## 5. Findings

1. After a hard error of `recvfrom` the converters keep running; the next channel
   ends in `Error_Handler` (`thread_intercom.c:250-257`).
2. End of stream and network errors of the TLS read are not looked at; an idle
   client spins in a dead session (`thread_client.c:305-326`).
3. Codecs and parser disagree on what the size field counts (`parser.c:69`,
   `*_encode`).
4. A drain that meets the HAL's lock ends without resuming reception; with the
   ring full nothing starts it again (`ethernetif.c:449`).
5. A refused connection is closed twice, and the second close may take the
   intercom's socket (`net_sockets.c:158`, `thread_client.c:336`).

Seen on the way, and modelled, without a run of their own: the second has the
effect of finding 2, the others contradict no text of the repository:

* A hard error of `sendto` is subtracted from the bytes to send
  (`thread_intercom.c:233`; `SendFails`).
* The client thread waits for room in the queue that only it empties, for ever: when
  the user has filled it before the handshake ends (`thread_client.c:268`), when
  sessions reset right behind their handshakes have left their requests in it,
  and when a write is refused for more than ten seconds and a ping is queued in
  every round (`thread_client.c:318`).  The end of the session is not noticed any
  more.  TLC shows it as soon as
  `WaitsForItself` is taken out of `DroppedReconnects` in `client_liveness`.
* While the client thread spins in a dead session the timer daemon does not run: a
  notification stays, and the tab set does not come back until a message is
  written, which from a hidden tab set the user cannot bring about.
* The parser keeps its state across sessions and refuses no size below that of
  the header: after a cut the bytes `AE` in data may start a frame of size 0
  (`parser.c:52`; `CutBytes` with `CharA`).  What is stored is then past what is
  expected, no test stops it, and the bytes that follow go behind the buffer.
* Answering a call may look up a request that was freed meanwhile, and leaves the
  port in host order (`thread_ui.c:483-485`); a call answered while a channel is
  open does not change where that channel sends; the window of a call is never
  hidden.
* `HAL_BUSY` of a transmission is not looked at and the frame is gone
  (`ethernetif.c:409`).

## 6. Not modelled

Vendored code (FreeRTOS, mbedTLS, uGFX, lwIP, HAL, Speex), which is nearly all of
the repository's 395,000 lines, except for the functions of HAL, lwIP and uGFX that
the application's behaviour hangs on (`HAL_ETH_*`, `alloc_socket`, `lwip_close`,
the fetch of the tcpip thread, the listener of `gevent.c`); the share of all lines
that is mapped is small for that reason.  Generated peripheral set-up; USB console
glue; `servertask.c`, which nothing starts; the arithmetic on samples and
`dac_volume`; the layout of the screens, labels, lists and the console; the
dispatch of the messages that only change those; the link thread, whose
notification stops in the debugger (`thread_client.c:136-144`); a full command
queue of the timer daemon.

## 7. Plan

Left to do, in this order:

1. Parser and client composed: the session that dies under a message.
2. The call control with a user who is faster than its handlers (`WorkedOff` left
   out).
3. The safety halves of the liveness properties of intercom and driver: what a
   step may never do while a close or a frame is pending.
4. `Sockets` under the condition that connections succeed: each is closed once.
