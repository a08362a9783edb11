--------------------------- MODULE IntercomAudio ---------------------------
(***************************************************************************)
(* The audio path of the intercom (thread_intercom.c): one thread, the     *)
(* interrupt handlers of the ADC and of the DAC, and the four FreeRTOS     *)
(* queues through which they pass frame buffers.                           *)
(*                                                                         *)
(*    capture   xTxBufferQueue --ADC ISR--> xOutgoingAudio --sendto-->     *)
(*              back to xTxBufferQueue                                     *)
(*    playback  recvfrom --> xIncomingAudio --DAC ISR--> xRxBufferQueue    *)
(*              --> freed by the thread                                    *)
(*                                                                         *)
(* A buffer is a member of Buf, its owner is the queue or the variable     *)
(* that holds it, and `heap' is what pvPortMalloc has left.  The thread is *)
(* preemptible between any two of its actions; an interrupt handler is one *)
(* action, the two handlers having the same priority (dma.c:75-78).        *)
(***************************************************************************)
EXTENDS Integers, SequencesExt

CONSTANTS
  Buf,               \* the frame buffers the heap can hold
  NoBuf,             \* the NULL pointer
  QueueLen,          \* capacity of each queue (10, lines 44-47)
  PoolSize,          \* ADC_BUFFER_COUNT, buffers allocated per channel
  FrameSize,         \* FRAME_SIZE, in units in which a datagram is counted
  FrameBufferCount,  \* FRAME_BUFFER_COUNT, frames queued before playback
  FrameMod,          \* captured frames are numbered modulo FrameMod
  MaxPlayed,         \* DAC interrupts that fit in one turn of the loop
  Faults             \* which calls may fail for good: see FaultKinds

FaultKinds == {"socket", "send", "recv"}

ASSUME QueueAssumption == QueueLen \in Nat \ {0}
ASSUME PoolAssumption == PoolSize \in 1..QueueLen
ASSUME FrameAssumption == /\ FrameSize \in Nat \ {0}
                          /\ FrameBufferCount \in 1..QueueLen
                          /\ FrameMod \in Nat /\ FrameMod > PoolSize
ASSUME TimingAssumption == MaxPlayed \in 1..QueueLen
ASSUME NoBufAssumption == NoBuf \notin Buf
ASSUME FaultsAssumption == Faults \subseteq FaultKinds

VARIABLES
  pc,                                \* where the thread is
  notify,                            \* pending bits of the task notification
  xIncomingAudio, xOutgoingAudio,    \* queues of frames
  xRxBufferQueue, xTxBufferQueue,    \* queues of used and of free buffers
  buf_in, buf_count,                 \* buffer being received into, its fill
  buf_out, bytes_to_send,            \* buffer being sent, what is left of it
  frame_count, dac_started,          \* playback start-up, frame_count capped
  allocated,                         \* i of the allocation loop (line 158)
  adcOn, dacOn,                      \* the DMA streams run
  heap,                              \* buffers that are not allocated
  content,                           \* number of the frame a buffer holds
  captured,                          \* number of the next frame captured
  played                             \* DAC interrupts since the last drain

threadVars == <<buf_in, buf_count, buf_out, bytes_to_send, frame_count,
                dac_started, allocated>>
captureVars == <<content, captured>>
vars == <<pc, notify, xIncomingAudio, xOutgoingAudio, xRxBufferQueue,
          xTxBufferQueue, threadVars, adcOn, dacOn, heap, captureVars, played>>

Full(q) == Len(q) = QueueLen

\* The inner loop of the thread, lines 176-280: the channel is open.
Streaming == pc \in {"drain", "poll", "stop", "fill", "send", "recv", "play"}

\* The thread holds a buffer it took from xOutgoingAudio.
Holding == Streaming /\ bytes_to_send > 0

Held == IF Holding THEN <<buf_out>> ELSE <<>>

\* The captured frames on their way to the network, oldest first.
Outbound == Held \o xOutgoingAudio

\* Every buffer somebody owns, by the queue or the variable that holds it.
Owners == {"free", "captured", "sending", "playing", "played", "filling"}
HeldBy(o) == CASE o = "free" -> xTxBufferQueue
               [] o = "captured" -> xOutgoingAudio
               [] o = "sending" -> Held
               [] o = "playing" -> xIncomingAudio
               [] o = "played" -> xRxBufferQueue
               [] o = "filling" -> <<buf_in>>
Holds == [o \in Owners |-> HeldBy(o)]
-----------------------------------------------------------------------------
(* IntercomThread_Init and the thread up to its first wait, lines 42-122.  *)
Init ==
  /\ pc = "wait" /\ notify = {}
  /\ xIncomingAudio = <<>> /\ xOutgoingAudio = <<>>
  /\ xRxBufferQueue = <<>> /\ xTxBufferQueue = <<>>
  /\ buf_in \in Buf /\ heap = Buf \ {buf_in}
  /\ buf_count = 0
  /\ buf_out = NoBuf /\ bytes_to_send = 0
  /\ frame_count = 0 /\ dac_started = FALSE
  /\ allocated = 0
  /\ adcOn = FALSE /\ dacOn = FALSE
  /\ content = [b \in Buf |-> 0] /\ captured = 0
  /\ played = 0

\* IntercomThread_ChannelOpen and IntercomThread_ChannelClose: the user
\* interface sets a bit of the notification value (eSetBits).
ChannelRequest(bit) ==
  /\ pc # "halted"
  /\ notify' = notify \cup {bit}
  /\ UNCHANGED <<pc, xIncomingAudio, xOutgoingAudio, xRxBufferQueue,
                 xTxBufferQueue, threadVars, adcOn, dacOn, heap, captureVars,
                 played>>
ChannelOpen == ChannelRequest("open")
ChannelClose == ChannelRequest("close")

\* Mutant of AwaitOpen: frame_count keeps its value (line 155 left out).
AwaitOpenNoReset ==
  /\ pc = "wait" /\ notify # {}
  /\ notify' = {}
  /\ IF "open" \in notify
     THEN /\ pc' = "alloc"
          /\ buf_count' = 0 /\ bytes_to_send' = 0
          /\ dac_started' = FALSE /\ allocated' = 0
          /\ UNCHANGED <<buf_in, buf_out, frame_count>>
     ELSE UNCHANGED <<pc, threadVars>>
  /\ UNCHANGED <<xIncomingAudio, xOutgoingAudio, xRxBufferQueue,
                 xTxBufferQueue, adcOn, dacOn, heap, captureVars, played>>

\* Line 122: wait for a notification.  Every bit is cleared, only OPEN is
\* tested.  On OPEN the socket is made and the counters are reset.
AwaitOpen ==
  /\ pc = "wait" /\ notify # {}
  /\ notify' = {}
  /\ IF "open" \in notify
     THEN /\ pc' = "alloc"
          /\ buf_count' = 0 /\ bytes_to_send' = 0
          /\ dac_started' = FALSE /\ frame_count' = 0
          /\ allocated' = 0
          /\ UNCHANGED <<buf_in, buf_out>>
     ELSE UNCHANGED <<pc, threadVars>>
  /\ UNCHANGED <<xIncomingAudio, xOutgoingAudio, xRxBufferQueue,
                 xTxBufferQueue, adcOn, dacOn, heap, captureVars, played>>

\* Lines 127-150: socket or bind fails, Error_Handler.
OpenFails ==
  /\ "socket" \in Faults
  /\ pc = "wait" /\ "open" \in notify
  /\ pc' = "halted" /\ notify' = {}
  /\ UNCHANGED <<xIncomingAudio, xOutgoingAudio, xRxBufferQueue,
                 xTxBufferQueue, threadVars, adcOn, dacOn, heap, captureVars,
                 played>>

\* Lines 158-164: one buffer more for the ADC.  The result of the send is not
\* looked at, so a buffer that finds the queue full is lost.
AllocateBuffer ==
  /\ pc = "alloc" /\ allocated < PoolSize
  /\ IF heap = {}
     THEN /\ pc' = "halted"
          /\ UNCHANGED <<heap, xTxBufferQueue, allocated>>
     ELSE /\ \E b \in heap :
               /\ heap' = heap \ {b}
               /\ xTxBufferQueue' = IF Full(xTxBufferQueue)
                                    THEN xTxBufferQueue
                                    ELSE Append(xTxBufferQueue, b)
          /\ allocated' = allocated + 1
          /\ pc' = pc
  /\ UNCHANGED <<notify, xIncomingAudio, xOutgoingAudio, xRxBufferQueue,
                 buf_in, buf_count, buf_out, bytes_to_send, frame_count,
                 dac_started, adcOn, dacOn, captureVars, played>>

\* Lines 172-174: start the timer and the ADC.
StartCapture ==
  /\ pc = "alloc" /\ allocated = PoolSize
  /\ adcOn' = TRUE
  /\ pc' = "drain"
  /\ UNCHANGED <<notify, xIncomingAudio, xOutgoingAudio, xRxBufferQueue,
                 xTxBufferQueue, threadVars, dacOn, heap, captureVars, played>>

\* Lines 177-182: free the buffers that were played.
DrainPlayed ==
  /\ pc = "drain"
  /\ IF xRxBufferQueue # <<>>
     THEN /\ heap' = (heap \cup {Head(xRxBufferQueue)}) \ {NoBuf}
          /\ xRxBufferQueue' = Tail(xRxBufferQueue)
          /\ UNCHANGED <<pc, played>>
     ELSE /\ pc' = "poll"
          /\ played' = 0
          /\ UNCHANGED <<heap, xRxBufferQueue>>
  /\ UNCHANGED <<notify, xIncomingAudio, xOutgoingAudio, xTxBufferQueue,
                 threadVars, adcOn, dacOn, captureVars>>

\* Mutant of PollNotification: tests the wrong bit.
PollOpen ==
  /\ pc = "poll"
  /\ pc' = IF "open" \in notify THEN "stop" ELSE "fill"
  /\ notify' = {}
  /\ UNCHANGED <<xIncomingAudio, xOutgoingAudio, xRxBufferQueue,
                 xTxBufferQueue, threadVars, adcOn, dacOn, heap, captureVars,
                 played>>

\* Lines 184-187: poll the notification; every bit is cleared, only CLOSE is
\* tested.
PollNotification ==
  /\ pc = "poll"
  /\ pc' = IF "close" \in notify THEN "stop" ELSE "fill"
  /\ notify' = {}
  /\ UNCHANGED <<xIncomingAudio, xOutgoingAudio, xRxBufferQueue,
                 xTxBufferQueue, threadVars, adcOn, dacOn, heap, captureVars,
                 played>>

\* Mutant of CloseChannel: xOutgoingAudio is not emptied (lines 202-205).
CloseKeepsOutgoing ==
  /\ pc = "stop"
  /\ adcOn' = FALSE /\ dacOn' = FALSE
  /\ heap' = (heap \cup ToSet(xIncomingAudio) \cup ToSet(Held)
                   \cup ToSet(xTxBufferQueue)) \ {NoBuf}
  /\ xIncomingAudio' = <<>> /\ xTxBufferQueue' = <<>>
  /\ pc' = "wait"
  /\ UNCHANGED <<notify, xOutgoingAudio, xRxBufferQueue, threadVars,
                 captureVars, played>>

\* Mutant of CloseChannel: the frame being sent is not freed (lines 211-213).
CloseKeepsHeld ==
  /\ pc = "stop"
  /\ adcOn' = FALSE /\ dacOn' = FALSE
  /\ heap' = (heap \cup ToSet(xIncomingAudio) \cup ToSet(xOutgoingAudio)
                   \cup ToSet(xTxBufferQueue)) \ {NoBuf}
  /\ xIncomingAudio' = <<>> /\ xOutgoingAudio' = <<>> /\ xTxBufferQueue' = <<>>
  /\ pc' = "wait"
  /\ UNCHANGED <<notify, xRxBufferQueue, threadVars, captureVars, played>>

\* Lines 188-214: close the socket, stop the timer that triggers both
\* converters (adc.c:77, dac.c:78), then free what three of the queues hold and
\* the frame being sent.  No interrupt comes once the timer is stopped, so
\* nobody sees the steps in between.  What a freed buffer held is forgotten.
CloseChannel ==
  /\ pc = "stop"
  /\ adcOn' = FALSE /\ dacOn' = FALSE
  /\ heap' = (heap \cup ToSet(xIncomingAudio) \cup ToSet(Outbound)
                   \cup ToSet(xTxBufferQueue)) \ {NoBuf}
  /\ xIncomingAudio' = <<>> /\ xOutgoingAudio' = <<>> /\ xTxBufferQueue' = <<>>
  /\ content' = [b \in Buf |-> IF b \in heap' THEN 0 ELSE content[b]]
  /\ pc' = "wait"
  /\ UNCHANGED <<notify, xRxBufferQueue, threadVars, captured, played>>
-----------------------------------------------------------------------------
\* Mutant of TakeFrame: the frame is looked at and stays in the queue.
PeekFrame ==
  /\ pc = "fill"
  /\ pc' = "send"
  /\ IF bytes_to_send = 0 /\ xOutgoingAudio # <<>>
     THEN buf_out' = Head(xOutgoingAudio) /\ bytes_to_send' = FrameSize
     ELSE UNCHANGED <<buf_out, bytes_to_send>>
  /\ UNCHANGED <<notify, xIncomingAudio, xOutgoingAudio, xRxBufferQueue,
                 xTxBufferQueue, buf_in, buf_count, frame_count, dac_started,
                 allocated, adcOn, dacOn, heap, captureVars, played>>

\* Lines 218-221: take the next captured frame, waiting at most a tick.
TakeFrame ==
  /\ pc = "fill"
  /\ pc' = "send"
  /\ \/ /\ bytes_to_send = 0 /\ xOutgoingAudio # <<>>
        /\ buf_out' = Head(xOutgoingAudio)
        /\ xOutgoingAudio' = Tail(xOutgoingAudio)
        /\ bytes_to_send' = FrameSize
     \/ /\ bytes_to_send > 0 \/ xOutgoingAudio = <<>>
        /\ UNCHANGED <<buf_out, xOutgoingAudio, bytes_to_send>>
  /\ UNCHANGED <<notify, xIncomingAudio, xRxBufferQueue, xTxBufferQueue,
                 buf_in, buf_count, frame_count, dac_started, allocated,
                 adcOn, dacOn, heap, captureVars, played>>

\* Mutant of SendFrame: bytes_to_send is not reduced (line 233 left out).
SendFrameUncounted ==
  /\ pc = "send" /\ bytes_to_send > 0
  /\ pc' = "recv"
  /\ UNCHANGED <<notify, xIncomingAudio, xOutgoingAudio, xRxBufferQueue,
                 xTxBufferQueue, threadVars, adcOn, dacOn, heap, captureVars,
                 played>>

\* Lines 225, 233-240: the datagram is sent, its buffer is free again.  A
\* datagram goes out whole or not at all.
SendFrame ==
  /\ pc = "send" /\ bytes_to_send > 0
  /\ bytes_to_send' = 0
  /\ IF Full(xTxBufferQueue)
     THEN pc' = "halted" /\ UNCHANGED xTxBufferQueue
     ELSE pc' = "recv" /\ xTxBufferQueue' = Append(xTxBufferQueue, buf_out)
  /\ UNCHANGED <<notify, xIncomingAudio, xOutgoingAudio, xRxBufferQueue,
                 buf_in, buf_count, buf_out, frame_count, dac_started,
                 allocated, adcOn, dacOn, heap, captureVars, played>>

\* Lines 227-230: EAGAIN or EINTR, go round the loop.
SendAgain ==
  /\ pc = "send" /\ bytes_to_send > 0
  /\ pc' = "drain"
  /\ UNCHANGED <<notify, xIncomingAudio, xOutgoingAudio, xRxBufferQueue,
                 xTxBufferQueue, threadVars, adcOn, dacOn, heap, captureVars,
                 played>>

\* Lines 227-233 with any other error: ret is -1 and is subtracted all the
\* same.  MaxExcess caps the count.
MaxExcess == 1
SendFails ==
  /\ "send" \in Faults
  /\ pc = "send" /\ bytes_to_send > 0
  /\ bytes_to_send < FrameSize + MaxExcess
  /\ bytes_to_send' = bytes_to_send + 1
  /\ pc' = "recv"
  /\ UNCHANGED <<notify, xIncomingAudio, xOutgoingAudio, xRxBufferQueue,
                 xTxBufferQueue, buf_in, buf_count, buf_out, frame_count,
                 dac_started, allocated, adcOn, dacOn, heap, captureVars,
                 played>>

\* Line 223: nothing to send.
SendNothing ==
  /\ pc = "send" /\ bytes_to_send = 0
  /\ pc' = "recv"
  /\ UNCHANGED <<notify, xIncomingAudio, xOutgoingAudio, xRxBufferQueue,
                 xTxBufferQueue, threadVars, adcOn, dacOn, heap, captureVars,
                 played>>

\* Lines 247-261: a datagram of n units, cut to the room left in buf_in; n = 0
\* also stands for EAGAIN and EINTR.
Receive(n) ==
  /\ pc = "recv"
  /\ buf_count' = buf_count + n
  /\ pc' = IF n > 0 /\ buf_count + n = FrameSize THEN "play" ELSE "drain"
  /\ UNCHANGED <<notify, xIncomingAudio, xOutgoingAudio, xRxBufferQueue,
                 xTxBufferQueue, buf_in, buf_out, bytes_to_send, frame_count,
                 dac_started, allocated, adcOn, dacOn, heap, captureVars,
                 played>>

\* Lines 250-257 with any other error: the socket is closed, the thread goes
\* back to its first wait and leaves the streams and the buffers as they are.
ReceiveFails ==
  /\ "recv" \in Faults
  /\ pc = "recv"
  /\ pc' = "wait"
  /\ UNCHANGED <<notify, xIncomingAudio, xOutgoingAudio, xRxBufferQueue,
                 xTxBufferQueue, threadVars, adcOn, dacOn, heap, captureVars,
                 played>>

\* Lines 261-278, the frame is complete and xIncomingAudio has room: queue it,
\* start the DAC when enough frames are waiting, allocate the next buffer (the
\* result of pvPortMalloc is not looked at).
PlayFrame ==
  /\ pc = "play" /\ ~Full(xIncomingAudio)
  /\ xIncomingAudio' = Append(xIncomingAudio, buf_in)
  /\ frame_count' = IF frame_count < FrameBufferCount THEN frame_count + 1
                                                      ELSE frame_count
  /\ IF frame_count' >= FrameBufferCount /\ ~dac_started
     THEN dacOn' = TRUE /\ dac_started' = TRUE
     ELSE UNCHANGED <<dacOn, dac_started>>
  /\ \/ /\ heap = {} /\ buf_in' = NoBuf /\ heap' = heap
     \/ \E b \in heap : buf_in' = b /\ heap' = heap \ {b}
  /\ buf_count' = 0
  /\ pc' = "drain"
  /\ UNCHANGED <<notify, xOutgoingAudio, xRxBufferQueue, xTxBufferQueue,
                 buf_out, bytes_to_send, allocated, adcOn, captureVars, played>>

\* Line 263 times out after a tick: the frame is dropped.
DropFrame ==
  /\ pc = "play" /\ Full(xIncomingAudio)
  /\ buf_count' = 0
  /\ pc' = "drain"
  /\ UNCHANGED <<notify, xIncomingAudio, xOutgoingAudio, xRxBufferQueue,
                 xTxBufferQueue, buf_in, buf_out, bytes_to_send, frame_count,
                 dac_started, allocated, adcOn, dacOn, heap, captureVars,
                 played>>
-----------------------------------------------------------------------------
\* Mutant of AdcInterrupt: the frame is queued at the front.
AdcInterruptToFront ==
  /\ adcOn /\ pc # "halted"
  /\ xTxBufferQueue # <<>> /\ ~Full(xOutgoingAudio)
  /\ LET b == Head(xTxBufferQueue) IN
       /\ xTxBufferQueue' = Tail(xTxBufferQueue)
       /\ content' = [content EXCEPT ![b] = captured]
       /\ xOutgoingAudio' = <<b>> \o xOutgoingAudio
       /\ captured' = (captured + 1) % FrameMod
  /\ UNCHANGED <<pc, notify, xIncomingAudio, xRxBufferQueue, threadVars, adcOn,
                 dacOn, heap, played>>

\* HAL_ADC_ConvCpltCallback and HAL_ADC_ConvHalfCpltCallback: move half a DMA
\* buffer into a free buffer; with no free buffer the sound is lost.
AdcInterrupt ==
  /\ adcOn /\ pc # "halted"
  /\ xTxBufferQueue # <<>>
  /\ LET b == Head(xTxBufferQueue) IN
       /\ xTxBufferQueue' = Tail(xTxBufferQueue)
       /\ content' = [content EXCEPT ![b] = captured]
       /\ IF Full(xOutgoingAudio)
          THEN pc' = "halted" /\ UNCHANGED <<xOutgoingAudio, captured>>
          ELSE /\ xOutgoingAudio' = Append(xOutgoingAudio, b)
               /\ captured' = (captured + 1) % FrameMod
               /\ pc' = pc
  /\ UNCHANGED <<notify, xIncomingAudio, xRxBufferQueue, threadVars, adcOn,
                 dacOn, heap, played>>

\* HAL_DAC_ConvCpltCallbackCh1 and HAL_DAC_ConvHalfCpltCallbackCh1: copy the
\* next frame to the DMA buffer and hand its buffer back; when the queue is
\* full the buffer is lost.  With no frame the handler plays silence.  While
\* the thread runs its loop at most MaxPlayed interrupts fall in one turn.
DacInterrupt ==
  /\ dacOn /\ pc # "halted"
  /\ Streaming => played < MaxPlayed
  /\ xIncomingAudio # <<>>
  /\ xIncomingAudio' = Tail(xIncomingAudio)
  /\ xRxBufferQueue' = IF Full(xRxBufferQueue) THEN xRxBufferQueue
                       ELSE Append(xRxBufferQueue, Head(xIncomingAudio))
  /\ played' = IF played < MaxPlayed THEN played + 1 ELSE played
  /\ UNCHANGED <<pc, notify, xOutgoingAudio, xTxBufferQueue, threadVars, adcOn,
                 dacOn, heap, captureVars>>
-----------------------------------------------------------------------------
SendStep == SendFrame \/ SendAgain \/ SendFails \/ SendNothing
\* Mutant of ReceiveStep: every datagram may fill a whole frame (line 248).
ReceiveUncut == (\E n \in 0..FrameSize : Receive(n)) \/ ReceiveFails
ReceiveStep ==
  (\E n \in 0..(FrameSize - buf_count) : Receive(n)) \/ ReceiveFails
Thread == \/ AwaitOpen \/ OpenFails \/ AllocateBuffer \/ StartCapture
          \/ DrainPlayed \/ PollNotification \/ CloseChannel
          \/ TakeFrame \/ SendStep \/ ReceiveStep \/ PlayFrame \/ DropFrame
Next == ChannelOpen \/ ChannelClose \/ Thread \/ AdcInterrupt \/ DacInterrupt

Spec == Init /\ [][Next]_vars

\* The thread has the priority of the others and is time-sliced with them, the
\* DMA interrupts keep coming while the timer runs, and a socket that answers
\* EAGAIN sends in the end.
FairSpec == Spec /\ WF_vars(Thread) /\ WF_vars(AdcInterrupt)
                 /\ WF_vars(DacInterrupt) /\ SF_vars(SendFrame)
-----------------------------------------------------------------------------
(* Properties.                                                             *)

PCs == {"wait", "alloc", "drain", "poll", "stop", "fill", "send", "recv",
        "play", "halted"}
Pointer == Buf \cup {NoBuf}
IsQueue(q) == q \in Seq(Pointer) /\ Len(q) <= QueueLen

ControlOK ==
  /\ pc \in PCs /\ notify \subseteq {"open", "close"}
  /\ adcOn \in BOOLEAN /\ dacOn \in BOOLEAN /\ dac_started \in BOOLEAN
QueuesOK ==
  /\ IsQueue(xIncomingAudio) /\ IsQueue(xOutgoingAudio)
  /\ IsQueue(xRxBufferQueue) /\ IsQueue(xTxBufferQueue)
BuffersOK ==
  /\ buf_in \in Pointer /\ buf_out \in Pointer /\ heap \subseteq Buf
CountersOK ==
  /\ buf_count \in 0..FrameSize
  /\ bytes_to_send \in 0..(FrameSize + MaxExcess)
  /\ frame_count \in 0..FrameBufferCount
  /\ allocated \in 0..PoolSize
  /\ played \in 0..MaxPlayed
CaptureOK ==
  /\ content \in [Buf -> 0..(FrameMod - 1)] /\ captured \in 0..(FrameMod - 1)

TypeOK == ControlOK /\ QueuesOK /\ BuffersOK /\ CountersOK /\ CaptureOK

\* No buffer has two owners and none is used after it was freed: whoever takes
\* a pointer from a queue is the only one to have it.
OwnedOnce ==
  \A o, u \in Owners : \A i \in 1..Len(Holds[o]), j \in 1..Len(Holds[u]) :
    Holds[o][i] # NoBuf =>
      /\ Holds[o][i] \notin heap
      /\ Holds[o][i] = Holds[u][j] => o = u /\ i = j

\* While the channel is open the PoolSize capture buffers are conserved: each is
\* free, captured or being sent.  Neither thread nor handler loses or adds one.
PoolConserved ==
  Streaming => Len(xTxBufferQueue) + Len(Outbound) = PoolSize

\* "If we got a free buffer then there should be space on the network queue"
\* (comments at 376-378 and 408-410, the reason the ADC handler may stop the
\* device when there is none).
SpaceForFreeBuffer ==
  adcOn /\ xTxBufferQueue # <<>> => ~Full(xOutgoingAudio)

\* No call of Error_Handler is reached once the thread runs.
NeverHalted == pc # "halted"

\* Nothing leaks: every buffer is on the heap or somebody owns it, however
\* often the channel is opened and closed.
NothingLost == \A b \in Buf : b \in heap \/ \E o \in Owners : b \in ToSet(Holds[o])

\* The capture path implements the pipe of FramePipe: whatever the moves of
\* buffers between queues, frames leave whole, once and in the order of capture.
Pipe == INSTANCE FramePipe
          WITH Capacity <- PoolSize,
               open <- adcOn,
               pipe <- [i \in 1..Len(Outbound) |-> content[Outbound[i]]],
               next <- captured
ImplementsFramePipe == Pipe!Spec

\* The thread implements Channel, what the other threads rely on: every request
\* is taken as it says, and nothing else opens or closes the channel.
channelState == CASE pc = "halted" -> "halted"
                  [] pc \in {"wait", "stop"} -> "closed"
                  [] OTHER -> "open"
Control == INSTANCE Channel WITH channel <- channelState
ImplementsChannel == Control!Spec

\* The frames on their way to the network are the last ones captured, in the
\* order of capture: none is overwritten, swapped or queued twice.
After(n) == (n + 1) % FrameMod
CapturedInOrder ==
  /\ \A i \in 1..(Len(Outbound) - 1) :
       content[Outbound[i + 1]] = After(content[Outbound[i]])
  /\ Outbound # <<>> => captured = After(content[Last(Outbound)])

\* A channel that is closed has stopped both converters and emptied the queues
\* they use, so that the next one starts from nothing.
ClosedIsQuiet ==
  pc = "wait" => /\ ~adcOn /\ ~dacOn
                 /\ xTxBufferQueue = <<>> /\ xOutgoingAudio = <<>>
                 /\ xIncomingAudio = <<>>

\* Playback starts with FrameBufferCount frames waiting (line 269), so that the
\* first interrupts do not run dry.
StartsPrebuffered ==
  [][~dacOn /\ dacOn' => Len(xIncomingAudio') >= FrameBufferCount]_vars

\* The oldest captured frame is not kept back for ever while the channel stays
\* open, so the pool refills and capture goes on.
OldestIsSent ==
  \A k \in 0..(FrameMod - 1) :
    (Streaming /\ Outbound # <<>> /\ content[Head(Outbound)] = k)
      ~> ~(Streaming /\ Outbound # <<>> /\ content[Head(Outbound)] = k)

\* A ChannelClose that arrives while a channel is being opened or is open closes
\* it (what a closed channel is, ClosedIsQuiet says), unless the device halts.
CloseTakesEffect ==
  ("close" \in notify /\ pc # "wait") ~> pc \in {"wait", "halted"}
=============================================================================
