------------------------ MODULE IntercomAudioProofs ------------------------
(***************************************************************************)
(* Theorems about IntercomAudio for every heap, queue length, pool size,   *)
(* frame size and interrupt rate its assumptions allow.  The ones about    *)
(* the pool suppose that recvfrom does not fail for good: lines 250-257    *)
(* leave the loop without stopping the converters, and then they are false *)
(* (run intercom_recv_error).                                              *)
(***************************************************************************)
EXTENDS IntercomAudio, TLAPS

\* The constants are what the assumptions say (cited as one fact).
LEMMA Constants ==
  /\ QueueLen \in Nat \ {0} /\ PoolSize \in Nat \ {0} /\ PoolSize <= QueueLen
  /\ FrameSize \in Nat \ {0} /\ FrameBufferCount \in Nat \ {0}
  /\ FrameMod \in Nat \ {0} /\ MaxPlayed \in Nat \ {0}
  /\ NoBuf \notin Buf
BY QueueAssumption, PoolAssumption, FrameAssumption, TimingAssumption,
   NoBufAssumption

\* The elements of a sequence over S are elements of S.
LEMMA ElementsOfSeq == ASSUME NEW S, NEW q \in Seq(S) PROVE ToSet(q) \subseteq S
BY DEF ToSet

\* The empty queue, and what receiving from and sending to a queue gives.
LEMMA EmptyQueue == IsQueue(<<>>) /\ Len(<<>>) = 0
BY Constants DEF IsQueue

LEMMA QueueReceive ==
  ASSUME NEW q, IsQueue(q), q # <<>>
  PROVE  /\ Head(q) \in Pointer /\ IsQueue(Tail(q))
         /\ Len(Tail(q)) = Len(q) - 1
BY Constants DEF IsQueue

LEMMA QueueSend ==
  ASSUME NEW q, IsQueue(q), ~Full(q), NEW e \in Pointer
  PROVE  IsQueue(Append(q, e)) /\ Len(Append(q, e)) = Len(q) + 1
BY Constants DEF IsQueue, Full

LEMMA QueueLength ==
  ASSUME NEW q, IsQueue(q)
  PROVE  Len(q) \in 0..QueueLen /\ (q = <<>> <=> Len(q) = 0)
BY Constants DEF IsQueue

-----------------------------------------------------------------------------
(* Type correctness: every variable keeps its type and no queue exceeds its *)
(* capacity, whatever calls fail.                                           *)

LEMMA TypeInit == Init => TypeOK
<1> SUFFICES ASSUME Init PROVE TypeOK
  OBVIOUS
<1> USE DEF Init
<1>1. ControlOK
  BY DEF ControlOK, PCs
<1>2. QueuesOK
  BY EmptyQueue DEF QueuesOK
<1>3. BuffersOK
  BY DEF BuffersOK, Pointer
<1>4. CountersOK
  BY Constants DEF CountersOK, MaxExcess
<1>5. CaptureOK
  BY Constants DEF CaptureOK
<1>6. QED
  BY <1>1, <1>2, <1>3, <1>4, <1>5 DEF TypeOK

LEMMA TypeStep == TypeOK /\ [Next]_vars => TypeOK'
<1> SUFFICES ASSUME TypeOK, [Next]_vars PROVE TypeOK'
  OBVIOUS
<1> USE Constants, QueueLength, QueueReceive, QueueSend, EmptyQueue
    DEF threadVars, captureVars, TypeOK
<1>1. CASE ChannelOpen \/ ChannelClose
  <2> USE <1>1 DEF ChannelOpen, ChannelClose, ChannelRequest
  <2>1. ControlOK'
    BY DEF ControlOK, PCs
  <2>2. QueuesOK'
    BY DEF QueuesOK, BuffersOK, Pointer
  <2>3. BuffersOK'
    BY DEF QueuesOK, BuffersOK, Pointer
  <2>4. CountersOK'
    BY DEF CountersOK, MaxExcess
  <2>5. CaptureOK'
    BY DEF CaptureOK
  <2>6. QED
    BY <2>1, <2>2, <2>3, <2>4, <2>5
<1>2. CASE AwaitOpen
  <2> USE <1>2 DEF AwaitOpen
  <2>1. ControlOK'
    BY DEF ControlOK, PCs
  <2>2. QueuesOK'
    BY DEF QueuesOK, BuffersOK, Pointer
  <2>3. BuffersOK'
    BY DEF QueuesOK, BuffersOK, Pointer
  <2>4. CountersOK'
    BY DEF CountersOK, MaxExcess
  <2>5. CaptureOK'
    BY DEF CaptureOK
  <2>6. QED
    BY <2>1, <2>2, <2>3, <2>4, <2>5
<1>3. CASE OpenFails
  <2> USE <1>3 DEF OpenFails
  <2>1. ControlOK'
    BY DEF ControlOK, PCs
  <2>2. QueuesOK'
    BY DEF QueuesOK, BuffersOK, Pointer
  <2>3. BuffersOK'
    BY DEF QueuesOK, BuffersOK, Pointer
  <2>4. CountersOK'
    BY DEF CountersOK, MaxExcess
  <2>5. CaptureOK'
    BY DEF CaptureOK
  <2>6. QED
    BY <2>1, <2>2, <2>3, <2>4, <2>5
<1>4. CASE AllocateBuffer
  <2> USE <1>4 DEF AllocateBuffer
  <2>1. ControlOK'
    BY DEF ControlOK, PCs
  <2>2. QueuesOK'
    <3>1. \A b \in heap : b \in Pointer
      BY DEF BuffersOK, Pointer
    <3>2. IsQueue(xTxBufferQueue')
      <4>1. CASE heap = {}
        BY <4>1 DEF QueuesOK
      <4>2. CASE heap # {}
        <5>1. PICK b \in heap : xTxBufferQueue' = IF Full(xTxBufferQueue)
                                  THEN xTxBufferQueue
                                  ELSE Append(xTxBufferQueue, b)
          BY <4>2
        <5>2. QED
          BY <5>1, <3>1 DEF QueuesOK
      <4>3. QED
        BY <4>1, <4>2
    <3>3. QED
      BY <3>2 DEF QueuesOK
  <2>3. BuffersOK'
    BY DEF QueuesOK, BuffersOK, Pointer
  <2>4. CountersOK'
    BY DEF CountersOK, MaxExcess
  <2>5. CaptureOK'
    BY DEF CaptureOK
  <2>6. QED
    BY <2>1, <2>2, <2>3, <2>4, <2>5
<1>5. CASE StartCapture
  <2> USE <1>5 DEF StartCapture
  <2>1. ControlOK'
    BY DEF ControlOK, PCs
  <2>2. QueuesOK'
    BY DEF QueuesOK, BuffersOK, Pointer
  <2>3. BuffersOK'
    BY DEF QueuesOK, BuffersOK, Pointer
  <2>4. CountersOK'
    BY DEF CountersOK, MaxExcess
  <2>5. CaptureOK'
    BY DEF CaptureOK
  <2>6. QED
    BY <2>1, <2>2, <2>3, <2>4, <2>5
<1>6. CASE DrainPlayed
  <2> USE <1>6 DEF DrainPlayed
  <2>1. ControlOK'
    BY DEF ControlOK, PCs
  <2>2. QueuesOK'
    BY DEF QueuesOK, BuffersOK, Pointer
  <2>3. BuffersOK'
    BY DEF QueuesOK, BuffersOK, Pointer
  <2>4. CountersOK'
    BY DEF CountersOK, MaxExcess
  <2>5. CaptureOK'
    BY DEF CaptureOK
  <2>6. QED
    BY <2>1, <2>2, <2>3, <2>4, <2>5
<1>7. CASE PollNotification
  <2> USE <1>7 DEF PollNotification
  <2>1. ControlOK'
    BY DEF ControlOK, PCs
  <2>2. QueuesOK'
    BY DEF QueuesOK, BuffersOK, Pointer
  <2>3. BuffersOK'
    BY DEF QueuesOK, BuffersOK, Pointer
  <2>4. CountersOK'
    BY DEF CountersOK, MaxExcess
  <2>5. CaptureOK'
    BY DEF CaptureOK
  <2>6. QED
    BY <2>1, <2>2, <2>3, <2>4, <2>5
<1>8. CASE CloseChannel
  <2> USE <1>8 DEF CloseChannel
  <2>1. ControlOK'
    BY DEF ControlOK, PCs
  <2>2. QueuesOK'
    BY DEF QueuesOK, BuffersOK, Pointer
  <2>3. BuffersOK'
    <3>1. heap' \subseteq (heap \cup Pointer) \ {NoBuf}
      <4>1. Outbound \in Seq(Pointer)
        BY DEF QueuesOK, BuffersOK, IsQueue, Outbound, Held
      <4>2. /\ ToSet(xIncomingAudio) \subseteq Pointer
            /\ ToSet(Outbound) \subseteq Pointer
            /\ ToSet(xTxBufferQueue) \subseteq Pointer
        BY <4>1, ElementsOfSeq DEF QueuesOK, IsQueue
      <4>3. QED
        BY <4>2
    <3>2. QED
      BY <3>1 DEF BuffersOK, Pointer
  <2>4. CountersOK'
    BY DEF CountersOK, MaxExcess
  <2>5. CaptureOK'
    BY DEF CaptureOK
  <2>6. QED
    BY <2>1, <2>2, <2>3, <2>4, <2>5
<1>9. CASE TakeFrame
  <2> USE <1>9 DEF TakeFrame
  <2>1. ControlOK'
    BY DEF ControlOK, PCs
  <2>2. QueuesOK'
    BY DEF QueuesOK, BuffersOK, Pointer
  <2>3. BuffersOK'
    BY DEF QueuesOK, BuffersOK, Pointer
  <2>4. CountersOK'
    BY DEF CountersOK, MaxExcess
  <2>5. CaptureOK'
    BY DEF CaptureOK
  <2>6. QED
    BY <2>1, <2>2, <2>3, <2>4, <2>5
<1>10. CASE SendStep
  <2> USE <1>10 DEF SendStep, SendFrame, SendAgain, SendFails, SendNothing
  <2>1. ControlOK'
    BY DEF ControlOK, PCs
  <2>2. QueuesOK'
    BY DEF QueuesOK, BuffersOK, Pointer
  <2>3. BuffersOK'
    BY DEF QueuesOK, BuffersOK, Pointer
  <2>4. CountersOK'
    BY DEF CountersOK, MaxExcess
  <2>5. CaptureOK'
    BY DEF CaptureOK
  <2>6. QED
    BY <2>1, <2>2, <2>3, <2>4, <2>5
<1>11. CASE ReceiveStep
  <2> USE <1>11 DEF ReceiveStep, Receive, ReceiveFails
  <2>1. ControlOK'
    BY DEF ControlOK, PCs
  <2>2. QueuesOK'
    BY DEF QueuesOK, BuffersOK, Pointer
  <2>3. BuffersOK'
    BY DEF QueuesOK, BuffersOK, Pointer
  <2>4. CountersOK'
    BY DEF CountersOK, MaxExcess
  <2>5. CaptureOK'
    BY DEF CaptureOK
  <2>6. QED
    BY <2>1, <2>2, <2>3, <2>4, <2>5
<1>12. CASE PlayFrame
  <2> USE <1>12 DEF PlayFrame
  <2>1. ControlOK'
    BY DEF ControlOK, PCs
  <2>2. QueuesOK'
    BY DEF QueuesOK, BuffersOK, Pointer
  <2>3. BuffersOK'
    BY DEF QueuesOK, BuffersOK, Pointer
  <2>4. CountersOK'
    BY DEF CountersOK, MaxExcess
  <2>5. CaptureOK'
    BY DEF CaptureOK
  <2>6. QED
    BY <2>1, <2>2, <2>3, <2>4, <2>5
<1>13. CASE DropFrame
  <2> USE <1>13 DEF DropFrame
  <2>1. ControlOK'
    BY DEF ControlOK, PCs
  <2>2. QueuesOK'
    BY DEF QueuesOK, BuffersOK, Pointer
  <2>3. BuffersOK'
    BY DEF QueuesOK, BuffersOK, Pointer
  <2>4. CountersOK'
    BY DEF CountersOK, MaxExcess
  <2>5. CaptureOK'
    BY DEF CaptureOK
  <2>6. QED
    BY <2>1, <2>2, <2>3, <2>4, <2>5
<1>14. CASE AdcInterrupt
  <2> USE <1>14 DEF AdcInterrupt
  <2>1. ControlOK'
    BY DEF ControlOK, PCs
  <2>2. QueuesOK'
    BY DEF QueuesOK, BuffersOK, Pointer
  <2>3. BuffersOK'
    BY DEF QueuesOK, BuffersOK, Pointer
  <2>4. CountersOK'
    BY DEF CountersOK, MaxExcess
  <2>5. CaptureOK'
    <3>1. (captured + 1) % FrameMod \in 0..(FrameMod - 1)
      BY DEF CaptureOK
    <3>2. Head(xTxBufferQueue) \in Pointer
      BY DEF QueuesOK
    <3>3. QED
      BY <3>1 DEF CaptureOK
  <2>6. QED
    BY <2>1, <2>2, <2>3, <2>4, <2>5
<1>15. CASE DacInterrupt
  <2> USE <1>15 DEF DacInterrupt
  <2>1. ControlOK'
    BY DEF ControlOK, PCs
  <2>2. QueuesOK'
    BY DEF QueuesOK, BuffersOK, Pointer
  <2>3. BuffersOK'
    BY DEF QueuesOK, BuffersOK, Pointer
  <2>4. CountersOK'
    BY DEF CountersOK, MaxExcess
  <2>5. CaptureOK'
    BY DEF CaptureOK
  <2>6. QED
    BY <2>1, <2>2, <2>3, <2>4, <2>5
<1>16. CASE UNCHANGED vars
  <2> USE <1>16 DEF vars
  <2>1. ControlOK'
    BY DEF ControlOK, PCs
  <2>2. QueuesOK'
    BY DEF QueuesOK, BuffersOK, Pointer
  <2>3. BuffersOK'
    BY DEF QueuesOK, BuffersOK, Pointer
  <2>4. CountersOK'
    BY DEF CountersOK, MaxExcess
  <2>5. CaptureOK'
    BY DEF CaptureOK
  <2>6. QED
    BY <2>1, <2>2, <2>3, <2>4, <2>5
<1>17. QED
  BY <1>1, <1>2, <1>3, <1>4, <1>5, <1>6, <1>7, <1>8, <1>9, <1>10, <1>11, <1>12, <1>13, <1>14, <1>15, <1>16
  DEF Next, Thread

\* Every variable has its type in every reachable state, for every set of
\* faults: no queue grows beyond its capacity.
THEOREM TypeCorrect == Spec => []TypeOK
<1>1. Init => TypeOK
  BY TypeInit
<1>2. TypeOK /\ [Next]_vars => TypeOK'
  BY TypeStep
<1>3. QED
  BY <1>1, <1>2, PTL DEF Spec

-----------------------------------------------------------------------------
(* The pool of capture buffers.  PoolConserved alone is not inductive: it   *)
(* says nothing of the allocation loop, which builds the pool, nor of the   *)
(* closed channel, which must have given every buffer back before the next  *)
(* one is built.                                                            *)

WaitInv ==
  pc = "wait" => /\ ~adcOn /\ ~dacOn
                 /\ xTxBufferQueue = <<>> /\ xOutgoingAudio = <<>>
                 /\ xIncomingAudio = <<>>

AllocInv ==
  pc = "alloc" => /\ ~adcOn /\ ~dacOn
                  /\ xOutgoingAudio = <<>> /\ xIncomingAudio = <<>>
                  /\ Len(xTxBufferQueue) = allocated
                  /\ bytes_to_send = 0

InFlight == IF bytes_to_send > 0 THEN 1 ELSE 0

StreamInv ==
  Streaming =>
    Len(xTxBufferQueue) + Len(xOutgoingAudio) + InFlight = PoolSize

HaltInv == pc = "halted" => ~adcOn

PoolInv == WaitInv /\ AllocInv /\ StreamInv /\ HaltInv

LEMMA PoolInit == Init => PoolInv
BY DEF Init, PoolInv, WaitInv, AllocInv, StreamInv, HaltInv, Streaming

LEMMA PoolStep ==
  ASSUME "recv" \notin Faults
  PROVE  TypeOK /\ PoolInv /\ [Next]_vars => PoolInv'
<1> SUFFICES ASSUME TypeOK, PoolInv, [Next]_vars PROVE PoolInv'
  OBVIOUS
<1> USE DEF threadVars, captureVars, PoolInv, WaitInv, AllocInv, StreamInv,
            HaltInv, Streaming, InFlight
<1> DEFINE tx == xTxBufferQueue
           out == xOutgoingAudio
<1>a. /\ IsQueue(tx) /\ IsQueue(out)
      /\ bytes_to_send \in Nat /\ allocated \in 0..PoolSize
      /\ buf_out \in Pointer /\ heap \subseteq Pointer
  BY Constants DEF TypeOK, QueuesOK, CountersOK, BuffersOK, Pointer, MaxExcess
<1>b. /\ Len(tx) \in 0..QueueLen /\ (tx = <<>> <=> Len(tx) = 0)
      /\ Len(out) \in 0..QueueLen /\ (out = <<>> <=> Len(out) = 0)
  BY <1>a, QueueLength
<1>c. ASSUME UNCHANGED <<pc, xIncomingAudio, out, tx, bytes_to_send, allocated,
                         adcOn, dacOn>>
      PROVE  PoolInv'
  BY <1>c
<1>1. CASE ChannelOpen \/ ChannelClose
  BY <1>1, <1>c DEF ChannelOpen, ChannelClose, ChannelRequest
<1>2. CASE AwaitOpen
  BY <1>2, EmptyQueue DEF AwaitOpen
<1>3. CASE OpenFails
  BY <1>3 DEF OpenFails
<1>4. CASE AllocateBuffer
  <2>1. CASE heap = {}
    BY <1>4, <2>1 DEF AllocateBuffer
  <2>2. CASE heap # {}
    <3>1. PICK e \in heap : tx' = IF Full(tx) THEN tx ELSE Append(tx, e)
      BY <1>4, <2>2 DEF AllocateBuffer
    <3>2. ~Full(tx)
      BY <1>4, <1>b, Constants DEF AllocateBuffer, Full
    <3>3. Len(tx') = allocated'
      BY <1>4, <1>a, <2>2, <3>1, <3>2, QueueSend DEF AllocateBuffer
    <3>4. QED
      BY <1>4, <2>2, <3>3 DEF AllocateBuffer
  <2>3. QED
    BY <2>1, <2>2
<1>5. CASE StartCapture
  BY <1>5, <1>b, EmptyQueue, Constants DEF StartCapture
<1>6. CASE DrainPlayed
  BY <1>6 DEF DrainPlayed
<1>7. CASE PollNotification
  BY <1>7 DEF PollNotification
<1>8. CASE CloseChannel
  BY <1>8 DEF CloseChannel
<1>9. CASE TakeFrame
  <2>1. CASE bytes_to_send = 0 /\ out # <<>> /\ out' = Tail(out)
             /\ bytes_to_send' = FrameSize
    <3>1. Len(out') = Len(out) - 1
      BY <1>a, <2>1, QueueReceive
    <3>2. pc = "fill" /\ pc' = "send" /\ tx' = tx
      BY <1>9 DEF TakeFrame
    <3>3. /\ Len(tx) + Len(out) + 0 = PoolSize
          /\ bytes_to_send' > 0
      BY <2>1, <3>2, Constants
    <3>4. Len(tx') + Len(out') + 1 = PoolSize
      BY <1>b, <3>1, <3>2, <3>3
    <3>5. QED
      BY <3>2, <3>3, <3>4
  <2>2. CASE UNCHANGED <<out, bytes_to_send>>
    BY <1>9, <2>2 DEF TakeFrame
  <2>3. QED
    BY <1>9, <2>1, <2>2 DEF TakeFrame
<1>10. CASE SendStep
  <2>1. CASE SendFrame
    <3>1. ~Full(tx)
      BY <2>1, <1>a, <1>b, Constants DEF SendFrame, Full
    <3>2. Len(tx') = Len(tx) + 1
      BY <1>a, <2>1, <3>1, QueueSend DEF SendFrame
    <3>3. QED
      BY <1>a, <1>b, <2>1, <3>1, <3>2, Constants DEF SendFrame
  <2>2. CASE SendAgain \/ SendNothing
    BY <2>2 DEF SendAgain, SendNothing
  <2>3. CASE SendFails
    BY <1>a, <2>3 DEF SendFails
  <2>4. QED
    BY <1>10, <2>1, <2>2, <2>3 DEF SendStep
<1>11. CASE ReceiveStep
  <2>1. PICK n \in 0..(FrameSize - buf_count) : Receive(n)
    BY <1>11 DEF ReceiveStep, ReceiveFails
  <2>2. QED
    BY <2>1 DEF Receive
<1>12. CASE PlayFrame
  BY <1>12 DEF PlayFrame
<1>13. CASE DropFrame
  BY <1>13 DEF DropFrame
<1>14. CASE AdcInterrupt
  <2>1. /\ tx # <<>> /\ adcOn /\ tx' = Tail(tx)
        /\ Len(tx') = Len(tx) - 1 /\ Head(tx) \in Pointer
    BY <1>14, <1>a, QueueReceive DEF AdcInterrupt
  <2>2. Streaming
    BY <1>14, <2>1, <1>a DEF AdcInterrupt, TypeOK, ControlOK, PCs
  <2>3. ~Full(out)
    BY <1>b, <2>1, <2>2, Constants DEF Full
  <2>4. /\ out' = Append(out, Head(tx)) /\ pc' = pc
        /\ UNCHANGED <<threadVars, adcOn>>
    BY <1>14, <2>3 DEF AdcInterrupt
  <2>5. Len(out') = Len(out) + 1
    BY <1>a, <2>1, <2>3, <2>4, QueueSend
  <2>6. QED
    BY <1>b, <2>1, <2>2, <2>4, <2>5
<1>15. CASE DacInterrupt
  BY <1>15 DEF DacInterrupt
<1>16. CASE UNCHANGED vars
  BY <1>16, <1>c DEF vars
<1>17. QED
  BY <1>1, <1>2, <1>3, <1>4, <1>5, <1>6, <1>7, <1>8, <1>9, <1>10, <1>11,
     <1>12, <1>13, <1>14, <1>15, <1>16
  DEF Next, Thread

\* The invariant of the pool holds in every reachable state.
THEOREM PoolInvariant == ASSUME "recv" \notin Faults PROVE Spec => []PoolInv
<1>1. Init => PoolInv
  BY PoolInit
<1>2. TypeOK /\ PoolInv /\ [Next]_vars => PoolInv'
  BY PoolStep
<1>3. QED
  BY <1>1, <1>2, TypeCorrect, PTL DEF Spec

\* The PoolSize capture buffers are conserved while a channel is open, even if
\* sends fail.
THEOREM PoolIsConserved ==
  ASSUME "recv" \notin Faults PROVE Spec => []PoolConserved
<1>1. TypeOK /\ PoolInv => PoolConserved
  <2> SUFFICES ASSUME TypeOK, PoolInv, Streaming
               PROVE  Len(xTxBufferQueue) + Len(Outbound) = PoolSize
    BY DEF PoolConserved
  <2>1. /\ IsQueue(xOutgoingAudio) /\ IsQueue(xTxBufferQueue)
        /\ bytes_to_send \in Nat /\ buf_out \in Pointer
    BY Constants DEF TypeOK, QueuesOK, BuffersOK, CountersOK, MaxExcess
  <2>2. Len(Outbound) = InFlight + Len(xOutgoingAudio)
    <3>1. CASE bytes_to_send > 0
      BY <2>1, <3>1 DEF Outbound, Held, Holding, InFlight, IsQueue
    <3>2. CASE ~(bytes_to_send > 0)
      BY <2>1, <3>2 DEF Outbound, Held, Holding, InFlight, IsQueue
    <3>3. QED
      BY <3>1, <3>2
  <2>3. QED
    <3>1. Len(xTxBufferQueue) \in Nat /\ Len(xOutgoingAudio) \in Nat
      BY <2>1, QueueLength, Constants
    <3>2. Len(xTxBufferQueue) + Len(xOutgoingAudio) + InFlight = PoolSize
      BY DEF PoolInv, StreamInv
    <3>3. QED
      BY <2>2, <3>1, <3>2 DEF InFlight
<1>2. QED
  BY <1>1, PoolInvariant, TypeCorrect, PTL

\* The claim the ADC handlers rest on (comments at 376-378 and 408-410): a free
\* buffer implies room on the network queue, so they never stop the device.
THEOREM FreeBufferHasSpace ==
  ASSUME "recv" \notin Faults PROVE Spec => []SpaceForFreeBuffer
<1>1. TypeOK /\ PoolInv => SpaceForFreeBuffer
  <2> SUFFICES ASSUME TypeOK, PoolInv, adcOn, xTxBufferQueue # <<>>
               PROVE  Len(xOutgoingAudio) # QueueLen
    BY DEF SpaceForFreeBuffer, Full
  <2>1. /\ Len(xTxBufferQueue) \in 1..QueueLen
        /\ Len(xOutgoingAudio) \in 0..QueueLen
    BY QueueLength, Constants DEF TypeOK, QueuesOK
  <2>2. Streaming
    BY DEF TypeOK, ControlOK, PCs, PoolInv, WaitInv, AllocInv, HaltInv, Streaming
  <2>3. QED
    BY <2>1, <2>2, Constants DEF PoolInv, StreamInv, InFlight
<1>2. QED
  BY <1>1, PoolInvariant, TypeCorrect, PTL

\* A closed channel has stopped both converters and emptied their queues.
THEOREM ClosedChannelIsQuiet ==
  ASSUME "recv" \notin Faults PROVE Spec => []ClosedIsQuiet
<1>1. PoolInv => ClosedIsQuiet
  BY DEF PoolInv, WaitInv, ClosedIsQuiet
<1>2. QED
  BY <1>1, PoolInvariant, PTL
-----------------------------------------------------------------------------
(* The thread implements Channel: every step is one of Channel's under the  *)
(* mapping of pc to its state, or leaves what the others see as it is.      *)

LEMMA ChannelInit == Init => Control!Init
BY DEF Init, Control!Init, channelState

LEMMA ChannelStep ==
  TypeOK /\ [Next]_vars => [Control!Next]_<<channelState, notify>>
<1> SUFFICES ASSUME TypeOK, [Next]_vars
             PROVE  Control!Next \/ UNCHANGED <<channelState, notify>>
  OBVIOUS
<1> USE DEF channelState
<1>2. CASE ChannelOpen \/ ChannelClose
  <2>1. PICK bit \in Control!Bits : ChannelRequest(bit)
    BY <1>2 DEF ChannelOpen, ChannelClose, Control!Bits
  <2>2. Control!Request(bit)
    BY <2>1 DEF ChannelRequest, Control!Request
  <2>3. QED
    BY <2>2 DEF Control!Next
<1>3. CASE AwaitOpen
  <2>1. Control!Take
    BY <1>3 DEF AwaitOpen, Control!Take
  <2>2. QED
    BY <2>1 DEF Control!Next
<1>4. CASE OpenFails
  <2>1. Control!Halt
    BY <1>4 DEF OpenFails, Control!Halt
  <2>2. QED
    BY <2>1 DEF Control!Next
<1>5. CASE AllocateBuffer
  <2>1. Control!Halt \/ UNCHANGED <<channelState, notify>>
    BY <1>5 DEF AllocateBuffer, Control!Halt
  <2>2. QED
    BY <2>1 DEF Control!Next
<1>6. CASE PollNotification
  <2>1. CASE notify = {}
    BY <1>6, <2>1 DEF PollNotification
  <2>2. CASE notify # {}
    <3>1. Control!Take
      BY <1>6, <2>2 DEF PollNotification, Control!Take
    <3>2. QED
      BY <3>1 DEF Control!Next
  <2>3. QED
    BY <2>1, <2>2
<1>7. CASE SendStep
  <2>1. Control!Halt \/ UNCHANGED <<channelState, notify>>
    BY <1>7 DEF SendStep, SendFrame, SendAgain, SendFails, SendNothing,
                Control!Halt
  <2>2. QED
    BY <2>1 DEF Control!Next
<1>8. CASE ReceiveStep
  <2>1. CASE ReceiveFails
    <3>1. Control!Lose
      BY <2>1 DEF ReceiveFails, Control!Lose
    <3>2. QED
      BY <3>1 DEF Control!Next
  <2>2. CASE \E n \in 0..(FrameSize - buf_count) : Receive(n)
    BY <2>2 DEF Receive
  <2>3. QED
    BY <1>8, <2>1, <2>2 DEF ReceiveStep
<1>9. CASE AdcInterrupt
  <2>1. Control!Halt \/ UNCHANGED <<channelState, notify>>
    BY <1>9 DEF AdcInterrupt, Control!Halt
  <2>2. QED
    BY <2>1 DEF Control!Next
<1>10. CASE StartCapture \/ DrainPlayed \/ CloseChannel \/ TakeFrame
  BY <1>10 DEF StartCapture, DrainPlayed, CloseChannel, TakeFrame
<1>11. CASE PlayFrame \/ DropFrame \/ DacInterrupt
  BY <1>11 DEF PlayFrame, DropFrame, DacInterrupt
<1>12. CASE UNCHANGED vars
  BY <1>12 DEF vars
<1>13. QED
  BY <1>2, <1>3, <1>4, <1>5, <1>6, <1>7, <1>8, <1>9, <1>10, <1>11, <1>12
     DEF Next, Thread

\* Whatever calls fail, the channel opens and closes as Channel says: requests
\* are taken together, and only those, a dead network or a halt change it.
THEOREM ThreadImplementsChannel == Spec => ImplementsChannel
<1>1. Init => Control!Init
  BY ChannelInit
<1>2. TypeOK /\ [Next]_vars => [Control!Next]_<<channelState, notify>>
  BY ChannelStep
<1>3. QED
  BY <1>1, <1>2, TypeCorrect, PTL DEF Spec, ImplementsChannel, Control!Spec

-----------------------------------------------------------------------------
(* Playback starts with frames in hand.  frame_count is compared to           *)
(* FRAME_BUFFER_COUNT, the property is about the queue: as long as the DAC   *)
(* is off nobody takes frames, so they count the same ones at most.           *)

CountInv ==
  ~dacOn /\ pc \notin {"wait", "halted"} => frame_count <= Len(xIncomingAudio)

LEMMA CountInit == Init => CountInv
BY DEF Init, CountInv

LEMMA CountOther ==
  ASSUME TypeOK, CountInv, [Next]_vars, ~PlayFrame
  PROVE  CountInv' /\ (dacOn' => dacOn)
<1> USE DEF CountInv, threadVars
<1>1. CASE ChannelOpen \/ ChannelClose \/ UNCHANGED vars
  BY <1>1 DEF ChannelOpen, ChannelClose, ChannelRequest, vars
<1>2. CASE AwaitOpen
  <2>1. Len(xIncomingAudio) \in Nat
    BY QueueLength DEF TypeOK, QueuesOK
  <2>2. QED
    BY <1>2, <2>1 DEF AwaitOpen
<1>3. CASE OpenFails \/ AllocateBuffer \/ StartCapture \/ CloseChannel
  BY <1>3 DEF OpenFails, AllocateBuffer, StartCapture, CloseChannel
<1>4. CASE DrainPlayed \/ PollNotification \/ DropFrame \/ DacInterrupt
  BY <1>4 DEF DrainPlayed, PollNotification, DropFrame, DacInterrupt
<1>5. CASE TakeFrame \/ SendStep \/ ReceiveStep
  BY <1>5 DEF TakeFrame, SendStep, SendFrame, SendAgain, SendFails, SendNothing,
              ReceiveStep, Receive, ReceiveFails
<1>6. CASE AdcInterrupt
  BY <1>6 DEF AdcInterrupt
<1>7. QED
  BY <1>1, <1>2, <1>3, <1>4, <1>5, <1>6 DEF Next, Thread

LEMMA CountPlay ==
  ASSUME TypeOK, CountInv, PlayFrame
  PROVE  /\ CountInv'
         /\ ~dacOn /\ dacOn' => Len(xIncomingAudio') >= FrameBufferCount
<1>1. /\ Len(xIncomingAudio) \in Nat
      /\ Len(xIncomingAudio') = Len(xIncomingAudio) + 1
  BY QueueLength, QueueSend DEF PlayFrame, TypeOK, QueuesOK, BuffersOK
<1>2. frame_count \in Nat /\ frame_count' <= frame_count + 1
  BY Constants DEF PlayFrame, TypeOK, CountersOK
<1>3. dacOn => dacOn'
  BY DEF PlayFrame
<1>4. ~dacOn /\ dacOn' => frame_count' >= FrameBufferCount
  BY DEF PlayFrame
<1>5. ~dacOn => frame_count' <= Len(xIncomingAudio')
  <2>1. frame_count' \in Nat
    BY <1>2 DEF PlayFrame
  <2>2. ~dacOn => frame_count <= Len(xIncomingAudio)
    BY DEF PlayFrame, CountInv
  <2>3. QED
    BY <1>1, <1>2, <2>1, <2>2
<1>6. frame_count' \in Nat
  BY <1>2 DEF PlayFrame
<1>7. QED
  BY <1>1, <1>3, <1>4, <1>5, <1>6, Constants DEF CountInv

\* Whenever the DAC starts, FrameBufferCount frames are waiting for it (lines
\* 261-273 of thread_intercom.c), whichever calls fail before.
THEOREM PlaybackIsPrebuffered == Spec => StartsPrebuffered
<1>1. TypeOK /\ CountInv /\ [Next]_vars => CountInv'
  BY CountOther, CountPlay
<1>2. TypeOK /\ CountInv /\ [Next]_vars =>
        [~dacOn /\ dacOn' => Len(xIncomingAudio') >= FrameBufferCount]_vars
  BY CountOther, CountPlay
<1>3. QED
  BY <1>1, <1>2, CountInit, TypeCorrect, PTL DEF Spec, StartsPrebuffered
=============================================================================
