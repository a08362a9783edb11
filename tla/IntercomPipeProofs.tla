------------------------- MODULE IntercomPipeProofs -------------------------
(***************************************************************************)
(* What the frame buffers of IntercomAudio hold on their way to the        *)
(* network: the captured frames in order, and, unless recvfrom fails for   *)
(* good, a pipe as FramePipe says.                                         *)
(***************************************************************************)
EXTENDS IntercomOwnershipProofs

-----------------------------------------------------------------------------
(* The numbers of the frames in a sequence of buffers.                      *)

Number == 0..(FrameMod - 1)
Numbers(q, c) == [i \in 1..Len(q) |-> c[q[i]]]

\* Sequences of the same length and elements are the same.
LEMMA SameSequence ==
  ASSUME NEW f \in Seq(Number), NEW g \in Seq(Number), Len(f) = Len(g),
         \A i \in 1..Len(f) : f[i] = g[i]
  PROVE  f = g
OBVIOUS

LEMMA NumbersType ==
  ASSUME NEW q \in Seq(Buf), NEW c \in [Buf -> Number]
  PROVE  /\ Numbers(q, c) \in Seq(Number) /\ Len(Numbers(q, c)) = Len(q)
         /\ \A i \in 1..Len(q) : Numbers(q, c)[i] = c[q[i]]
<1>1. Len(q) \in Nat /\ \A i \in 1..Len(q) : q[i] \in Buf
  OBVIOUS
<1>2. Numbers(q, c) \in [1..Len(q) -> Number]
  BY <1>1 DEF Numbers
<1>3. QED
  BY <1>1, <1>2 DEF Numbers

\* A buffer filled with frame n comes behind the others.
LEMMA NumbersAppend ==
  ASSUME NEW q \in Seq(Buf), NEW c \in [Buf -> Number], NEW b \in Buf,
         NEW n \in Number, \A i \in 1..Len(q) : q[i] # b,
         NEW d, d = [c EXCEPT ![b] = n]
  PROVE  Numbers(Append(q, b), d) = Append(Numbers(q, c), n)
<1>1. /\ Len(q) \in Nat /\ Len(Append(q, b)) = Len(q) + 1
      /\ \A i \in 1..Len(q) : Append(q, b)[i] = q[i] /\ q[i] \in Buf
      /\ Append(q, b)[Len(q) + 1] = b
  OBVIOUS
<1>2. d[b] = n /\ \A i \in 1..Len(q) : d[q[i]] = c[q[i]]
  BY <1>1
<1>3. /\ Numbers(q, c) \in Seq(Number) /\ Len(Numbers(q, c)) = Len(q)
      /\ \A i \in 1..Len(q) : Numbers(q, c)[i] = c[q[i]]
  BY NumbersType
<1>4. /\ DOMAIN Append(Numbers(q, c), n) = 1..(Len(q) + 1)
      /\ \A i \in 1..Len(q) : Append(Numbers(q, c), n)[i] = c[q[i]]
      /\ Append(Numbers(q, c), n)[Len(q) + 1] = n
  BY <1>3
<1>5. /\ DOMAIN Numbers(Append(q, b), d) = 1..(Len(q) + 1)
      /\ \A i \in 1..(Len(q) + 1) : Numbers(Append(q, b), d)[i] = d[Append(q, b)[i]]
  BY <1>1 DEF Numbers
<1>6. \A i \in 1..(Len(q) + 1) : Numbers(Append(q, b), d)[i] = Append(Numbers(q, c), n)[i]
  <2>1. TAKE i \in 1..(Len(q) + 1)
  <2>2. i \in 1..Len(q) \/ i = Len(q) + 1
    BY <1>1
  <2>3. CASE i \in 1..Len(q)
    <3>1. Numbers(Append(q, b), d)[i] = d[Append(q, b)[i]]
      BY <1>5
    <3>2. Append(q, b)[i] = q[i] /\ d[q[i]] = c[q[i]]
      BY <1>1, <1>2, <2>3
    <3>3. Append(Numbers(q, c), n)[i] = c[q[i]]
      BY <1>4, <2>3
    <3>4. QED
      BY <3>1, <3>2, <3>3
  <2>4. CASE i = Len(q) + 1
    BY <1>1, <1>2, <1>4, <1>5, <2>4
  <2>5. QED
    BY <2>2, <2>3, <2>4
<1>7. Numbers(Append(q, b), d) \in Seq(Number) /\ Append(Numbers(q, c), n) \in Seq(Number)
  <2>1. Append(q, b) \in Seq(Buf) /\ d \in [Buf -> Number]
    OBVIOUS
  <2>2. Numbers(Append(q, b), d) \in Seq(Number)
    BY <2>1, NumbersType
  <2>3. Append(Numbers(q, c), n) \in Seq(Number)
    BY <1>3
  <2>4. QED
    BY <2>2, <2>3
<1>8. Len(Numbers(Append(q, b), d)) = Len(q) + 1 /\ Len(Append(Numbers(q, c), n)) = Len(q) + 1
  BY <1>1, <1>3, <1>5, <1>7
<1>9. QED
  BY <1>6, <1>7, <1>8, SameSequence

LEMMA NumbersTail ==
  ASSUME NEW q \in Seq(Buf), NEW c \in [Buf -> Number], q # <<>>
  PROVE  Numbers(Tail(q), c) = Tail(Numbers(q, c)) /\ Numbers(q, c) # <<>>
<1>1. /\ Len(q) \in Nat \ {0} /\ Tail(q) \in Seq(Buf) /\ Len(Tail(q)) = Len(q) - 1
      /\ \A i \in 1..(Len(q) - 1) : Tail(q)[i] = q[i + 1]
  <2>1. Len(q) \in Nat \ {0} /\ Tail(q) \in Seq(Buf) /\ Len(Tail(q)) = Len(q) - 1
    OBVIOUS
  <2>2. \A i \in 1..(Len(q) - 1) : Tail(q)[i] = q[i + 1]
    OBVIOUS
  <2>3. QED
    BY <2>1, <2>2
<1>2. /\ Numbers(q, c) \in Seq(Number) /\ Len(Numbers(q, c)) = Len(q)
      /\ \A i \in 1..Len(q) : Numbers(q, c)[i] = c[q[i]]
  BY NumbersType
<1>3. /\ Tail(Numbers(q, c)) \in Seq(Number) /\ Numbers(q, c) # <<>>
      /\ Len(Tail(Numbers(q, c))) = Len(q) - 1
      /\ \A i \in 1..(Len(q) - 1) : Tail(Numbers(q, c))[i] = Numbers(q, c)[i + 1]
  <2>1. Numbers(q, c) # <<>>
    BY <1>1, <1>2
  <2>2. Tail(Numbers(q, c)) \in Seq(Number) /\ Len(Tail(Numbers(q, c))) = Len(q) - 1
    BY <1>2, <2>1
  <2>3. \A i \in 1..(Len(q) - 1) : Tail(Numbers(q, c))[i] = Numbers(q, c)[i + 1]
    BY <1>2, <2>1
  <2>4. QED
    BY <2>1, <2>2, <2>3
<1>4. /\ Numbers(Tail(q), c) \in Seq(Number) /\ Len(Numbers(Tail(q), c)) = Len(q) - 1
      /\ \A i \in 1..(Len(q) - 1) : Numbers(Tail(q), c)[i] = c[q[i + 1]]
  <2>1. /\ Numbers(Tail(q), c) \in Seq(Number)
        /\ Len(Numbers(Tail(q), c)) = Len(Tail(q))
        /\ \A i \in 1..Len(Tail(q)) : Numbers(Tail(q), c)[i] = c[Tail(q)[i]]
    BY <1>1, NumbersType
  <2>2. QED
    BY <1>1, <2>1
<1>5. \A i \in 1..(Len(q) - 1) : Numbers(Tail(q), c)[i] = Tail(Numbers(q, c))[i]
  BY <1>1, <1>2, <1>3, <1>4
<1>6. Numbers(Tail(q), c) = Tail(Numbers(q, c))
  BY <1>3, <1>4, <1>5, SameSequence
<1>7. QED
  BY <1>3, <1>6

LEMMA NumbersEmpty == ASSUME NEW c PROVE Numbers(<<>>, c) = <<>>
BY DEF Numbers

\* Frames are consecutive and n is the number after the last of them.
Follows(f, n) ==
  /\ \A i \in 1..(Len(f) - 1) : f[i + 1] = After(f[i])
  /\ f # <<>> => n = After(f[Len(f)])

LEMMA FollowsAppend ==
  ASSUME NEW f \in Seq(Number), NEW n \in Number, Follows(f, n)
  PROVE  Follows(Append(f, n), After(n))
<1>1. /\ Len(f) \in Nat /\ Len(Append(f, n)) = Len(f) + 1
      /\ Append(f, n)[Len(f) + 1] = n
      /\ \A i \in 1..Len(f) : Append(f, n)[i] = f[i]
  OBVIOUS
<1>2. ASSUME NEW i \in 1..Len(f) PROVE Append(f, n)[i + 1] = After(Append(f, n)[i])
  <2>1. CASE i = Len(f)
    BY <1>1, <2>1 DEF Follows
  <2>2. CASE i # Len(f)
    BY <1>1, <2>2 DEF Follows
  <2>3. QED
    BY <2>1, <2>2
<1>3. QED
  BY <1>1, <1>2 DEF Follows

LEMMA FollowsTail ==
  ASSUME NEW f \in Seq(Number), NEW n \in Number, Follows(f, n), f # <<>>
  PROVE  Follows(Tail(f), n)
<1>1. Len(f) \in Nat \ {0} /\ Len(Tail(f)) = Len(f) - 1 /\ Tail(f) \in Seq(Number)
  OBVIOUS
<1>2. \A i \in 1..(Len(f) - 1) : Tail(f)[i] = f[i + 1]
  OBVIOUS
<1>3. ASSUME NEW i \in 1..(Len(Tail(f)) - 1) PROVE Tail(f)[i + 1] = After(Tail(f)[i])
  BY <1>1, <1>2 DEF Follows
<1>4. Tail(f) # <<>> => Tail(f)[Len(Tail(f))] = f[Len(f)]
  BY <1>1, <1>2
<1>5. QED
  BY <1>3, <1>4 DEF Follows

-----------------------------------------------------------------------------
(* The capture path never holds a NULL pointer.                             *)

OnlyBuffers ==
  xTxBufferQueue \in Seq(Buf) /\ xOutgoingAudio \in Seq(Buf) /\ Held \in Seq(Buf)

LEMMA FewBuffers == <<>> \in Seq(Buf) /\ \A b \in Buf : <<b>> \in Seq(Buf)
OBVIOUS

LEMMA OnlyBuffersInit == Init => OnlyBuffers
<1> SUFFICES ASSUME Init PROVE OnlyBuffers
  OBVIOUS
<1>1. Held = <<>> /\ xTxBufferQueue = <<>> /\ xOutgoingAudio = <<>>
  BY DEF Init, Held, Holding, Streaming
<1>2. QED
  BY <1>1, FewBuffers DEF OnlyBuffers

LEMMA OnlyBuffersStep ==
  ASSUME TypeOK, Own, OnlyBuffers, [Next]_vars
  PROVE  OnlyBuffers'
<1> USE Constants DEF OnlyBuffers, threadVars
<1>1. ASSUME UNCHANGED <<xTxBufferQueue, xOutgoingAudio>>, Held' = Held \/ Held' = <<>>
      PROVE  OnlyBuffers'
  BY <1>1, FewBuffers
<1>2. CASE ChannelOpen \/ ChannelClose \/ UNCHANGED vars
  BY <1>1, <1>2
     DEF ChannelOpen, ChannelClose, ChannelRequest, vars, Held, Holding, Streaming
<1>3. CASE AwaitOpen \/ OpenFails \/ StartCapture
  BY <1>1, <1>3
     DEF AwaitOpen, OpenFails, StartCapture, Own, Held, Holding, Streaming
<1>4. CASE AllocateBuffer
  <2>1. Held' = <<>>
    BY <1>4 DEF AllocateBuffer, Held, Holding, Streaming
  <2>2. \A b \in heap : b \in Buf
    BY DEF TypeOK, BuffersOK
  <2>3. xTxBufferQueue' \in Seq(Buf)
    BY <1>4, <2>2 DEF AllocateBuffer
  <2>4. QED
    BY <1>4, <2>1, <2>3 DEF AllocateBuffer
<1>5. CASE DrainPlayed \/ PollNotification \/ PlayFrame \/ DropFrame \/ DacInterrupt
  BY <1>1, <1>5
     DEF DrainPlayed, PollNotification, PlayFrame, DropFrame, DacInterrupt, Held,
         Holding, Streaming
<1>6. CASE CloseChannel
  BY <1>6 DEF CloseChannel, Held, Holding, Streaming
<1>7. CASE TakeFrame
  <2>1. CASE bytes_to_send = 0 /\ xOutgoingAudio # <<>>
    <3>1. Head(xOutgoingAudio) \in Buf /\ Tail(xOutgoingAudio) \in Seq(Buf)
      BY <2>1
    <3>2. Held' = <<Head(xOutgoingAudio)>>
      BY <1>7, <2>1 DEF TakeFrame, Held, Holding, Streaming
    <3>3. QED
      BY <1>7, <2>1, <3>1, <3>2, FewBuffers DEF TakeFrame
  <2>2. CASE bytes_to_send > 0 \/ xOutgoingAudio = <<>>
    BY <1>1, <1>7, <2>2 DEF TakeFrame, Held, Holding, Streaming
  <2>3. QED
    BY <1>7, <2>1, <2>2 DEF TakeFrame
<1>8. CASE SendFrame
  <2>1. Held = <<buf_out>> /\ Held' = <<>>
    BY <1>8 DEF SendFrame, Held, Holding, Streaming
  <2>2. buf_out \in Buf
    BY <2>1
  <2>3. xTxBufferQueue' \in Seq(Buf)
    BY <1>8, <2>2 DEF SendFrame
  <2>4. QED
    BY <1>8, <2>1, <2>3, FewBuffers DEF SendFrame
<1>9. CASE SendAgain \/ SendFails \/ SendNothing
  BY <1>1, <1>9
     DEF SendAgain, SendFails, SendNothing, Held, Holding, Streaming, TypeOK,
         CountersOK, MaxExcess
<1>10. CASE ReceiveStep
  BY <1>1, <1>10
     DEF ReceiveStep, Receive, ReceiveFails, Held, Holding, Streaming
<1>11. CASE AdcInterrupt
  <2>1. Head(xTxBufferQueue) \in Buf /\ Tail(xTxBufferQueue) \in Seq(Buf)
    BY <1>11 DEF AdcInterrupt
  <2>2. Held' = Held \/ Held' = <<>>
    BY <1>11 DEF AdcInterrupt, Held, Holding, Streaming
  <2>3. xTxBufferQueue' \in Seq(Buf) /\ xOutgoingAudio' \in Seq(Buf)
    <3>1. /\ xTxBufferQueue' = Tail(xTxBufferQueue)
          /\ \/ xOutgoingAudio' = xOutgoingAudio
             \/ xOutgoingAudio' = Append(xOutgoingAudio, Head(xTxBufferQueue))
      BY <1>11 DEF AdcInterrupt
    <3>2. Append(xOutgoingAudio, Head(xTxBufferQueue)) \in Seq(Buf)
      BY <2>1
    <3>3. QED
      BY <2>1, <3>1, <3>2
  <2>4. QED
    BY <2>2, <2>3, FewBuffers
<1>12. QED
  BY <1>2, <1>3, <1>4, <1>5, <1>6, <1>7, <1>8, <1>9, <1>10, <1>11
     DEF Next, Thread, SendStep

-----------------------------------------------------------------------------
(* What the steps do to the frames on their way to the network.             *)

Frames == Numbers(Outbound, content)

PathOK == TypeOK /\ Own /\ OnlyBuffers

LEMMA OutboundType ==
  ASSUME PathOK
  PROVE  /\ Outbound \in Seq(Buf) /\ content \in [Buf -> Number]
         /\ Frames \in Seq(Number) /\ captured \in Number
         /\ Len(Frames) = Len(Outbound)
<1>1. Outbound \in Seq(Buf)
  BY DEF PathOK, OnlyBuffers, Outbound
<1>2. content \in [Buf -> Number] /\ captured \in Number
  BY DEF PathOK, TypeOK, CaptureOK, Number
<1>3. QED
  BY <1>1, <1>2, NumbersType DEF Frames

LEMMA OutboundCases ==
  ASSUME PathOK
  PROVE  /\ Held = <<>> => Outbound = xOutgoingAudio
         /\ Held = <<buf_out>> => /\ Outbound # <<>> /\ Tail(Outbound) = xOutgoingAudio
                                  /\ Len(Outbound) = Len(xOutgoingAudio) + 1
         /\ Held = <<>> \/ Held = <<buf_out>>
<1>1. xOutgoingAudio \in Seq(Buf) /\ Held \in Seq(Buf)
  BY DEF PathOK, OnlyBuffers
<1>2. Held = <<>> \/ Held = <<buf_out>>
  BY DEF Held
<1>3. CASE Held = <<>>
  BY <1>1, <1>3 DEF Outbound
<1>4. CASE Held = <<buf_out>>
  <2>1. buf_out \in Buf
    BY <1>1, <1>4
  <2>2. /\ Len(<<buf_out>> \o xOutgoingAudio) = Len(xOutgoingAudio) + 1
        /\ Tail(<<buf_out>> \o xOutgoingAudio) = xOutgoingAudio
    BY <1>1, <2>1
  <2>3. <<buf_out>> \o xOutgoingAudio # <<>>
    BY <1>1, <2>1
  <2>4. Held # <<>>
    BY <1>4
  <2>5. QED
    BY <1>4, <2>2, <2>3, <2>4 DEF Outbound
<1>5. QED
  BY <1>2, <1>3, <1>4

\* A free buffer is none of those on their way to the network.
LEMMA FreeIsNotOutbound ==
  ASSUME PathOK, xTxBufferQueue # <<>>
  PROVE  /\ Head(xTxBufferQueue) \in Buf
         /\ \A i \in 1..Len(Outbound) : Outbound[i] # Head(xTxBufferQueue)
<1> DEFINE b == Head(xTxBufferQueue)
<1>1. b \in Buf /\ b # NoBuf /\ b = Holds["free"][1] /\ 1 \in 1..Len(Holds["free"])
  BY HoldsNow, Constants DEF PathOK, OnlyBuffers
<1>2. /\ "free" \in Owners /\ "sending" \in Owners /\ "captured" \in Owners
      /\ Holds["sending"] = Held /\ Holds["captured"] = xOutgoingAudio
  BY HoldsNow DEF Owners
<1>3. /\ \A i \in 1..Len(Held) : Held[i] # b
      /\ \A i \in 1..Len(xOutgoingAudio) : xOutgoingAudio[i] # b
  <2> HIDE DEF b
  <2>1. \A o \in Owners \ {"free"} : \A i \in 1..Len(Holds[o]) : Holds[o][i] # b
    BY <1>1, <1>2 DEF PathOK, Own, Once
  <2>2. QED
    BY <1>2, <2>1
<1>4. xOutgoingAudio \in Seq(Buf) /\ Held \in Seq(Buf)
  BY DEF PathOK, OnlyBuffers
<1>5. \A i \in 1..Len(Outbound) : Outbound[i] # b
  <2> HIDE DEF b
  <2>1. Len(Outbound) = Len(Held) + Len(xOutgoingAudio)
    BY <1>4 DEF Outbound
  <2>2. \A i \in 1..Len(Outbound) :
          Outbound[i] = IF i <= Len(Held) THEN Held[i]
                                          ELSE xOutgoingAudio[i - Len(Held)]
    BY <1>4 DEF Outbound
  <2>3. TAKE i \in 1..Len(Outbound)
  <2>4. CASE i <= Len(Held)
    BY <1>3, <1>4, <2>2, <2>4
  <2>5. CASE ~(i <= Len(Held))
    <3>1. i - Len(Held) \in 1..Len(xOutgoingAudio)
      BY <1>4, <2>1, <2>5
    <3>2. QED
      BY <1>3, <2>2, <2>5, <3>1
  <2>6. QED
    BY <2>4, <2>5
<1>6. QED
  BY <1>1, <1>5

\* Steps that leave the path alone: of the rest of the thread and of playback.
LEMMA OtherSteps ==
  ASSUME PathOK, [Next]_vars,
         ~AdcInterrupt, ~SendFrame, ~CloseChannel, ~ReceiveStep
  PROVE  /\ Frames' = Frames /\ captured' = captured
         /\ adcOn' = adcOn \/ StartCapture
<1> USE DEF threadVars, captureVars
<1>1. CASE ChannelOpen \/ ChannelClose \/ UNCHANGED vars
  BY <1>1 DEF ChannelOpen, ChannelClose, ChannelRequest, vars, Frames, Outbound,
              Held, Holding, Streaming
<1>2. CASE AwaitOpen \/ OpenFails \/ AllocateBuffer \/ StartCapture
  <2>1. Held = <<>> /\ Held' = <<>>
    BY <1>2 DEF AwaitOpen, OpenFails, AllocateBuffer, StartCapture, Held, Holding,
                Streaming, PathOK, Own
  <2>2. UNCHANGED <<xOutgoingAudio, content, captured>>
    BY <1>2 DEF AwaitOpen, OpenFails, AllocateBuffer, StartCapture
  <2>3. adcOn' = adcOn \/ StartCapture
    BY <1>2 DEF AwaitOpen, OpenFails, AllocateBuffer
  <2>4. QED
    BY <2>1, <2>2, <2>3 DEF Frames, Outbound
<1>3. CASE DrainPlayed \/ PollNotification \/ PlayFrame \/ DropFrame \/ DacInterrupt
  BY <1>3 DEF DrainPlayed, PollNotification, PlayFrame, DropFrame, DacInterrupt,
              Frames, Outbound, Held, Holding, Streaming
<1>4. CASE TakeFrame
  <2>1. UNCHANGED <<content, captured, adcOn>>
    BY <1>4 DEF TakeFrame
  <2>2. CASE bytes_to_send = 0 /\ xOutgoingAudio # <<>>
    <3>1. Held = <<>> /\ Held' = <<Head(xOutgoingAudio)>>
          /\ xOutgoingAudio' = Tail(xOutgoingAudio)
      BY <1>4, <2>2, Constants DEF TakeFrame, Held, Holding, Streaming
    <3>2. <<Head(xOutgoingAudio)>> \o Tail(xOutgoingAudio) = xOutgoingAudio
      BY <2>2 DEF PathOK, OnlyBuffers
    <3>3. Outbound = xOutgoingAudio
      BY <3>1, OutboundCases
    <3>4. Outbound' = Outbound
      BY <3>1, <3>2, <3>3 DEF Outbound
    <3>5. QED
      BY <2>1, <3>4 DEF Frames
  <2>3. CASE bytes_to_send > 0 \/ xOutgoingAudio = <<>>
    BY <1>4, <2>1, <2>3
       DEF TakeFrame, Frames, Outbound, Held, Holding, Streaming
  <2>4. QED
    BY <1>4, <2>2, <2>3 DEF TakeFrame
<1>5. CASE SendAgain \/ SendFails \/ SendNothing
  <2>1. Held' = Held
    BY <1>5 DEF SendAgain, SendFails, SendNothing, Held, Holding, Streaming, PathOK,
                TypeOK, CountersOK, MaxExcess
  <2>2. UNCHANGED <<xOutgoingAudio, content, captured, adcOn>>
    BY <1>5 DEF SendAgain, SendFails, SendNothing
  <2>3. QED
    BY <2>1, <2>2 DEF Frames, Outbound
<1>6. QED
  BY <1>1, <1>2, <1>3, <1>4, <1>5 DEF Next, Thread, SendStep

\* What leaves the loop, or the device, drops the frame being sent.
LEMMA HeldLeaves ==
  ASSUME PathOK, Held' = <<>>, UNCHANGED <<xOutgoingAudio, content>>
  PROVE  Frames' = Frames \/ (Frames # <<>> /\ Frames' = Tail(Frames))
<1>1. Outbound' = xOutgoingAudio
  BY DEF Outbound, PathOK, OnlyBuffers
<1>2. CASE Held = <<>>
  BY <1>1, <1>2, OutboundCases DEF Frames
<1>3. CASE Held = <<buf_out>>
  BY <1>1, <1>3, OutboundCases, OutboundType, NumbersTail DEF Frames
<1>4. QED
  BY <1>2, <1>3, OutboundCases

LEMMA SendLeaves ==
  ASSUME PathOK, SendFrame
  PROVE  /\ Frames # <<>> /\ Frames' = Tail(Frames)
         /\ captured' = captured /\ adcOn' = adcOn
<1>1. Held = <<buf_out>> /\ Held' = <<>>
  BY DEF SendFrame, Held, Holding, Streaming
<1>2. UNCHANGED <<xOutgoingAudio, content, captured, adcOn>>
  BY DEF SendFrame, captureVars
<1>3. Outbound # <<>> /\ Outbound' = Tail(Outbound)
  BY <1>1, <1>2, OutboundCases DEF Outbound, PathOK, OnlyBuffers
<1>4. QED
  BY <1>2, <1>3, OutboundType, NumbersTail DEF Frames

LEMMA CloseEmpties ==
  ASSUME CloseChannel
  PROVE  Frames' = <<>> /\ captured' = captured /\ adcOn' = FALSE
<1>1. Held' = <<>> /\ xOutgoingAudio' = <<>>
  BY DEF CloseChannel, Held, Holding, Streaming
<1>2. Outbound' = <<>>
  BY <1>1 DEF Outbound
<1>3. QED
  BY <1>2, NumbersEmpty DEF Frames, CloseChannel

LEMMA ReceiveLeaves ==
  ASSUME PathOK, ReceiveStep
  PROVE  /\ captured' = captured /\ adcOn' = adcOn
         /\ Frames' = Frames \/ (ReceiveFails /\ Frames # <<>> /\ Frames' = Tail(Frames))
<1> USE DEF threadVars, captureVars
<1>1. CASE ReceiveFails
  <2>1. Held' = <<>> /\ UNCHANGED <<xOutgoingAudio, content, captured, adcOn>>
    BY <1>1 DEF ReceiveFails, Held, Holding, Streaming
  <2>2. QED
    BY <1>1, <2>1, HeldLeaves
<1>2. ASSUME NEW n \in 0..(FrameSize - buf_count), Receive(n)
      PROVE  UNCHANGED <<Frames, captured, adcOn>>
  BY <1>2 DEF Receive, Frames, Outbound, Held, Holding, Streaming
<1>3. QED
  BY <1>1, <1>2 DEF ReceiveStep

\* The interrupt of the ADC brings the next frame, if there is room for it.
LEMMA AdcEnters ==
  ASSUME PathOK, AdcInterrupt, ~Full(xOutgoingAudio)
  PROVE  /\ Frames' = Append(Frames, captured) /\ captured' = After(captured)
         /\ adcOn' = adcOn
<1> DEFINE b == Head(xTxBufferQueue)
<1>1. /\ xTxBufferQueue # <<>> /\ content' = [content EXCEPT ![b] = captured]
      /\ xOutgoingAudio' = Append(xOutgoingAudio, b) /\ Held' = Held
      /\ captured' = After(captured) /\ adcOn' = adcOn
  BY DEF AdcInterrupt, Held, Holding, Streaming, threadVars, After
<1>2. b \in Buf /\ \A i \in 1..Len(Outbound) : Outbound[i] # b
  BY <1>1, FreeIsNotOutbound
<1>3. Outbound' = Append(Outbound, b)
  <2> HIDE DEF b
  <2>1. Held \in Seq(Buf) /\ xOutgoingAudio \in Seq(Buf)
    BY DEF PathOK, OnlyBuffers
  <2>2. Held \o Append(xOutgoingAudio, b) = Append(Held \o xOutgoingAudio, b)
    BY <1>2, <2>1
  <2>3. QED
    BY <1>1, <2>2 DEF Outbound
<1>4. Numbers(Append(Outbound, b), content') = Append(Numbers(Outbound, content), captured)
  BY <1>1, <1>2, OutboundType, NumbersAppend
<1>5. QED
  BY <1>1, <1>3, <1>4 DEF Frames

\* If there is none the device stops and the frames stay what they are.
LEMMA AdcHalts ==
  ASSUME PathOK, AdcInterrupt, Full(xOutgoingAudio)
  PROVE  /\ Frames' = Frames \/ (Frames # <<>> /\ Frames' = Tail(Frames))
         /\ captured' = captured
<1> DEFINE b == Head(xTxBufferQueue)
<1>1. /\ xTxBufferQueue # <<>> /\ content' = [content EXCEPT ![b] = captured]
      /\ xOutgoingAudio' = xOutgoingAudio /\ Held' = <<>> /\ captured' = captured
  BY DEF AdcInterrupt, Held, Holding, Streaming
<1>2. Outbound' = xOutgoingAudio
  BY <1>1 DEF Outbound, PathOK, OnlyBuffers
<1>3. ASSUME NEW i \in 1..Len(Outbound) PROVE content'[Outbound[i]] = content[Outbound[i]]
  BY <1>1, FreeIsNotOutbound, OutboundType
<1>4. Numbers(Outbound, content') = Numbers(Outbound, content)
  BY <1>3 DEF Numbers
<1>5. CASE Held = <<>>
  BY <1>1, <1>2, <1>4, <1>5, OutboundCases DEF Frames
<1>6. CASE Held = <<buf_out>>
  <2>1. Outbound # <<>> /\ Outbound' = Tail(Outbound)
    BY <1>2, <1>6, OutboundCases
  <2>2. content' \in [Buf -> Number]
    BY <1>1, OutboundType
  <2>3. /\ Numbers(Tail(Outbound), content') = Tail(Numbers(Outbound, content'))
        /\ Numbers(Outbound, content') # <<>>
    BY <2>1, <2>2, OutboundType, NumbersTail
  <2>4. QED
    BY <1>1, <1>4, <2>1, <2>3 DEF Frames
<1>7. QED
  BY <1>5, <1>6, OutboundCases

-----------------------------------------------------------------------------
(* The frames are the last ones captured, in order, whatever call fails.    *)

LEMMA PathInvariant == Spec => []PathOK
<1>1. Init => OnlyBuffers
  BY OnlyBuffersInit
<1>2. TypeOK /\ Own /\ OnlyBuffers /\ [Next]_vars => OnlyBuffers'
  BY OnlyBuffersStep
<1>3. TypeOK /\ Own /\ OnlyBuffers => PathOK
  BY DEF PathOK
<1>4. QED
  BY <1>1, <1>2, <1>3, TypeCorrect, OwnInvariant, PTL DEF Spec

InOrder == Follows(Frames, captured)

LEMMA FollowsEmpty == ASSUME NEW n PROVE Follows(<<>>, n)
BY DEF Follows

LEMMA InOrderStep ==
  ASSUME PathOK, InOrder, [Next]_vars
  PROVE  InOrder'
<1>1. /\ Frames \in Seq(Number) /\ captured \in Number
  BY OutboundType
<1>2. ASSUME captured' = captured,
             Frames' = Frames \/ (Frames # <<>> /\ Frames' = Tail(Frames))
      PROVE  InOrder'
  BY <1>1, <1>2, FollowsTail DEF InOrder
<1>3. CASE AdcInterrupt /\ ~Full(xOutgoingAudio)
  BY <1>1, <1>3, AdcEnters, FollowsAppend DEF InOrder
<1>4. CASE AdcInterrupt /\ Full(xOutgoingAudio)
  BY <1>2, <1>4, AdcHalts
<1>5. CASE SendFrame
  BY <1>2, <1>5, SendLeaves
<1>6. CASE CloseChannel
  BY <1>6, CloseEmpties, FollowsEmpty DEF InOrder
<1>7. CASE ReceiveStep
  BY <1>2, <1>7, ReceiveLeaves
<1>8. CASE ~AdcInterrupt /\ ~SendFrame /\ ~CloseChannel /\ ~ReceiveStep
  BY <1>2, <1>8, OtherSteps
<1>9. QED
  BY <1>3, <1>4, <1>5, <1>6, <1>7, <1>8

LEMMA FramesInit == Init => Frames = <<>> /\ captured = 0
<1> SUFFICES ASSUME Init PROVE Frames = <<>> /\ captured = 0
  OBVIOUS
<1>1. Held = <<>> /\ xOutgoingAudio = <<>> /\ captured = 0
  BY DEF Init, Held, Holding, Streaming
<1>2. Outbound = <<>>
  BY <1>1 DEF Outbound
<1>3. QED
  BY <1>1, <1>2, NumbersEmpty DEF Frames

\* The frames on their way to the network are the last ones captured, in the
\* order of capture (HAL_ADC_ConvCpltCallback and lines 218-240 of
\* thread_intercom.c), for every length of the queues and whichever call fails.
THEOREM CaptureIsInOrder == Spec => []CapturedInOrder
<1>1. Init => InOrder
  BY FramesInit, FollowsEmpty DEF InOrder
<1>2. PathOK /\ InOrder /\ [Next]_vars => InOrder'
  BY InOrderStep
<1>3. PathOK /\ InOrder => CapturedInOrder
  <2> SUFFICES ASSUME PathOK, InOrder PROVE CapturedInOrder
    OBVIOUS
  <2>1. /\ Outbound \in Seq(Buf) /\ Len(Frames) = Len(Outbound)
        /\ \A i \in 1..Len(Outbound) : Frames[i] = content[Outbound[i]]
    BY OutboundType, NumbersType DEF Frames
  <2>2. /\ \A i \in 1..(Len(Frames) - 1) : Frames[i + 1] = After(Frames[i])
        /\ Frames # <<>> => captured = After(Frames[Len(Frames)])
    BY DEF InOrder, Follows
  <2>3. \A i \in 1..(Len(Outbound) - 1) :
          content[Outbound[i + 1]] = After(content[Outbound[i]])
    BY <2>1, <2>2
  <2>4. ASSUME Outbound # <<>> PROVE captured = After(content[Last(Outbound)])
    <3>1. Len(Outbound) \in 1..Len(Outbound) /\ Frames # <<>>
      BY <2>1, <2>4, OutboundType
    <3>2. QED
      BY <2>1, <2>2, <3>1 DEF Last
  <2>5. QED
    BY <2>3, <2>4 DEF CapturedInOrder
<1>4. QED
  BY <1>1, <1>2, <1>3, PathInvariant, PTL DEF Spec

-----------------------------------------------------------------------------
(* The refinement of FramePipe.                                             *)

StreamOn == Streaming => adcOn

LEMMA StreamOnStep == StreamOn /\ [Next]_vars => StreamOn'
<1> SUFFICES ASSUME StreamOn, [Next]_vars PROVE StreamOn'
  OBVIOUS
<1> USE DEF StreamOn, Streaming, threadVars
<1>1. CASE ChannelOpen \/ ChannelClose \/ UNCHANGED vars
  BY <1>1 DEF ChannelOpen, ChannelClose, ChannelRequest, vars
<1>2. CASE AwaitOpen \/ OpenFails \/ AllocateBuffer \/ StartCapture \/ CloseChannel
  BY <1>2 DEF AwaitOpen, OpenFails, AllocateBuffer, StartCapture, CloseChannel
<1>3. CASE DrainPlayed \/ PollNotification \/ PlayFrame \/ DropFrame \/ DacInterrupt
  BY <1>3 DEF DrainPlayed, PollNotification, PlayFrame, DropFrame, DacInterrupt
<1>4. CASE TakeFrame \/ SendStep \/ ReceiveStep
  BY <1>4 DEF TakeFrame, SendStep, SendFrame, SendAgain, SendFails, SendNothing,
              ReceiveStep, Receive, ReceiveFails
<1>5. CASE AdcInterrupt
  BY <1>5 DEF AdcInterrupt
<1>6. QED
  BY <1>1, <1>2, <1>3, <1>4, <1>5 DEF Next, Thread

LEMMA StreamOnInvariant == Spec => []StreamOn
<1>1. Init => StreamOn
  BY DEF Init, StreamOn, Streaming
<1>2. QED
  BY <1>1, StreamOnStep, PTL DEF Spec

\* While the ADC runs there is room for a frame whenever it has a free buffer.
LEMMA RoomToCapture ==
  ASSUME PathOK, PoolInv, adcOn, xTxBufferQueue # <<>>, pc # "halted"
  PROVE  Len(Frames) < PoolSize /\ ~Full(xOutgoingAudio)
<1>1. Streaming
  BY DEF PathOK, TypeOK, ControlOK, PCs, Streaming, PoolInv, WaitInv, AllocInv
<1>2. Len(xTxBufferQueue) + Len(xOutgoingAudio) + InFlight = PoolSize
  BY <1>1 DEF PoolInv, StreamInv
<1>3. /\ Len(xTxBufferQueue) \in Nat \ {0} /\ Len(xOutgoingAudio) \in Nat
      /\ bytes_to_send \in Nat
  BY Constants DEF PathOK, OnlyBuffers, TypeOK, CountersOK, MaxExcess
<1>4. Len(Outbound) = Len(xOutgoingAudio) + InFlight
  <2>1. CASE bytes_to_send > 0
    BY <1>1, <2>1, OutboundCases DEF Held, Holding, InFlight
  <2>2. CASE ~(bytes_to_send > 0)
    BY <1>3, <2>2, OutboundCases DEF Held, Holding, InFlight
  <2>3. QED
    BY <2>1, <2>2
<1>5. InFlight \in {0, 1}
  BY DEF InFlight
<1>6. QED
  BY <1>2, <1>3, <1>4, <1>5, OutboundType, Constants DEF Full

LEMMA IntercomPipeStep ==
  ASSUME PathOK, PoolInv, StreamOn, [Next]_vars, "recv" \notin Faults
  PROVE  [Pipe!Next]_<<adcOn, Frames, captured>>
<1> USE DEF Frames, Numbers
<1>1. CASE AdcInterrupt
  <2>1. adcOn /\ pc # "halted" /\ xTxBufferQueue # <<>>
    BY <1>1 DEF AdcInterrupt
  <2>2. Len(Frames) < PoolSize /\ ~Full(xOutgoingAudio)
    BY <2>1, RoomToCapture
  <2>3. Pipe!Enter
    BY <1>1, <2>1, <2>2, AdcEnters DEF Pipe!Enter, After
  <2>4. QED
    BY <2>3 DEF Pipe!Next
<1>2. CASE SendFrame
  <2>1. adcOn
    BY <1>2 DEF SendFrame, StreamOn, Streaming
  <2>2. Pipe!Leave
    BY <1>2, <2>1, SendLeaves DEF Pipe!Leave
  <2>3. QED
    BY <2>2 DEF Pipe!Next
<1>3. CASE CloseChannel
  <2>1. adcOn
    BY <1>3 DEF CloseChannel, StreamOn, Streaming
  <2>2. Pipe!Close
    BY <1>3, <2>1, CloseEmpties DEF Pipe!Close
  <2>3. QED
    BY <2>2 DEF Pipe!Next
<1>4. CASE ReceiveStep
  BY <1>4, ReceiveLeaves DEF ReceiveFails
<1>5. CASE ~AdcInterrupt /\ ~SendFrame /\ ~CloseChannel /\ ~ReceiveStep
  <2>1. CASE StartCapture
    <3>1. ~adcOn /\ adcOn' = TRUE
      BY <2>1 DEF StartCapture, PoolInv, AllocInv
    <3>2. Pipe!Open
      BY <1>5, <3>1, OtherSteps DEF Pipe!Open
    <3>3. QED
      BY <3>2 DEF Pipe!Next
  <2>2. CASE ~StartCapture
    BY <1>5, <2>2, OtherSteps
  <2>3. QED
    BY <2>1, <2>2
<1>6. QED
  BY <1>1, <1>2, <1>3, <1>4, <1>5

\* Unless recvfrom fails for good, which leaves the converters running, the two
\* queues, the buffer being sent and the interrupt of the ADC are a pipe of
\* PoolSize frames, for every length of the queues.
THEOREM CaptureImplementsPipe ==
  ASSUME "recv" \notin Faults PROVE Spec => ImplementsFramePipe
<1> USE DEF Frames, Numbers
<1>1. Init => Pipe!Init
  BY FramesInit DEF Init, Pipe!Init
<1>2. PathOK /\ PoolInv /\ StreamOn /\ [Next]_vars
        => [Pipe!Next]_<<adcOn, Frames, captured>>
  BY IntercomPipeStep
<1>3. QED
  BY <1>1, <1>2, PathInvariant, PoolInvariant, StreamOnInvariant, PTL
     DEF Spec, ImplementsFramePipe, Pipe!Spec
=============================================================================
