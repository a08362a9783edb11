------------------------- MODULE ClientThreadProofs -------------------------
(***************************************************************************)
(* Theorems about ClientThread for every queue length, send buffer, heap   *)
(* and peer its assumptions allow.                                         *)
(***************************************************************************)
EXTENDS ClientThread, TLAPS

\* The constants are what the assumptions say (cited as one fact).
LEMMA Constants ==
  /\ QueueLen \in Nat \ {0} /\ WireCap \in Nat \ {0}
  /\ NumMod \in Nat \ {0} /\ HeapSlots \in Nat
  /\ PeerFaults \subseteq PeerEnds
BY QueueAssumption, WireAssumption, NumAssumption, HeapAssumption,
   PeerAssumption

\* The number after n is a number again.
LEMMA NextNumber ==
  ASSUME NEW n \in 0..(NumMod - 1) PROVE (n + 1) % NumMod \in 0..(NumMod - 1)
BY Constants

\* A message is not the empty frame.
LEMMA NoFrameIsNoMessage == NoFrame \notin Message
BY DEF NoFrame, Message

\* The first message of a sequence and those after it, and one message more.
LEMMA TakeFirst ==
  ASSUME NEW q \in Seq(Message), q # <<>>
  PROVE  Head(q) \in Message /\ Tail(q) \in Seq(Message) /\ Len(Tail(q)) < Len(q)
OBVIOUS

LEMMA AddLast ==
  ASSUME NEW q \in Seq(Message), NEW m \in Message
  PROVE  Append(q, m) \in Seq(Message) /\ Len(Append(q, m)) = Len(q) + 1
OBVIOUS

\* A send that finds room keeps the queue and the numbering in their types.
LEMMA SendType ==
  ASSUME TypeOK, NEW kind \in {"config", "ping", "ui"}, SendMessage(kind)
  PROVE  /\ xQueueOutMessages' \in Seq(Message)
         /\ Len(xQueueOutMessages') <= QueueLen
         /\ nextn' \in 0..(NumMod - 1)
<1>1. [kind |-> kind, n |-> nextn] \in Message
  BY DEF TypeOK, Message
<1>2. /\ xQueueOutMessages' \in Seq(Message)
      /\ Len(xQueueOutMessages') = Len(xQueueOutMessages) + 1
  BY <1>1, AddLast DEF TypeOK, SendMessage
<1>3. Len(xQueueOutMessages) \in Nat /\ Len(xQueueOutMessages) < QueueLen
  BY Constants DEF TypeOK, SendMessage, Full
<1>4. nextn' \in 0..(NumMod - 1)
  BY NextNumber DEF TypeOK, SendMessage
<1>5. QED
  BY <1>2, <1>3, <1>4, Constants

-----------------------------------------------------------------------------
(* Type correctness.                                                        *)

LEMMA TypeInit == Init => TypeOK
<1> SUFFICES ASSUME Init PROVE TypeOK
  OBVIOUS
<1>1. <<>> \in Seq(Message) /\ Len(<<>>) = 0
  OBVIOUS
<1>2. pc \in PCs /\ peer \in {"down", "up"} \cup PeerEnds
  BY DEF Init, PCs
<1>3. bytes_remaining \in Frame /\ record \in Frame /\ got \in Frame
  BY DEF Init, Frame
<1>4. overdue \in BOOLEAN /\ ui \in {"idle", "blocked"}
  BY DEF Init
<1>5. nextn \in 0..(NumMod - 1) /\ heap \in 0..HeapSlots
  BY Constants DEF Init
<1>6. /\ xQueueOutMessages \in Seq(Message) /\ Len(xQueueOutMessages) <= QueueLen
      /\ wire \in Seq(Message) /\ Len(wire) <= WireCap
  BY <1>1, Constants DEF Init
<1>7. QED
  BY <1>2, <1>3, <1>4, <1>5, <1>6 DEF TypeOK

LEMMA TypeStep == TypeOK /\ [Next]_vars => TypeOK'
<1> SUFFICES ASSUME TypeOK, [Next]_vars PROVE TypeOK'
  OBVIOUS
<1> USE Constants DEF TypeOK, PCs, PeerEnds, Frame, clientVars, tlsVars, peerVars
<1>1. CASE Connect
  BY <1>1 DEF Connect
<1>2. CASE ConnectFails \/ Handshake \/ HandshakeFails
  BY <1>2 DEF ConnectFails, Handshake, HandshakeFails
<1>3. CASE RequestConfiguration
  BY <1>3, SendType DEF RequestConfiguration
<1>4. CASE Dequeue
  <2>1. CASE ~Writing /\ xQueueOutMessages # <<>>
    <3>1. /\ Head(xQueueOutMessages) \in Message
          /\ Tail(xQueueOutMessages) \in Seq(Message)
          /\ Len(Tail(xQueueOutMessages)) < Len(xQueueOutMessages)
      BY <2>1, TakeFirst
    <3>2. Len(Tail(xQueueOutMessages)) \in Nat /\ Len(xQueueOutMessages) \in Nat
      BY <3>1
    <3>3. Len(Tail(xQueueOutMessages)) <= QueueLen
      BY <3>1, <3>2
    <3>4. QED
      BY <1>4, <2>1, <3>1, <3>3 DEF Dequeue
  <2>2. CASE ~(~Writing /\ xQueueOutMessages # <<>>)
    BY <1>4, <2>2 DEF Dequeue
  <2>3. QED
    BY <2>1, <2>2
<1>5. CASE SkipWrite \/ WriteFails
  BY <1>5 DEF SkipWrite, WriteFails
<1>6. CASE Write
  <2>1. (IF record # NoFrame THEN record ELSE bytes_remaining) \in Message
    BY <1>6 DEF Write, Writing
  <2>2. wire' \in Seq(Message) /\ Len(wire') = Len(wire) + 1
    BY <1>6, <2>1, AddLast DEF Write
  <2>3. Len(wire') <= WireCap
    BY <1>6, <2>2 DEF Write
  <2>4. QED
    BY <1>6, <2>2, <2>3 DEF Write
<1>7. CASE WriteWouldBlock
  BY <1>7 DEF WriteWouldBlock
<1>8. CASE ReadData \/ ReadAgain \/ ReadTimeout \/ ReadDead
  BY <1>8 DEF ReadData, ReadAgain, ReadTimeout, ReadDead
<1>9. CASE Ping
  BY <1>9, SendType DEF Ping
<1>10. CASE ReadCloseNotify
  <2>1. CASE record # NoFrame /\ Len(wire) < WireCap
             /\ wire' = Append(wire, record) /\ record' = NoFrame
    <3>1. record \in Message
      BY <2>1
    <3>2. wire' \in Seq(Message) /\ Len(wire') = Len(wire) + 1
      BY <2>1, <3>1, AddLast
    <3>3. Len(wire') <= WireCap
      BY <2>1, <3>2
    <3>4. QED
      BY <1>10, <2>1, <3>2, <3>3 DEF ReadCloseNotify
  <2>2. CASE UNCHANGED <<wire, record>>
    BY <1>10, <2>2 DEF ReadCloseNotify
  <2>3. QED
    BY <1>10, <2>1, <2>2 DEF ReadCloseNotify
<1>11. CASE Finish \/ Delay
  BY <1>11 DEF Finish, Delay
<1>12. CASE UiSend
  BY <1>12, SendType DEF UiSend
<1>13. CASE UiBlocks
  BY <1>13 DEF UiBlocks
<1>14. CASE UiResumes
  BY <1>14, SendType DEF UiResumes
<1>15. CASE ServerReads
  BY <1>15, TakeFirst DEF ServerReads
<1>16. CASE PeerResets
  BY <1>16 DEF PeerResets
<1>17. CASE TenSecondsPass
  BY <1>17 DEF TenSecondsPass
<1>18. ASSUME NEW e \in PeerFaults, PeerEnd(e) PROVE TypeOK'
  BY <1>18 DEF PeerEnd
<1>19. CASE UNCHANGED vars
  BY <1>19 DEF vars
<1>20. QED
  BY <1>1, <1>2, <1>3, <1>4, <1>5, <1>6, <1>7, <1>8, <1>9, <1>10, <1>11,
     <1>12, <1>13, <1>14, <1>15, <1>16, <1>17, <1>18, <1>19
     DEF Next, Client, UserInterface, Network

\* Every variable keeps its type: the queue never holds more than QueueLen
\* messages whoever sends, and mbedtls_ssl_setup never succeeds on an empty
\* heap.
THEOREM TypeCorrect == Spec => []TypeOK
BY TypeInit, TypeStep, PTL DEF Spec

-----------------------------------------------------------------------------
(* Retries.  Between sessions TLS has no record; within one its record is   *)
(* the frame that is being written, because the next message is taken only  *)
(* when nothing is left of the last (line 271) and every way out of a       *)
(* session passes the reset (line 337).                                     *)

RecordInvariant ==
  /\ RetriedVerbatim
  /\ pc \in {"connect", "handshake", "delay"} => record = NoFrame

LEMMA RecordInit == Init => RecordInvariant
BY DEF Init, RecordInvariant, RetriedVerbatim, InSession

LEMMA RecordStep == RecordInvariant /\ [Next]_vars => RecordInvariant'
<1> SUFFICES ASSUME RecordInvariant, [Next]_vars PROVE RecordInvariant'
  OBVIOUS
<1> USE DEF RecordInvariant, RetriedVerbatim, InSession, clientVars, tlsVars
<1>1. CASE Connect \/ ConnectFails \/ Handshake \/ HandshakeFails
  BY <1>1 DEF Connect, ConnectFails, Handshake, HandshakeFails
<1>2. CASE RequestConfiguration \/ Ping
  BY <1>2 DEF RequestConfiguration, Ping
<1>3. CASE Dequeue
  BY <1>3 DEF Dequeue, Writing
<1>4. CASE SkipWrite \/ WriteFails
  BY <1>4 DEF SkipWrite, WriteFails
<1>5. CASE Write
  BY <1>5 DEF Write
<1>6. CASE WriteWouldBlock
  BY <1>6 DEF WriteWouldBlock
<1>7. CASE ReadData \/ ReadAgain \/ ReadTimeout \/ ReadDead \/ ReadCloseNotify
  BY <1>7 DEF ReadData, ReadAgain, ReadTimeout, ReadDead, ReadCloseNotify
<1>8. CASE Finish \/ Delay
  BY <1>8 DEF Finish, Delay
<1>9. CASE UserInterface
  BY <1>9 DEF UserInterface, UiSend, UiBlocks, UiResumes
<1>10. CASE Network
  BY <1>10 DEF Network, ServerReads, PeerResets, TenSecondsPass, PeerEnd
<1>11. CASE UNCHANGED vars
  BY <1>11 DEF vars
<1>12. QED
  BY <1>1, <1>2, <1>3, <1>4, <1>5, <1>6, <1>7, <1>8, <1>9, <1>10, <1>11
     DEF Next, Client

\* A write that is tried again is tried with the frame TLS keeps a record of:
\* what mbedTLS requires of its caller.
THEOREM RetriesAreVerbatim == Spec => []RetriedVerbatim
<1>1. RecordInvariant => RetriedVerbatim
  BY DEF RecordInvariant
<1>2. QED
  BY <1>1, RecordInit, RecordStep, PTL DEF Spec
-----------------------------------------------------------------------------
(* Order within a session.  Along the way of a message - queue, buffer_out, *)
(* wire, server - each has the number after the one ahead of it; between    *)
(* what TLS has taken in this session and what it gets next as well, until  *)
(* the connection is reset.  Numbers are compared as After gives them and   *)
(* no more is used of it.                                                   *)

After(n) == (n + 1) % NumMod
Consecutive(q) == \A i \in 1..(Len(q) - 1) : q[i + 1].n = After(q[i].n)

\* The numbers of the first message in the queue, of the next one TLS gets and
\* of the last one it got.
FirstWaiting == IF xQueueOutMessages = <<>> THEN nextn ELSE xQueueOutMessages[1].n
NextUp == IF Writing THEN bytes_remaining.n ELSE FirstWaiting
LastTaken == IF wire # <<>> THEN wire[Len(wire)].n ELSE got.n

QueueOrder ==
  /\ Consecutive(xQueueOutMessages)
  /\ xQueueOutMessages # <<>> =>
       nextn = After(xQueueOutMessages[Len(xQueueOutMessages)].n)
  /\ Writing => FirstWaiting = After(bytes_remaining.n)
WireOrder ==
  /\ Consecutive(wire)
  /\ got # NoFrame /\ wire # <<>> => wire[1].n = After(got.n)
SessionContinues ==
  /\ pc = "handshake" => wire = <<>> /\ got = NoFrame
  /\ InSession /\ peer # "rst" /\ (wire # <<>> \/ got # NoFrame) =>
       NextUp = After(LastTaken)

OrderInv == QueueOrder /\ WireOrder /\ SessionContinues

\* Consecutive messages stay so when the next one is added or the first taken.
LEMMA ConsecutiveAppend ==
  ASSUME NEW q \in Seq(Message), NEW m \in Message, Consecutive(q),
         q # <<>> => m.n = After(q[Len(q)].n)
  PROVE  /\ Consecutive(Append(q, m)) /\ Append(q, m) # <<>>
         /\ Append(q, m)[Len(Append(q, m))] = m
         /\ Append(q, m)[1] = IF q = <<>> THEN m ELSE q[1]
<1>1. /\ Len(Append(q, m)) = Len(q) + 1 /\ Append(q, m)[Len(q) + 1] = m
      /\ \A i \in 1..Len(q) : Append(q, m)[i] = q[i]
      /\ Len(q) \in Nat /\ (q # <<>> <=> Len(q) > 0)
  OBVIOUS
<1>2. ASSUME NEW i \in 1..Len(q)
      PROVE  Append(q, m)[i + 1].n = After(Append(q, m)[i].n)
  <2>1. CASE i = Len(q)
    BY <1>1, <2>1
  <2>2. CASE i # Len(q)
    BY <1>1, <2>2 DEF Consecutive
  <2>3. QED
    BY <2>1, <2>2
<1>3. Consecutive(Append(q, m))
  <2>1. (Len(q) + 1) - 1 = Len(q)
    BY <1>1
  <2>2. QED
    BY <1>1, <1>2, <2>1 DEF Consecutive
<1>4. Append(q, m) # <<>> /\ Append(q, m)[Len(Append(q, m))] = m
  BY <1>1
<1>5. Append(q, m)[1] = IF q = <<>> THEN m ELSE q[1]
  BY <1>1
<1>6. QED
  BY <1>3, <1>4, <1>5

LEMMA ConsecutiveTail ==
  ASSUME NEW q \in Seq(Message), q # <<>>, Consecutive(q)
  PROVE  /\ Consecutive(Tail(q))
         /\ Tail(q) # <<>> => /\ Tail(q)[1].n = After(Head(q).n)
                              /\ Tail(q)[Len(Tail(q))] = q[Len(q)]
         /\ Tail(q) = <<>> => Head(q) = q[Len(q)]
<1>1. /\ Len(Tail(q)) = Len(q) - 1 /\ Head(q) = q[1]
      /\ \A i \in 1..(Len(q) - 1) : Tail(q)[i] = q[i + 1]
      /\ Len(q) \in Nat \ {0} /\ (Tail(q) = <<>> <=> Len(q) = 1)
  <2>1. Len(q) \in Nat /\ Len(q) # 0
    OBVIOUS
  <2>2. Len(Tail(q)) = Len(q) - 1 /\ Head(q) = q[1] /\ Tail(q) \in Seq(Message)
    OBVIOUS
  <2>3. \A i \in 1..(Len(q) - 1) : Tail(q)[i] = q[i + 1]
    OBVIOUS
  <2>4. Tail(q) = <<>> <=> Len(Tail(q)) = 0
    BY <2>2
  <2>5. QED
    BY <2>1, <2>2, <2>3, <2>4
<1>2. ASSUME NEW i \in 1..(Len(q) - 2)
      PROVE  Tail(q)[i + 1].n = After(Tail(q)[i].n)
  BY <1>1 DEF Consecutive
<1>3. Consecutive(Tail(q))
  BY <1>1, <1>2 DEF Consecutive
<1>4. ASSUME Tail(q) # <<>>
      PROVE  Tail(q)[1].n = After(Head(q).n) /\ Tail(q)[Len(Tail(q))] = q[Len(q)]
  BY <1>1, <1>4 DEF Consecutive
<1>5. QED
  BY <1>1, <1>3, <1>4

\* A send puts the next number behind the others.
LEMMA SendOrder ==
  ASSUME TypeOK, QueueOrder, NEW kind \in {"config", "ping", "ui"},
         SendMessage(kind), UNCHANGED bytes_remaining
  PROVE  QueueOrder' /\ UNCHANGED NextUp
<1> DEFINE m == [kind |-> kind, n |-> nextn]
<1>1. m \in Message /\ m.n = nextn /\ xQueueOutMessages \in Seq(Message)
  BY DEF TypeOK, Message
<1>2. /\ xQueueOutMessages' = Append(xQueueOutMessages, m)
      /\ nextn' = After(nextn)
  BY DEF SendMessage, After
<1>3. xQueueOutMessages # <<>> =>
        m.n = After(xQueueOutMessages[Len(xQueueOutMessages)].n)
  BY <1>1 DEF QueueOrder
<1>4. /\ Consecutive(xQueueOutMessages') /\ xQueueOutMessages' # <<>>
      /\ xQueueOutMessages'[Len(xQueueOutMessages')] = m
      /\ xQueueOutMessages'[1] =
           IF xQueueOutMessages = <<>> THEN m ELSE xQueueOutMessages[1]
  BY <1>1, <1>2, <1>3, ConsecutiveAppend DEF QueueOrder
<1>5. FirstWaiting' = FirstWaiting
  BY <1>1, <1>4 DEF FirstWaiting
<1>6. QED
  BY <1>1, <1>2, <1>4, <1>5 DEF QueueOrder, NextUp, Writing, Consecutive

\* What TLS puts on the wire follows what it put there before.
LEMMA WireGrows ==
  ASSUME TypeOK, WireOrder, NEW m \in Message, wire' = Append(wire, m),
         UNCHANGED got,
         wire # <<>> \/ got # NoFrame => m.n = After(LastTaken)
  PROVE  WireOrder' /\ LastTaken' = m.n
<1>1. wire \in Seq(Message)
  BY DEF TypeOK
<1>2. wire # <<>> => m.n = After(wire[Len(wire)].n)
  BY DEF LastTaken
<1>3. /\ Consecutive(wire') /\ wire' # <<>> /\ wire'[Len(wire')] = m
      /\ wire'[1] = IF wire = <<>> THEN m ELSE wire[1]
  BY <1>1, <1>2, ConsecutiveAppend DEF WireOrder
<1>4. got # NoFrame => wire'[1].n = After(got.n)
  BY <1>3 DEF WireOrder, LastTaken
<1>5. QED
  BY <1>3, <1>4 DEF WireOrder, LastTaken, Consecutive

LEMMA OrderInit == Init => OrderInv
BY DEF Init, OrderInv, QueueOrder, WireOrder, SessionContinues, Consecutive,
       Writing, InSession

LEMMA OrderStep ==
  ASSUME TypeOK, RecordInvariant, OrderInv, [Next]_vars
  PROVE  OrderInv'
<1> DEFINE QueueSame == UNCHANGED <<xQueueOutMessages, bytes_remaining, nextn>>
           WireSame == UNCHANGED <<wire, got>>
<1>1. QueueSame => QueueOrder' /\ UNCHANGED NextUp
  BY DEF OrderInv, QueueOrder, Consecutive, FirstWaiting, NextUp, Writing
<1>2. WireSame => WireOrder' /\ UNCHANGED LastTaken
  BY DEF OrderInv, WireOrder, Consecutive, LastTaken
<1>3. ASSUME QueueOrder', UNCHANGED NextUp, WireSame, peer' = peer \/ peer' # "up",
             peer = "rst" => peer' = "rst",
             pc' = "handshake" => pc = "handshake",
             InSession' => InSession \/ pc = "handshake"
      PROVE  OrderInv'
  BY <1>2, <1>3 DEF OrderInv, SessionContinues
<1>4. CASE Connect
  BY <1>1, <1>4
     DEF Connect, OrderInv, WireOrder, SessionContinues, Consecutive, InSession, clientVars
<1>5. CASE ConnectFails \/ Handshake \/ HandshakeFails
  BY <1>1, <1>3, <1>5
     DEF ConnectFails, Handshake, HandshakeFails, InSession, clientVars, peerVars
<1>6. CASE RequestConfiguration \/ Ping
  BY <1>3, <1>6, SendOrder
     DEF RequestConfiguration, Ping, InSession, OrderInv, peerVars
<1>7. CASE Dequeue
  <2>1. CASE ~Writing /\ xQueueOutMessages # <<>>
    <3>1. /\ xQueueOutMessages \in Seq(Message)
          /\ bytes_remaining' = Head(xQueueOutMessages)
          /\ xQueueOutMessages' = Tail(xQueueOutMessages) /\ nextn' = nextn
      BY <1>7, <2>1 DEF Dequeue, TypeOK
    <3>2. Writing' /\ Head(xQueueOutMessages) = xQueueOutMessages[1]
      BY <2>1, <3>1, TakeFirst, NoFrameIsNoMessage DEF Writing
    <3>3. QueueOrder'
      BY <2>1, <3>1, ConsecutiveTail DEF OrderInv, QueueOrder, FirstWaiting
    <3>4. UNCHANGED NextUp
      BY <2>1, <3>1, <3>2 DEF NextUp, FirstWaiting
    <3>5. QED
      BY <1>3, <1>7, <3>3, <3>4 DEF Dequeue, InSession, peerVars
  <2>2. CASE ~(~Writing /\ xQueueOutMessages # <<>>)
    BY <1>1, <1>3, <1>7, <2>2 DEF Dequeue, InSession, peerVars
  <2>3. QED
    BY <2>1, <2>2
<1>8. CASE SkipWrite \/ WriteFails \/ WriteWouldBlock
  BY <1>1, <1>3, <1>8
     DEF SkipWrite, WriteFails, WriteWouldBlock, InSession, clientVars, peerVars
<1>9. CASE Write
  <2>1. wire' = Append(wire, bytes_remaining) /\ bytes_remaining \in Message
    BY <1>9 DEF Write, Writing, RecordInvariant, RetriedVerbatim, InSession,
                TypeOK, Frame
  <2>2. wire # <<>> \/ got # NoFrame => bytes_remaining.n = After(LastTaken)
    BY <1>9 DEF Write, OrderInv, SessionContinues, InSession, NextUp
  <2>3. WireOrder' /\ LastTaken' = bytes_remaining.n
    BY <1>9, <2>1, <2>2, WireGrows DEF Write, OrderInv
  <2>4. /\ FirstWaiting' = FirstWaiting /\ ~Writing'
        /\ FirstWaiting = After(bytes_remaining.n)
    BY <1>9 DEF Write, FirstWaiting, Writing, OrderInv, QueueOrder
  <2>5. QueueOrder'
    BY <1>9, <2>4 DEF Write, OrderInv, QueueOrder, Consecutive
  <2>6. SessionContinues'
    BY <1>9, <2>3, <2>4 DEF Write, SessionContinues, NextUp
  <2>7. QED
    BY <2>3, <2>5, <2>6 DEF OrderInv
<1>10. CASE ReadData \/ ReadAgain \/ ReadTimeout \/ ReadDead
  BY <1>1, <1>3, <1>10
     DEF ReadData, ReadAgain, ReadTimeout, ReadDead, InSession, clientVars, peerVars
<1>11. CASE ReadCloseNotify
  <2>1. QueueOrder' /\ UNCHANGED NextUp
    BY <1>1, <1>11 DEF ReadCloseNotify, clientVars
  <2>2. pc' = "finished" /\ ~InSession'
    BY <1>11 DEF ReadCloseNotify, InSession
  <2>3. CASE record # NoFrame /\ wire' = Append(wire, record)
    <3>1. record = bytes_remaining /\ record \in Message
      BY <1>11, <2>3 DEF ReadCloseNotify, RecordInvariant, RetriedVerbatim,
                         InSession, TypeOK, Frame
    <3>2. wire # <<>> \/ got # NoFrame => record.n = After(LastTaken)
      BY <1>11, <2>3, <3>1
         DEF ReadCloseNotify, OrderInv, SessionContinues, InSession, NextUp, Writing
    <3>3. WireOrder'
      BY <1>11, <2>3, <3>1, <3>2, WireGrows DEF ReadCloseNotify, OrderInv
    <3>4. QED
      BY <2>1, <2>2, <3>3 DEF OrderInv, SessionContinues
  <2>4. CASE UNCHANGED <<wire, record>>
    BY <1>2, <1>11, <2>1, <2>2, <2>4 DEF ReadCloseNotify, OrderInv, SessionContinues
  <2>5. QED
    BY <1>11, <2>3, <2>4 DEF ReadCloseNotify
<1>12. CASE Finish \/ Delay
  BY <1>1, <1>2, <1>12
     DEF Finish, Delay, InSession, OrderInv, SessionContinues, clientVars, peerVars
<1>13. CASE UiSend \/ UiResumes
  BY <1>3, <1>13, SendOrder DEF UiSend, UiResumes, InSession, OrderInv, peerVars
<1>14. CASE UiBlocks \/ TenSecondsPass \/ UNCHANGED vars
  BY <1>1, <1>3, <1>14
     DEF UiBlocks, TenSecondsPass, vars, InSession, clientVars, peerVars
<1>15. CASE ServerReads
  <2>1. /\ wire \in Seq(Message) /\ wire # <<>>
        /\ got' = Head(wire) /\ wire' = Tail(wire)
    BY <1>15 DEF ServerReads, TypeOK
  <2>2. WireOrder' /\ LastTaken' = LastTaken
    BY <2>1, ConsecutiveTail DEF OrderInv, WireOrder, LastTaken, Consecutive
  <2>3. QueueOrder' /\ UNCHANGED NextUp
    BY <1>1, <1>15 DEF ServerReads, clientVars
  <2>4. SessionContinues'
    BY <1>15, <2>1, <2>2, <2>3
       DEF ServerReads, OrderInv, SessionContinues, InSession
  <2>5. QED
    BY <2>2, <2>3, <2>4 DEF OrderInv
<1>16. ASSUME NEW e \in PeerFaults, PeerEnd(e)
       PROVE  OrderInv'
  BY <1>1, <1>2, <1>16
     DEF PeerEnd, OrderInv, WireOrder, SessionContinues, Consecutive, InSession, clientVars
<1>17. CASE PeerResets
  BY <1>1, <1>17
     DEF PeerResets, OrderInv, WireOrder, SessionContinues, Consecutive, InSession, clientVars
<1>18. QED
  BY <1>4, <1>5, <1>6, <1>7, <1>8, <1>9, <1>10, <1>11, <1>12, <1>13, <1>14,
     <1>15, <1>16, <1>17 DEF Next, Client, UserInterface, Network

\* Within a session the server sees consecutive messages, whatever was tried
\* again, queued or pinged in between.
THEOREM SessionIsInOrder == Spec => []SessionInOrder
<1>1. TypeOK /\ WireOrder => SessionInOrder
  <2> SUFFICES ASSUME TypeOK, WireOrder PROVE SessionInOrder
    OBVIOUS
  <2>1. wire \in Seq(Message) /\ Len(wire) \in Nat
    BY DEF TypeOK
  <2>2. CASE got = NoFrame
    <3>1. <<>> \o wire = wire
      BY <2>1
    <3>2. QED
      BY <2>2, <3>1 DEF SessionInOrder, WireOrder, Consecutive, After
  <2>3. CASE got # NoFrame
    <3> DEFINE seen == <<got>> \o wire
    <3>1. /\ Len(seen) = Len(wire) + 1 /\ seen[1] = got
          /\ \A i \in 1..Len(wire) : seen[i + 1] = wire[i]
      BY <2>1 DEF TypeOK, Frame
    <3>2. ASSUME NEW i \in 1..Len(wire) PROVE seen[i + 1].n = After(seen[i].n)
      <4>1. CASE i = 1
        BY <2>1, <2>3, <3>1, <4>1 DEF WireOrder
      <4>2. CASE i # 1
        <5>1. i - 1 \in 1..(Len(wire) - 1) /\ (i - 1) + 1 = i
          BY <2>1, <4>2
        <5>2. wire[i].n = After(wire[i - 1].n)
          BY <5>1 DEF WireOrder, Consecutive
        <5>3. seen[i] = wire[i - 1]
          BY <2>1, <3>1, <5>1
        <5>4. QED
          BY <3>1, <5>2, <5>3
      <4>3. QED
        BY <4>1, <4>2
    <3>3. QED
      BY <2>1, <2>3, <3>1, <3>2 DEF SessionInOrder, After
  <2>4. QED
    BY <2>2, <2>3
<1>2. Spec => []OrderInv
  BY TypeCorrect, RecordInit, RecordStep, OrderInit, OrderStep, PTL DEF Spec
<1>3. QED
  BY <1>1, <1>2, TypeCorrect, PTL DEF OrderInv
-----------------------------------------------------------------------------
(* Refinement: a message enters the abstract pipe when the queue accepts it *)
(* and leaves it when TLS has taken it; everything else only moves messages *)
(* from the queue to buffer_out.                                            *)

Numbers(q) == [i \in 1..Len(q) |-> q[i].n]

LEMMA NumbersEmpty == Numbers(<<>>) = <<>>
BY DEF Numbers

LEMMA NumbersAppend ==
  ASSUME NEW q \in Seq(Message), NEW m \in Message
  PROVE  Numbers(Append(q, m)) = Append(Numbers(q), m.n)
<1>1. Numbers(q) \in Seq(Int) /\ Len(Numbers(q)) = Len(q)
  <2>1. Len(q) \in Nat /\ \A i \in 1..Len(q) : q[i] \in Message
    OBVIOUS
  <2>2. \A i \in 1..Len(q) : q[i].n \in Int
    BY <2>1 DEF Message
  <2>3. Numbers(q) \in [1..Len(q) -> Int]
    BY <2>2 DEF Numbers
  <2>4. QED
    BY <2>1, <2>3
<1>2. /\ Len(Append(q, m)) = Len(q) + 1
      /\ \A i \in 1..Len(q) : Append(q, m)[i] = q[i]
      /\ Append(q, m)[Len(q) + 1] = m
  OBVIOUS
<1>3. /\ DOMAIN Append(Numbers(q), m.n) = 1..(Len(q) + 1)
      /\ \A i \in 1..Len(q) : Append(Numbers(q), m.n)[i] = Numbers(q)[i]
      /\ Append(Numbers(q), m.n)[Len(q) + 1] = m.n
  BY <1>1 DEF Message
<1>4. \A i \in 1..Len(q) : Numbers(q)[i] = q[i].n
  BY DEF Numbers
<1>5. Append(Numbers(q), m.n) = [i \in 1..(Len(q) + 1) |-> Append(q, m)[i].n]
  BY <1>1, <1>2, <1>3, <1>4 DEF Message
<1>6. QED
  BY <1>2, <1>5 DEF Numbers

LEMMA NumbersTail ==
  ASSUME NEW q \in Seq(Message), q # <<>>
  PROVE  Numbers(Tail(q)) = Tail(Numbers(q)) /\ Numbers(q) # <<>>
BY DEF Numbers, Message

\* The messages accepted and not handed over are a sequence one longer than the
\* queue at most.
LEMMA BacklogType ==
  ASSUME TypeOK
  PROVE  Backlog \in Seq(Message) /\ Len(Backlog) \in 0..(QueueLen + 1)
BY Constants DEF TypeOK, Backlog, Writing, Frame

\* What enters: a send appends the next number to the pipe.
LEMMA SendEnters ==
  ASSUME TypeOK, NEW kind \in {"config", "ping", "ui"}, SendMessage(kind),
         UNCHANGED bytes_remaining
  PROVE  Pipe!Enter
<1> DEFINE m == [kind |-> kind, n |-> nextn]
<1>1. m \in Message
  BY DEF TypeOK, Message
<1>2. Backlog' = Append(Backlog, m)
  BY <1>1 DEF SendMessage, Backlog, Writing, TypeOK, Frame
<1>3. Numbers(Backlog)' = Append(Numbers(Backlog), nextn)
  BY <1>1, <1>2, NumbersAppend, BacklogType
<1>4. Len(Numbers(Backlog)) < QueueLen + 1
  <2>1. Len(xQueueOutMessages) < QueueLen
    BY Constants DEF SendMessage, Full, TypeOK
  <2>2. Len(Backlog) < QueueLen + 1
    BY <2>1, Constants DEF Backlog, Writing, TypeOK, Frame
  <2>3. QED
    BY <2>2, BacklogType DEF Numbers
<1>5. QED
  BY <1>3, <1>4 DEF Pipe!Enter, SendMessage, Numbers

\* What leaves: the frame in buffer_out is the first of the pipe.
LEMMA WriteLeaves ==
  ASSUME TypeOK, Write
  PROVE  Pipe!Leave
<1>1. Backlog # <<>> /\ Backlog' = Tail(Backlog)
  BY DEF Write, Backlog, Writing, TypeOK, Frame, NoFrame
<1>2. Numbers(Backlog)' = Tail(Numbers(Backlog)) /\ Numbers(Backlog) # <<>>
  BY <1>1, NumbersTail, BacklogType
<1>3. QED
  BY <1>2 DEF Pipe!Leave, Write, Numbers

\* Taking the next message into buffer_out changes nothing of the pipe.
LEMMA DequeueStutters ==
  ASSUME TypeOK, Dequeue
  PROVE  UNCHANGED <<Backlog, nextn>>
<1>1. CASE ~Writing /\ xQueueOutMessages # <<>>
  <2>1. Head(xQueueOutMessages) # NoFrame
    BY <1>1, NoFrameIsNoMessage, TakeFirst DEF TypeOK
  <2>2. xQueueOutMessages =
          <<Head(xQueueOutMessages)>> \o Tail(xQueueOutMessages)
    BY <1>1 DEF TypeOK
  <2>3. Backlog' = <<Head(xQueueOutMessages)>> \o Tail(xQueueOutMessages)
    BY <1>1, <2>1 DEF Dequeue, Backlog, Writing
  <2>4. Backlog = <<>> \o xQueueOutMessages
    BY <1>1 DEF Backlog
  <2>5. <<>> \o xQueueOutMessages = xQueueOutMessages
    BY DEF TypeOK
  <2>6. QED
    BY <2>2, <2>3, <2>4, <2>5 DEF Dequeue
<1>2. CASE ~(~Writing /\ xQueueOutMessages # <<>>)
  BY <1>2 DEF Dequeue, Backlog, Writing
<1>3. QED
  BY <1>1, <1>2

LEMMA PipeInit == Init => Pipe!Init
<1> SUFFICES ASSUME Init PROVE Pipe!Init
  OBVIOUS
<1>1. Backlog = <<>>
  BY DEF Init, Backlog, Writing
<1>2. QED
  BY <1>1, NumbersEmpty DEF Init, Pipe!Init, Numbers

LEMMA PipeStep ==
  ASSUME TypeOK, [Next]_vars
  PROVE  [Pipe!Next]_<<TRUE, Numbers(Backlog), nextn>>
<1> DEFINE Stutters == UNCHANGED <<bytes_remaining, xQueueOutMessages, nextn>>
<1>1. ASSUME Stutters PROVE UNCHANGED <<Numbers(Backlog), nextn>>
  BY <1>1 DEF Backlog, Writing
<1>2. CASE RequestConfiguration \/ Ping \/ UiSend \/ UiResumes
  BY <1>2, SendEnters
     DEF RequestConfiguration, Ping, UiSend, UiResumes, Pipe!Next
<1>3. CASE Write
  BY <1>3, WriteLeaves DEF Pipe!Next
<1>4. CASE Dequeue
  BY <1>4, DequeueStutters
<1>5. CASE Connect \/ ConnectFails \/ Handshake \/ HandshakeFails
  BY <1>1, <1>5 DEF Connect, ConnectFails, Handshake, HandshakeFails, clientVars
<1>6. CASE SkipWrite \/ WriteFails \/ WriteWouldBlock
  BY <1>1, <1>6 DEF SkipWrite, WriteFails, WriteWouldBlock, clientVars
<1>7. CASE ReadData \/ ReadAgain \/ ReadTimeout \/ ReadDead \/ ReadCloseNotify
  BY <1>1, <1>7
     DEF ReadData, ReadAgain, ReadTimeout, ReadDead, ReadCloseNotify, clientVars
<1>8. CASE Finish \/ Delay \/ UiBlocks
  BY <1>1, <1>8 DEF Finish, Delay, UiBlocks, clientVars
<1>9. CASE Network
  BY <1>1, <1>9
     DEF Network, ServerReads, PeerResets, TenSecondsPass, PeerEnd, clientVars
<1>10. CASE UNCHANGED vars
  BY <1>1, <1>10 DEF vars, clientVars
<1>11. QED
  BY <1>2, <1>3, <1>4, <1>5, <1>6, <1>7, <1>8, <1>9, <1>10
     DEF Next, Client, UserInterface

\* The queue, buffer_out and the retries together are one pipe: every message
\* accepted is handed to TLS once and in that order, whatever the sessions do.
THEOREM ThreadImplementsPipe == Spec => ImplementsFramePipe
<1>1. TypeOK /\ [Next]_vars
        => [Pipe!Next]_<<TRUE, Numbers(Backlog), nextn>>
  BY PipeStep
<1>2. QED
  BY <1>1, TypeCorrect, PipeInit, PTL
     DEF Spec, ImplementsFramePipe, Pipe!Spec, Numbers
=============================================================================
