------------------------- MODULE ClientQueueProofs -------------------------
(*****************************************************************************)
(* Theorems about the messages of ClientThread on their way: how far behind  *)
(* the newest each message is, which tells the ones the server has from the  *)
(* ones that are still to be written, and which of the thread's own are      *)
(* unwritten when it pings.                                                  *)
(*****************************************************************************)
EXTENDS ClientThreadProofs

-----------------------------------------------------------------------------
(* Ages.  A message that was followed by a - 1 others is a numbers behind    *)
(* the next one.  Of what is accepted and not handed over the ages are those *)
(* of the positions in the backlog; what the connection has follows without  *)
(* a gap, except that the frame a closed session has sent at last is still   *)
(* in the backlog (overlap), and that a reset loses frames (lost).           *)

Back(next, a) == IF next >= a THEN next - a ELSE next - a + NumMod
MaxAge == QueueLen + WireCap + 2

Closed == {"finished", "delay", "connect", "halted"}

BacklogAges ==
  \A i \in 1..Len(Backlog) : Backlog[i].n = Back(nextn, Len(Backlog) - i + 1)

Ages(overlap, lost) ==
  /\ \A i \in 1..Len(wire) :
       wire[i].n = Back(nextn, Len(Backlog) - overlap + Len(wire) - i + 1)
  /\ got # NoFrame =>
       got.n = Back(nextn, Len(Backlog) - overlap + Len(wire) + lost + 1)
  /\ overlap = 1 => Writing /\ pc \in Closed
  /\ lost > 0 => wire = <<>> /\ peer \in {"rst", "down"}

PeerInv == InSession \/ pc = "handshake" => peer # "down"

WireAges == \E overlap \in {0, 1} : \E lost \in 0..WireCap : Ages(overlap, lost)

AgeInv == BacklogAges /\ WireAges /\ PeerInv

\* Two messages of different age have different numbers.
LEMMA AgesDiffer ==
  ASSUME TypeOK, NEW a \in 1..MaxAge, NEW b \in 1..MaxAge, Back(nextn, a) = Back(nextn, b)
  PROVE  a = b
BY NumAssumption, Constants DEF TypeOK, Back, MaxAge

\* With the next message accepted every other is one number further behind.
LEMMA OneOlder ==
  ASSUME TypeOK, nextn' = (nextn + 1) % NumMod
  PROVE  /\ Back(nextn', 1) = nextn
         /\ \A a \in 1..(MaxAge - 1) : Back(nextn', a + 1) = Back(nextn, a)
<1>1. nextn \in 0..(NumMod - 1) /\ NumMod \in Nat /\ NumMod > MaxAge /\ MaxAge \in Nat
  BY NumAssumption, Constants DEF TypeOK, MaxAge
<1>2. nextn' = IF nextn = NumMod - 1 THEN 0 ELSE nextn + 1
  BY <1>1
<1>3. QED
  BY <1>1, <1>2 DEF Back

\* The lengths that ages are made of.
LEMMA AgeBounds ==
  ASSUME TypeOK
  PROVE  /\ Backlog \in Seq(Message) /\ wire \in Seq(Message)
         /\ Len(Backlog) \in Nat /\ Len(Backlog) <= QueueLen + 1
         /\ Len(wire) \in Nat /\ Len(wire) <= WireCap
         /\ MaxAge = QueueLen + WireCap + 2 /\ MaxAge \in Nat
         /\ (Backlog = <<>> <=> Len(Backlog) = 0) /\ (wire = <<>> <=> Len(wire) = 0)
<1>1. Backlog \in Seq(Message) /\ Len(Backlog) \in 0..(QueueLen + 1)
  BY BacklogType
<1>2. wire \in Seq(Message) /\ Len(wire) <= WireCap
  BY DEF TypeOK
<1>3. Len(wire) \in Nat /\ (wire = <<>> <=> Len(wire) = 0)
  BY <1>2
<1>4. Backlog = <<>> <=> Len(Backlog) = 0
  BY <1>1
<1>5. QED
  BY <1>1, <1>2, <1>3, <1>4, Constants DEF MaxAge

\* A message accepted is the youngest; all others are one older.
LEMMA SendAges ==
  ASSUME TypeOK, BacklogAges, WireAges, NEW kind \in {"config", "ping", "ui"},
         SendMessage(kind), UNCHANGED <<bytes_remaining, peerVars>>,
         pc \in Closed => pc' \in Closed
  PROVE  BacklogAges' /\ WireAges'
<1> DEFINE m == [kind |-> kind, n |-> nextn]
<1>1. m \in Message /\ m.n = nextn
  BY DEF TypeOK, Message
<1>2. Backlog' = Append(Backlog, m)
  BY <1>1 DEF SendMessage, Backlog, Writing, TypeOK, Frame
<1>3. /\ Back(nextn', 1) = nextn
      /\ \A a \in 1..(MaxAge - 1) : Back(nextn', a + 1) = Back(nextn, a)
  BY OneOlder DEF SendMessage
<1>4. /\ Len(Backlog) \in Nat /\ Len(Backlog) <= QueueLen + 1
      /\ Len(wire) \in Nat /\ Len(wire) <= WireCap
      /\ MaxAge = QueueLen + WireCap + 2 /\ MaxAge \in Nat
      /\ QueueLen \in Nat /\ WireCap \in Nat
  BY AgeBounds, Constants
<1>5. /\ Len(Backlog') = Len(Backlog) + 1 /\ Backlog'[Len(Backlog) + 1] = m
      /\ \A i \in 1..Len(Backlog) : Backlog'[i] = Backlog[i]
  BY <1>1, <1>2, AgeBounds
<1>6. Len(Backlog) <= QueueLen
  <2>1. Len(xQueueOutMessages) < QueueLen
    BY Constants DEF SendMessage, Full, TypeOK
  <2>2. QED
    BY <2>1, Constants DEF Backlog, Writing, TypeOK, Frame
<1>7. BacklogAges'
  <2>1. ASSUME NEW i \in 1..Len(Backlog')
        PROVE  Backlog'[i].n = Back(nextn', Len(Backlog') - i + 1)
    <3>1. CASE i = Len(Backlog) + 1
      BY <1>1, <1>3, <1>4, <1>5, <3>1
    <3>2. CASE i # Len(Backlog) + 1
      <4> DEFINE a == Len(Backlog) - i + 1
      <4>1. i \in 1..Len(Backlog) /\ a \in 1..(MaxAge - 1)
            /\ Len(Backlog') - i + 1 = a + 1
        BY <1>4, <1>5, <3>2
      <4>2. Backlog'[i].n = Back(nextn, a)
        BY <1>5, <4>1 DEF BacklogAges
      <4>3. QED
        BY <1>3, <4>1, <4>2
    <3>3. QED
      BY <3>1, <3>2
  <2>2. QED
    BY <2>1 DEF BacklogAges
<1>8. WireAges'
  <2>1. PICK o \in {0, 1}, lost \in 0..WireCap : Ages(o, lost)
    BY DEF WireAges
  <2>2. lost \in Nat /\ lost <= WireCap /\ o \in Nat /\ (lost > 0 => Len(wire) = 0)
        /\ (o = 1 => Len(Backlog) >= 1)
    <3>1. o = 1 => Backlog # <<>>
      BY <2>1 DEF Ages, Backlog, Writing, TypeOK, Frame
    <3>2. QED
      BY <2>1, <1>4, <3>1, AgeBounds DEF Ages
  <2>3. wire' = wire /\ got' = got /\ peer' = peer /\ bytes_remaining' = bytes_remaining
    BY DEF peerVars
  <2>4. ASSUME NEW i \in 1..Len(wire)
        PROVE  wire'[i].n = Back(nextn', Len(Backlog') - o + Len(wire') - i + 1)
    <3> DEFINE a == Len(Backlog) - o + Len(wire) - i + 1
    <3>1. a \in 1..(MaxAge - 1) /\ Len(Backlog') - o + Len(wire') - i + 1 = a + 1
      BY <1>4, <1>5, <1>6, <2>2, <2>3
    <3>2. wire[i].n = Back(nextn, a)
      BY <2>1 DEF Ages
    <3>3. QED
      BY <1>3, <2>3, <3>1, <3>2
  <2>5. ASSUME got' # NoFrame
        PROVE  got'.n = Back(nextn', Len(Backlog') - o + Len(wire') + lost + 1)
    <3> DEFINE a == Len(Backlog) - o + Len(wire) + lost + 1
    <3>1. a \in 1..(MaxAge - 1) /\ Len(Backlog') - o + Len(wire') + lost + 1 = a + 1
      BY <1>4, <1>5, <1>6, <2>2, <2>3
    <3>2. got.n = Back(nextn, a)
      BY <2>1, <2>3, <2>5 DEF Ages
    <3>3. QED
      BY <1>3, <2>3, <3>1, <3>2
  <2>6. Ages(o, lost)'
    BY <2>1, <2>3, <2>4, <2>5 DEF Ages, Writing
  <2>7. QED
    BY <2>6 DEF WireAges
<1>9. QED
  BY <1>7, <1>8

\* At the start nothing is accepted.
LEMMA AgeInit == Init => AgeInv
<1> SUFFICES ASSUME Init PROVE AgeInv
  OBVIOUS
<1>1. Backlog = <<>> /\ wire = <<>> /\ got = NoFrame
  BY DEF Init, Backlog, Writing
<1>2. 0 \in 0..WireCap
  BY Constants
<1>3. BacklogAges
  BY <1>1 DEF BacklogAges
<1>4. Ages(0, 0)
  BY <1>1 DEF Ages
<1>5. PeerInv
  BY DEF Init, PeerInv, InSession
<1>6. QED
  BY <1>2, <1>3, <1>4, <1>5 DEF AgeInv, WireAges

\* The frame being written is the oldest of the backlog.
LEMMA OldestIsWriting ==
  ASSUME TypeOK, Writing
  PROVE  Backlog # <<>> /\ Backlog[1] = bytes_remaining /\ bytes_remaining \in Message
BY DEF TypeOK, Backlog, Writing, Frame

\* As long as the connection stands nothing that was sent is lost.
LEMMA NothingLost ==
  ASSUME TypeOK, AgeInv, pc \notin Closed, peer \notin {"rst", "down"}
  PROVE  Ages(0, 0)
<1>1. PICK o \in {0, 1}, lost \in 0..WireCap : Ages(o, lost)
  BY DEF AgeInv, WireAges
<1>2. o = 0 /\ lost = 0
  BY <1>1, Constants DEF Ages
<1>3. QED
  BY <1>1, <1>2

\* A frame that moves from the backlog to the wire leaves the other ages.
LEMMA SameAge ==
  ASSUME NEW b \in Nat, NEW b2 \in Nat, NEW w \in Nat, NEW i \in Nat,
         NEW o \in {0, 1}, b2 - o = b - 1
  PROVE  b2 - o + (w + 1) - i + 1 = b - 0 + w - i + 1
OBVIOUS

\* A frame TLS has taken is the first of the backlog; it is put behind what is
\* on the wire, and leaves the backlog or, when the session closes, overlaps it.
LEMMA WireAppendAges ==
  ASSUME TypeOK, Ages(0, 0), BacklogAges, Writing, nextn' = nextn, got' = got,
         wire' = Append(wire, bytes_remaining), NEW o \in {0, 1},
         Len(Backlog') \in Nat, Len(Backlog') - o = Len(Backlog) - 1,
         o = 1 => Writing' /\ pc' \in Closed
  PROVE  WireAges'
<1>1. /\ Len(Backlog) \in Nat /\ Len(wire) \in Nat /\ wire \in Seq(Message)
      /\ Len(Backlog) >= 1 /\ Backlog[1] = bytes_remaining
      /\ bytes_remaining \in Message
  BY AgeBounds, OldestIsWriting
<1>2. bytes_remaining.n = Back(nextn, Len(Backlog))
  <2>1. 1 \in 1..Len(Backlog) /\ Len(Backlog) - 1 + 1 = Len(Backlog)
    BY <1>1
  <2>2. QED
    BY <1>1, <2>1 DEF BacklogAges
<1>3. /\ Len(wire') = Len(wire) + 1 /\ wire'[Len(wire) + 1] = bytes_remaining
      /\ \A i \in 1..Len(wire) : wire'[i] = wire[i]
  BY <1>1
<1>4. ASSUME NEW i \in 1..Len(wire')
      PROVE  wire'[i].n = Back(nextn', Len(Backlog') - o + Len(wire') - i + 1)
  <2>1. CASE i = Len(wire) + 1
    <3>1. Len(Backlog') - o + Len(wire') - i + 1 = Len(Backlog)
      BY <1>1, <1>3, <2>1
    <3>2. QED
      BY <1>2, <1>3, <2>1, <3>1
  <2>2. CASE i # Len(wire) + 1
    <3>1. i \in 1..Len(wire)
      BY <1>1, <1>3, <2>2
    <3>2. Len(Backlog') - o + Len(wire') - i + 1
            = Len(Backlog) - 0 + Len(wire) - i + 1
      <4>1. i \in Nat /\ Len(Backlog) \in Nat /\ Len(wire) \in Nat
        BY <1>1, <3>1
      <4>2. QED
        BY ONLY <4>1, <1>3, SameAge, Len(Backlog') \in Nat, o \in {0, 1},
                Len(Backlog') - o = Len(Backlog) - 1
    <3>3. wire[i].n = Back(nextn, Len(Backlog) - 0 + Len(wire) - i + 1)
      BY <3>1 DEF Ages
    <3>4. QED
      BY <1>3, <3>1, <3>2, <3>3
  <2>3. QED
    BY <2>1, <2>2
<1>5. ASSUME got' # NoFrame
      PROVE  got'.n = Back(nextn', Len(Backlog') - o + Len(wire') + 0 + 1)
  <2>1. Len(Backlog') - o + Len(wire') + 0 + 1 = Len(Backlog) - 0 + Len(wire) + 0 + 1
    BY <1>1, <1>3
  <2>2. QED
    BY <1>5, <2>1 DEF Ages
<1>6. Ages(o, 0)'
  BY <1>4, <1>5 DEF Ages
<1>7. 0 \in 0..WireCap
  BY Constants
<1>8. QED
  BY <1>6, <1>7 DEF WireAges

\* Where neither the messages nor the wire change the ages stay, as long as no
\* closed session opens and no lost connection comes back.
LEMMA AgesStay ==
  ASSUME BacklogAges, WireAges, UNCHANGED <<Backlog, nextn, wire, got>>,
         pc \in Closed => pc' \in Closed /\ bytes_remaining' = bytes_remaining,
         peer \in {"rst", "down"} => peer' \in {"rst", "down"}
  PROVE  BacklogAges' /\ WireAges'
<1>1. BacklogAges'
  BY DEF BacklogAges
<1>2. PICK o \in {0, 1}, lost \in 0..WireCap : Ages(o, lost)
  BY DEF WireAges
<1>3. Ages(o, lost)'
  BY <1>2 DEF Ages, Writing
<1>4. QED
  BY <1>1, <1>3 DEF WireAges

\* A reset drops what is on the wire.
LEMMA ResetAges ==
  ASSUME TypeOK, BacklogAges, WireAges, peer \notin {"rst", "down"},
         peer' = "rst", wire' = <<>>, UNCHANGED <<pc, clientVars, got>>
  PROVE  BacklogAges' /\ WireAges'
<1>1. Backlog' = Backlog /\ nextn' = nextn /\ Writing' = Writing
  BY DEF clientVars, Backlog, Writing
<1>2. BacklogAges'
  BY <1>1 DEF BacklogAges
<1>3. PICK o \in {0, 1}, lost \in 0..WireCap : Ages(o, lost)
  BY DEF WireAges
<1>4. lost = 0
  BY <1>3, Constants DEF Ages
<1>5. Len(wire) \in 0..WireCap /\ Len(Backlog) \in Nat /\ Len(wire') = 0
  BY AgeBounds, Constants
<1>6. Len(Backlog') - o + Len(wire') + Len(wire) + 1
        = Len(Backlog) - o + Len(wire) + lost + 1
  BY <1>1, <1>4, <1>5
<1>7. \A i \in 1..Len(wire') : FALSE
  BY <1>5
<1>8. Back(nextn', Len(Backlog') - o + Len(wire') + Len(wire) + 1)
        = Back(nextn, Len(Backlog) - o + Len(wire) + lost + 1)
  BY <1>1, <1>6
<1>9. /\ got' # NoFrame =>
           got'.n = Back(nextn', Len(Backlog') - o + Len(wire') + Len(wire) + 1)
      /\ o = 1 => Writing' /\ pc' \in Closed
  BY <1>1, <1>3, <1>8 DEF Ages
<1> DEFINE dropped == Len(wire)
<1>10. \E d \in 0..WireCap : Ages(o, d)'
  <2>1. dropped \in 0..WireCap
    BY <1>5
  <2>2. /\ \A i \in 1..Len(wire') :
            wire'[i].n = Back(nextn', Len(Backlog') - o + Len(wire') - i + 1)
        /\ got' # NoFrame =>
             got'.n = Back(nextn', Len(Backlog') - o + Len(wire') + dropped + 1)
        /\ o = 1 => Writing' /\ pc' \in Closed
        /\ dropped > 0 => wire' = <<>> /\ peer' \in {"rst", "down"}
    BY <1>7, <1>9
  <2> HIDE DEF dropped
  <2>3. QED
    BY <2>1, <2>2 DEF Ages
<1>11. QED
  BY <1>2, <1>10 DEF WireAges

\* Only the end of a session closes the connection (line 336).
LEMMA PeerStep == PeerInv /\ [Next]_vars => PeerInv'
<1> SUFFICES ASSUME PeerInv, [Next]_vars PROVE PeerInv'
  OBVIOUS
<1> USE DEF PeerInv, InSession, peerVars
<1>1. CASE Connect \/ ConnectFails \/ Handshake \/ HandshakeFails
  BY <1>1 DEF Connect, ConnectFails, Handshake, HandshakeFails
<1>2. CASE RequestConfiguration \/ Ping \/ Dequeue
  BY <1>2 DEF RequestConfiguration, Ping, Dequeue
<1>3. CASE SkipWrite \/ WriteFails \/ Write \/ WriteWouldBlock
  BY <1>3 DEF SkipWrite, WriteFails, Write, WriteWouldBlock
<1>4. CASE ReadData \/ ReadAgain \/ ReadTimeout \/ ReadDead \/ ReadCloseNotify
  BY <1>4 DEF ReadData, ReadAgain, ReadTimeout, ReadDead, ReadCloseNotify
<1>5. CASE Finish \/ Delay
  BY <1>5 DEF Finish, Delay
<1>6. CASE UserInterface
  BY <1>6 DEF UserInterface, UiSend, UiBlocks, UiResumes
<1>7. CASE ServerReads \/ PeerResets \/ TenSecondsPass
  BY <1>7 DEF ServerReads, PeerResets, TenSecondsPass
<1>8. ASSUME NEW e \in PeerFaults, PeerEnd(e) PROVE PeerInv'
  BY <1>8, Constants DEF PeerEnd, PeerEnds
<1>9. CASE UNCHANGED vars
  BY <1>9 DEF vars
<1>10. QED
  BY <1>1, <1>2, <1>3, <1>4, <1>5, <1>6, <1>7, <1>8, <1>9
     DEF Next, Client, UserInterface, Network

\* Every step keeps the ages.
LEMMA AgeStep ==
  ASSUME TypeOK, RecordInvariant, AgeInv, [Next]_vars
  PROVE  BacklogAges' /\ WireAges'
<1>1. BacklogAges /\ WireAges /\ PeerInv
  BY DEF AgeInv
<1>2. clientVars' = clientVars => UNCHANGED <<Backlog, nextn, bytes_remaining>>
  BY DEF clientVars, Backlog, Writing
<1>3. CASE Connect
  <2>1. BacklogAges'
    BY <1>1, <1>2, <1>3 DEF Connect, BacklogAges
  <2>2. wire' = <<>> /\ got' = NoFrame
    BY <1>3 DEF Connect
  <2>3. Ages(0, 0)'
    BY <2>2 DEF Ages
  <2>4. QED
    BY <2>1, <2>3, Constants DEF WireAges
<1>4. CASE ConnectFails \/ Handshake \/ HandshakeFails
  BY <1>1, <1>2, <1>4, AgesStay
     DEF ConnectFails, Handshake, HandshakeFails, Closed, peerVars
<1>5. CASE RequestConfiguration
  <2>1. pc \notin Closed /\ SendMessage("config")
        /\ UNCHANGED <<bytes_remaining, peerVars>>
    BY <1>5 DEF RequestConfiguration, Closed
  <2>2. QED
    BY <1>1, <2>1, SendAges
<1>6. CASE Ping
  <2>1. pc \notin Closed /\ SendMessage("ping")
        /\ UNCHANGED <<bytes_remaining, peerVars>>
    BY <1>6 DEF Ping, Closed
  <2>2. QED
    BY <1>1, <2>1, SendAges
<1>7. CASE UiSend \/ UiResumes
  <2>1. SendMessage("ui") /\ pc' = pc /\ UNCHANGED <<bytes_remaining, peerVars>>
    BY <1>7 DEF UiSend, UiResumes
  <2>2. QED
    BY <1>1, <2>1, SendAges
<1>8. CASE Dequeue
  <2>1. UNCHANGED <<Backlog, nextn>>
    BY <1>8, DequeueStutters
  <2>2. pc \notin Closed /\ UNCHANGED <<wire, got, peer>>
    BY <1>8 DEF Dequeue, Closed, peerVars
  <2>3. QED
    BY <1>1, <2>1, <2>2, AgesStay
<1>9. CASE Write
  <2>1. /\ wire' = Append(wire, bytes_remaining) /\ Writing
        /\ nextn' = nextn /\ got' = got
    BY <1>9 DEF Write, Writing, RecordInvariant, RetriedVerbatim, InSession
  <2>2. Ages(0, 0)
    BY <1>9, NothingLost DEF Write, Closed, PeerInv, AgeInv, InSession
  <2>3. Backlog # <<>> /\ Backlog' = Tail(Backlog)
    BY <1>9 DEF Write, Backlog, Writing, TypeOK, Frame, NoFrame
  <2>4. /\ Len(Backlog') = Len(Backlog) - 1 /\ Len(Backlog) \in Nat
        /\ Len(Backlog) >= 1
        /\ \A i \in 1..(Len(Backlog) - 1) : Backlog'[i] = Backlog[i + 1]
    BY <2>3, AgeBounds
  <2>5. ASSUME NEW i \in 1..Len(Backlog')
        PROVE  Backlog'[i].n = Back(nextn', Len(Backlog') - i + 1)
    <3>1. i + 1 \in 1..Len(Backlog)
          /\ Len(Backlog') - i + 1 = Len(Backlog) - (i + 1) + 1
          /\ Backlog'[i] = Backlog[i + 1]
      BY <2>4
    <3>2. Backlog[i + 1].n = Back(nextn, Len(Backlog) - (i + 1) + 1)
      BY <1>1, <3>1 DEF BacklogAges
    <3>3. QED
      BY <2>1, <3>1, <3>2
  <2>6. WireAges'
    <3>1. Len(Backlog') \in Nat /\ Len(Backlog') - 0 = Len(Backlog) - 1
      BY <2>4
    <3>2. QED
      BY <1>1, <2>1, <2>2, <3>1, WireAppendAges
  <2>7. QED
    BY <2>5, <2>6 DEF BacklogAges
<1>10. CASE SkipWrite \/ WriteFails \/ WriteWouldBlock
  BY <1>1, <1>2, <1>10, AgesStay
     DEF SkipWrite, WriteFails, WriteWouldBlock, Closed, peerVars
<1>11. CASE ReadData
  <2>1. UNCHANGED <<Backlog, nextn, wire, got, peer>> /\ pc \notin Closed
    BY <1>11 DEF ReadData, Backlog, Writing, Closed, peerVars
  <2>2. QED
    BY <1>1, <2>1, AgesStay
<1>12. CASE ReadAgain \/ ReadTimeout \/ ReadDead
  BY <1>1, <1>2, <1>12, AgesStay
     DEF ReadAgain, ReadTimeout, ReadDead, Closed, peerVars
<1>13. CASE ReadCloseNotify
  <2>1. UNCHANGED <<Backlog, nextn, got, peer, bytes_remaining>>
    BY <1>2, <1>13 DEF ReadCloseNotify
  <2>2. CASE record # NoFrame /\ wire' = Append(wire, record)
    <3>1. record = bytes_remaining /\ Writing
      BY <1>13, <2>2 DEF ReadCloseNotify, RecordInvariant, RetriedVerbatim,
                         InSession, Writing
    <3>2. Ages(0, 0)
      BY <1>13, NothingLost DEF ReadCloseNotify, Closed
    <3>3. Writing' /\ pc' \in Closed
      BY <1>13, <2>1, <3>1 DEF ReadCloseNotify, Writing, Closed
    <3>4. Len(Backlog') \in Nat /\ Len(Backlog') - 1 = Len(Backlog) - 1
      BY <2>1, AgeBounds
    <3>5. WireAges'
      BY <1>1, <2>1, <2>2, <3>1, <3>2, <3>3, <3>4, WireAppendAges
    <3>6. QED
      BY <1>1, <2>1, <3>5 DEF BacklogAges
  <2>3. CASE UNCHANGED <<wire, record>>
    BY <1>1, <1>13, <2>1, <2>3, AgesStay DEF ReadCloseNotify, Closed
  <2>4. QED
    BY <1>13, <2>2, <2>3 DEF ReadCloseNotify
<1>14. CASE Finish \/ Delay
  BY <1>1, <1>2, <1>14, AgesStay DEF Finish, Delay, Closed, peerVars
<1>15. CASE UiBlocks \/ UNCHANGED vars
  BY <1>1, <1>2, <1>15, AgesStay DEF UiBlocks, vars, peerVars
<1>16. CASE TenSecondsPass
  <2>1. UNCHANGED <<Backlog, nextn, wire, got, peer, pc, bytes_remaining>>
    BY <1>16 DEF TenSecondsPass, Backlog, Writing, peerVars
  <2>2. QED
    BY <1>1, <2>1, AgesStay
<1>17. CASE ServerReads
  <2>1. /\ got' = Head(wire) /\ wire' = Tail(wire) /\ wire # <<>>
        /\ UNCHANGED <<Backlog, nextn, bytes_remaining, pc, peer>>
    BY <1>2, <1>17 DEF ServerReads
  <2>2. PICK o \in {0, 1}, lost \in 0..WireCap : Ages(o, lost)
    BY <1>1 DEF WireAges
  <2>3. lost = 0
    BY <2>1, <2>2, Constants DEF Ages
  <2>4. /\ Len(wire) \in Nat /\ Len(wire) >= 1 /\ Len(Backlog) \in Nat
        /\ wire \in Seq(Message)
    BY <2>1, AgeBounds
  <2>5. /\ Len(wire') = Len(wire) - 1 /\ got' = wire[1]
        /\ \A i \in 1..(Len(wire) - 1) : wire'[i] = wire[i + 1]
    BY <2>1, <2>4
  <2>6. ASSUME NEW i \in 1..Len(wire')
        PROVE  wire'[i].n = Back(nextn', Len(Backlog') - o + Len(wire') - i + 1)
    <3>1. /\ i + 1 \in 1..Len(wire) /\ wire'[i] = wire[i + 1]
          /\ Len(Backlog') - o + Len(wire') - i + 1
               = Len(Backlog) - o + Len(wire) - (i + 1) + 1
      BY <2>1, <2>4, <2>5
    <3>2. wire[i + 1].n = Back(nextn, Len(Backlog) - o + Len(wire) - (i + 1) + 1)
      BY <2>2, <3>1 DEF Ages
    <3>3. QED
      BY <2>1, <3>1, <3>2
  <2>7. got'.n = Back(nextn', Len(Backlog') - o + Len(wire') + 0 + 1)
    <3>1. /\ 1 \in 1..Len(wire)
          /\ Len(Backlog') - o + Len(wire') + 0 + 1
               = Len(Backlog) - o + Len(wire) - 1 + 1
      BY <2>1, <2>4, <2>5
    <3>2. wire[1].n = Back(nextn, Len(Backlog) - o + Len(wire) - 1 + 1)
      BY <2>2, <3>1 DEF Ages
    <3>3. QED
      BY <2>1, <2>5, <3>1, <3>2
  <2>8. Ages(o, 0)'
    BY <2>1, <2>2, <2>6, <2>7 DEF Ages, Writing
  <2>9. 0 \in 0..WireCap
    BY Constants
  <2>10. WireAges'
    BY <2>2, <2>8, <2>9 DEF WireAges
  <2>11. QED
    BY <1>1, <2>1, <2>10 DEF BacklogAges
<1>18. ASSUME NEW e \in PeerFaults, PeerEnd(e)
       PROVE  BacklogAges' /\ WireAges'
  <2>1. e \in PeerEnds /\ peer = "up" /\ peer' = e /\ UNCHANGED <<pc, clientVars, got>>
    BY <1>18, Constants DEF PeerEnd
  <2>2. CASE e = "rst"
    <3>1. wire' = <<>>
      BY <1>18, <2>2 DEF PeerEnd
    <3>2. QED
      BY <1>1, <2>1, <2>2, <3>1, ResetAges
  <2>3. CASE e # "rst"
    <3>1. wire' = wire
      BY <1>18, <2>3 DEF PeerEnd
    <3>2. QED
      BY <1>1, <1>2, <2>1, <2>3, <3>1, AgesStay
  <2>4. QED
    BY <2>2, <2>3
<1>19. CASE PeerResets
  <2>1. /\ peer \notin {"rst", "down"} /\ peer' = "rst" /\ wire' = <<>>
        /\ UNCHANGED <<pc, clientVars, got>>
    BY <1>19 DEF PeerResets
  <2>2. QED
    BY <1>1, <2>1, ResetAges
<1>20. QED
  BY <1>3, <1>4, <1>5, <1>6, <1>7, <1>8, <1>9, <1>10, <1>11, <1>12, <1>13,
     <1>14, <1>15, <1>16, <1>17, <1>18, <1>19
     DEF Next, Client, UserInterface, Network

\* What is both sent and still to be written has the same age twice.
LEMMA SentAndUnwritten ==
  ASSUME TypeOK, AgeInv PROVE ResentOnlyAfterClose
<1> SUFFICES ASSUME NEW m \in ToSet(wire) \cup {got}, m # NoFrame, m \in ToSet(Backlog)
             PROVE  /\ m = bytes_remaining /\ m = Last(<<got>> \o wire)
                    /\ pc \in {"finished", "delay", "connect", "halted"}
  BY DEF ResentOnlyAfterClose
<1>1. PICK o \in {0, 1}, lost \in 0..WireCap : Ages(o, lost)
  BY DEF AgeInv, WireAges
<1>2. /\ Len(Backlog) \in Nat /\ Len(Backlog) <= QueueLen + 1
      /\ Len(wire) \in Nat /\ Len(wire) <= WireCap
      /\ wire \in Seq(Message) /\ Backlog \in Seq(Message)
      /\ MaxAge = QueueLen + WireCap + 2 /\ QueueLen \in Nat /\ WireCap \in Nat
  BY AgeBounds, Constants
<1>3. PICK j \in 1..Len(Backlog) : m = Backlog[j]
  BY <1>2 DEF ToSet
<1>4. /\ m.n = Back(nextn, Len(Backlog) - j + 1)
      /\ Len(Backlog) - j + 1 \in 1..MaxAge /\ Len(Backlog) - j + 1 <= Len(Backlog)
  BY <1>2, <1>3 DEF AgeInv, BacklogAges
<1>5. ASSUME NEW a \in 1..MaxAge, m.n = Back(nextn, a), a >= Len(Backlog) - o + 1
      PROVE  o = 1 /\ a = Len(Backlog) /\ j = 1
  <2>1. a = Len(Backlog) - j + 1
    BY <1>4, <1>5, AgesDiffer
  <2>2. QED
    BY <1>2, <1>5, <2>1
<1>6. /\ Len(<<got>> \o wire) = Len(wire) + 1 /\ (<<got>> \o wire)[1] = got
      /\ \A i \in 1..Len(wire) : (<<got>> \o wire)[i + 1] = wire[i]
  BY <1>2 DEF TypeOK, Frame
<1>7. o = 1 /\ j = 1 /\ m = (<<got>> \o wire)[Len(wire) + 1]
  <2>1. CASE m \in ToSet(wire)
    <3>0. DOMAIN wire = 1..Len(wire)
      BY <1>2
    <3>1. PICK i \in 1..Len(wire) : m = wire[i]
      BY <2>1, <3>0 DEF ToSet
    <3> DEFINE a == Len(Backlog) - o + Len(wire) - i + 1
    <3>2. m.n = Back(nextn, a)
      BY <1>1, <3>1 DEF Ages
    <3>3. a \in 1..MaxAge /\ a >= Len(Backlog) - o + 1
      BY <1>2, <1>3
    <3>4. o = 1 /\ a = Len(Backlog) /\ j = 1
      BY <1>5, <3>2, <3>3
    <3>5. i = Len(wire)
      BY <1>2, <3>4
    <3>6. QED
      BY <1>6, <3>1, <3>4, <3>5
  <2>2. CASE m = got
    <3> DEFINE a == Len(Backlog) - o + Len(wire) + lost + 1
    <3>1. m.n = Back(nextn, a)
      BY <1>1, <2>2 DEF Ages
    <3>2. lost > 0 => Len(wire) = 0
      BY <1>1, <1>2 DEF Ages
    <3>3. a \in 1..MaxAge /\ a >= Len(Backlog) - o + 1
      BY <1>2, <1>3, <3>2
    <3>4. o = 1 /\ a = Len(Backlog) /\ j = 1
      BY <1>5, <3>1, <3>3
    <3>5. Len(wire) = 0
      BY <1>2, <3>4
    <3>6. QED
      BY <1>6, <2>2, <3>4, <3>5
  <2>3. QED
    BY <2>1, <2>2
<1>8. Writing /\ pc \in Closed
  BY <1>1, <1>7 DEF Ages
<1>9. m = bytes_remaining
  BY <1>3, <1>7, <1>8, OldestIsWriting
<1>10. m = Last(<<got>> \o wire)
  BY <1>6, <1>7 DEF Last
<1>11. QED
  BY <1>8, <1>9, <1>10 DEF Closed

\* A message the server has and the thread counts as unwritten, so that it will
\* come again, is the last one of a session that has ended: a close_notify that
\* meets a write TLS could not finish sends the record (line 325), and nothing
\* else makes the server see a message twice.
THEOREM OnlyTheLastComesAgain == Spec => []ResentOnlyAfterClose
<1>1. AgeInv' <=> BacklogAges' /\ WireAges' /\ PeerInv'
  BY DEF AgeInv
<1>2. TypeOK /\ RecordInvariant /\ AgeInv /\ [Next]_vars => AgeInv'
  BY <1>1, AgeStep, PeerStep DEF AgeInv
<1>3. TypeOK /\ AgeInv => ResentOnlyAfterClose
  BY SentAndUnwritten
<1>4. QED
  BY <1>2, <1>3, AgeInit, TypeCorrect, RecordInit, RecordStep, PTL DEF Spec

-----------------------------------------------------------------------------
(* Pings.  The thread waits for room in a queue only it empties, so what     *)
(* counts is what a ping may find there.  A session that has been silent for *)
(* ten seconds has nothing to write, or the connection refuses it.  What is  *)
(* silent since before the session writes the configuration request first.   *)

OnlyUi == \A m \in ToSet(Backlog) : m.kind = "ui"

\* A message of the thread is unwritten in an overdue session only on its way to
\* the next write, or behind one that was refused.
Drained == \/ OnlyUi \/ record # NoFrame
           \/ pc = "loop" /\ Backlog # <<>>
           \/ pc = "write" /\ Writing

PingInv == /\ InSession /\ overdue /\ pc # "request" => Drained
           /\ pc = "ping" => overdue

\* A message accepted makes the backlog one to write; one of the user interface
\* is none of the thread's own.
LEMMA UiEnters ==
  ASSUME TypeOK, NEW kind \in {"config", "ping", "ui"}, SendMessage(kind),
         UNCHANGED bytes_remaining
  PROVE  Backlog' # <<>> /\ (OnlyUi /\ kind = "ui" => OnlyUi')
<1> DEFINE m == [kind |-> kind, n |-> nextn]
<1>1. m \in Message /\ m.kind = kind
  BY DEF TypeOK, Message
<1>2. Backlog' = Append(Backlog, m)
  BY <1>1 DEF SendMessage, Backlog, Writing, TypeOK, Frame
<1>3. /\ Backlog \in Seq(Message) /\ Backlog' \in Seq(Message)
      /\ Len(Backlog) \in Nat /\ Len(Backlog') = Len(Backlog) + 1
      /\ Backlog'[Len(Backlog) + 1] = m
      /\ \A i \in 1..Len(Backlog) : Backlog'[i] = Backlog[i]
  <2> HIDE DEF m
  <2>1. QED
    BY <1>1, <1>2, BacklogType
<1>4. ASSUME OnlyUi, kind = "ui", NEW x \in ToSet(Backlog') PROVE x.kind = "ui"
  <2>1. PICK i \in 1..(Len(Backlog) + 1) : x = Backlog'[i]
    BY <1>3, <1>4 DEF ToSet
  <2>2. CASE i = Len(Backlog) + 1
    BY <1>1, <1>3, <1>4, <2>1, <2>2
  <2>3. CASE i \in 1..Len(Backlog)
    BY <1>3, <1>4, <2>1, <2>3 DEF OnlyUi, ToSet
  <2>4. QED
    BY <1>3, <2>2, <2>3
<1>5. Backlog' # <<>>
  <2> HIDE DEF m
  <2>1. QED
    BY <1>3
<1>6. QED
  BY <1>4, <1>5 DEF OnlyUi

LEMMA PingInit == Init => PingInv
BY DEF Init, PingInv, InSession

LEMMA PingStep ==
  ASSUME TypeOK, PingInv, [Next]_vars PROVE PingInv'
<1> USE DEF PingInv, Drained, InSession, clientVars, tlsVars, peerVars
<1>1. UNCHANGED <<xQueueOutMessages, bytes_remaining>> =>
        UNCHANGED <<OnlyUi, Writing, Backlog>>
  BY DEF OnlyUi, Writing, Backlog
<1>2. CASE Connect \/ ConnectFails \/ Handshake \/ HandshakeFails
  BY <1>2 DEF Connect, ConnectFails, Handshake, HandshakeFails
<1>3. CASE RequestConfiguration
  <2>1. Backlog' # <<>>
    BY <1>3, UiEnters DEF RequestConfiguration
  <2>2. QED
    BY <1>3, <2>1 DEF RequestConfiguration
<1>4. CASE Ping
  <2>1. Backlog' # <<>>
    BY <1>4, UiEnters DEF Ping
  <2>2. QED
    BY <1>4, <2>1 DEF Ping
<1>5. CASE Dequeue
  <2>1. Backlog' = Backlog /\ (OnlyUi' <=> OnlyUi)
    BY <1>5, DequeueStutters DEF OnlyUi
  <2>2. Backlog # <<>> => Writing'
    <3>1. CASE Writing
      BY <1>5, <3>1 DEF Dequeue, Writing
    <3>2. CASE ~Writing /\ xQueueOutMessages # <<>>
      BY <1>5, <3>2, TakeFirst, NoFrameIsNoMessage DEF Dequeue, Writing, TypeOK
    <3>3. CASE ~Writing /\ xQueueOutMessages = <<>>
      BY <3>3 DEF Backlog
    <3>4. QED
      BY <3>1, <3>2, <3>3
  <2>3. QED
    BY <1>5, <2>1, <2>2 DEF Dequeue
<1>6. CASE SkipWrite \/ WriteFails
  BY <1>1, <1>6 DEF SkipWrite, WriteFails
<1>7. CASE Write
  BY <1>7 DEF Write
<1>8. CASE WriteWouldBlock
  <2>1. record' # NoFrame
    BY <1>8 DEF WriteWouldBlock, Writing
  <2>2. QED
    BY <1>8, <2>1 DEF WriteWouldBlock
<1>9. CASE ReadData
  BY <1>9 DEF ReadData
<1>10. CASE ReadAgain \/ ReadTimeout \/ ReadDead \/ ReadCloseNotify
  BY <1>1, <1>10 DEF ReadAgain, ReadTimeout, ReadDead, ReadCloseNotify
<1>11. CASE Finish \/ Delay
  BY <1>11 DEF Finish, Delay
<1>12. CASE UiSend \/ UiResumes
  <2>1. Backlog' # <<>> /\ (OnlyUi => OnlyUi') /\ Writing' = Writing
    BY <1>12, UiEnters DEF UiSend, UiResumes, Writing
  <2>2. QED
    BY <1>12, <2>1 DEF UiSend, UiResumes
<1>13. CASE UiBlocks \/ ServerReads \/ PeerResets \/ UNCHANGED vars
  BY <1>1, <1>13 DEF UiBlocks, ServerReads, PeerResets, vars
<1>14. CASE TenSecondsPass
  <2>1. Backlog = <<>> => OnlyUi
    BY DEF OnlyUi, ToSet
  <2>2. QED
    BY <1>1, <1>14, <2>1 DEF TenSecondsPass
<1>15. ASSUME NEW e \in PeerFaults, PeerEnd(e) PROVE PingInv'
  BY <1>1, <1>15 DEF PeerEnd
<1>16. QED
  BY <1>2, <1>3, <1>4, <1>5, <1>6, <1>7, <1>8, <1>9, <1>10, <1>11, <1>12, <1>13,
     <1>14, <1>15
     DEF Next, Client, UserInterface, Network

\* When the thread pings (line 318) none of its earlier messages is unwritten,
\* the configuration request of this session and the pings of the last included,
\* unless the connection is refusing a write: for every length of the queue and
\* every way the sessions end.
THEOREM PingsDoNotPileUp == Spec => []PingsDoNotPile
<1>1. PingInv => PingsDoNotPile
  BY DEF PingInv, PingsDoNotPile, Drained, OnlyUi, InSession
<1>2. QED
  BY <1>1, PingInit, PingStep, TypeCorrect, PTL DEF Spec
=============================================================================
