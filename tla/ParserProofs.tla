---------------------------- MODULE ParserProofs ----------------------------
(***************************************************************************)
(* Theorems about Parser for every size of header, data and byte: a frame  *)
(* the parser sees from its start is delivered whole, and after a cut the  *)
(* parser is in step again within MaxStray bytes.                          *)
(***************************************************************************)
EXTENDS Parser, TLAPS

-----------------------------------------------------------------------------
(* The stream: what a message looks like, and where in its frame the parser  *)
(* is.                                                                      *)

\* The bytes the data of this stream consist of.
DataBytes == IF cuts THEN CutBytes ELSE WholeBytes

\* A message with data of the given bytes, as Encode makes it.
Shaped(m, bytes) ==
  /\ m \in Seq(Byte) /\ Len(m) \in HeaderSize..MaxTotal
  /\ m[1] \in Ids /\ m[3] = 0
  /\ m[2] = IF SizeCounts = "message" THEN Len(m) ELSE Len(m) - HeaderSize
  /\ \A i \in 4..HeaderSize : m[i] = 0
  /\ \A i \in (HeaderSize + 1)..Len(m) : m[i] \in bytes

\* Bytes of the frame that the parser has taken.
Position == Len(sent) + 2 - Len(rest)

\* What is left of a frame is the end of it.
StreamInv ==
  /\ started => Shaped(sent, DataBytes)
  /\ rest # <<>> =>
       /\ Shaped(sent, DataBytes)
       /\ Len(rest) <= Len(sent) + 2
       /\ \A i \in 1..Len(rest) : rest[i] = Frame(sent)[Position + i]

\* A parser that was hunting when the frame began is where the frame is.
BodyOf(m) ==
  /\ phase = "body" /\ Len(buffer) = Position - 2
  /\ \A i \in 1..Len(buffer) : buffer[i] = m[i]
  /\ got_header <=> Len(buffer) >= HeaderSize
  /\ bytes_expected = IF got_header THEN Len(m) ELSE MaxTotal

InStep ==
  /\ phase # "body" => ~got_header
  /\ ~cuts => started \/ (phase = "hunt" /\ rest = <<>>)
  /\ started =>
       IF rest = <<>> THEN phase = "hunt" /\ received = <<sent>>
       ELSE /\ received = <<>>
            /\ CASE Position = 0 -> phase = "hunt"
                 [] Position = 1 -> phase = "header"
                 [] OTHER -> BodyOf(sent)

-----------------------------------------------------------------------------
(* The parser out of step, after a cut.                                     *)

\* No data and no id has an 'A' that a hunting parser could take for the start
\* of a frame, and a byte that is not used is no 'E'.
CleanStream == /\ SizeCounts = "message"
               /\ CharA \notin Ids \cup CutBytes /\ CharE # 0
               /\ MaxTotal > 3

\* The byte with which the message being stored gets length i.
Coming(i) == IF i <= Len(buffer) THEN buffer[i] ELSE rest[i - Len(buffer)]
ComingSize == Coming(2) + Base * Coming(3)
Reach == Len(buffer) + Len(rest)

\* The size the parser learns or has learned leaves room for the header.
BodyInv ==
  phase = "body" =>
    IF got_header
    THEN /\ HeaderSize <= Len(buffer) /\ Len(buffer) < bytes_expected
         /\ bytes_expected <= MaxTotal
    ELSE /\ Len(buffer) < HeaderSize /\ bytes_expected = MaxTotal
         /\ rest # <<>> => Reach >= HeaderSize
         /\ Reach >= 3 => ComingSize >= HeaderSize

\* A frame that did not find the parser hunting is not entered.
HuntInv ==
  /\ phase = "hunt" /\ rest # <<>> /\ Position = 0 => started
  /\ phase = "header" /\ rest # <<>> /\ rest[1] = CharE => started
  /\ phase = "header" /\ rest = <<>> => stray = 0 /\ ~started

\* Bytes the parser takes before it hunts.
Swallow ==
  IF got_header THEN bytes_expected - Len(buffer)
  ELSE IF ComingSize <= MaxTotal THEN ComingSize - Len(buffer)
  ELSE HeaderSize - Len(buffer)

\* After a cut: nothing has come yet, or the size was known, or the parser reads
\* a size that is too large.
Fresh == rest = <<>> /\ Len(buffer) < 3 /\ stray = 0
Late == (got_header \/ Reach >= 3) /\ stray + Swallow <= MaxTotal - 3
Early == /\ ~got_header /\ rest # <<>> /\ ComingSize > MaxTotal
         /\ stray + Len(rest) <= MaxTotal + 2

StrayInv ==
  /\ stray <= MaxStray
  /\ ~started => IF phase = "body" THEN Fresh \/ Late \/ Early
                                   ELSE stray + Len(rest) <= MaxStray

SyncInv == StreamInv /\ InStep
CutInv == BodyInv /\ HuntInv /\ StrayInv

-----------------------------------------------------------------------------
(* Sizes and sequences.                                                     *)

\* The constants are what the assumptions say (cited as one fact).
LEMMA Constants ==
  /\ HeaderSize \in Nat /\ HeaderSize >= 3 /\ MaxData \in Nat /\ Base \in Nat
  /\ MaxTotal = HeaderSize + MaxData /\ MaxTotal < Base
  /\ CharA \in Byte /\ CharE \in Byte /\ CharA # CharE /\ CharA > 0
  /\ Ids \subseteq Byte \ {0} /\ WholeBytes \subseteq Byte /\ CutBytes \subseteq Byte
  /\ SizeCounts \in {"message", "data"}
  /\ \A x : x \in Byte <=> x \in Nat /\ x < Base
BY LengthAssumption, CharAssumption, SizeAssumption DEF MaxTotal, Byte

LEMMA Lengths ==
  /\ Room = MaxTotal + 2 /\ MaxStray = MaxTotal + MaxTotal - 2
  /\ Room \in Nat /\ MaxTotal \in Nat /\ MaxStray \in Int
BY Constants DEF Room, MaxStray

\* The size of a message fits into the low byte.
LEMMA SmallSize ==
  ASSUME NEW x \in 0..MaxTotal PROVE x % Base = x /\ x \div Base = 0
<1>1. x \in Nat /\ x < Base /\ Base \in Nat
  BY Constants
<1>2. QED
  BY <1>1

\* A high byte that is not zero makes the size too large.
LEMMA HighByte ==
  ASSUME NEW x \in Byte PROVE /\ Base * x \in Nat /\ (x # 0 => Base * x >= Base)
                              /\ (x = 0 => Base * x = 0)
BY Constants

\* The first element of a sequence and those after it, and one element more.
LEMMA TakeFirst ==
  ASSUME NEW S, NEW q \in Seq(S), q # <<>>
  PROVE  /\ Len(q) \in Nat \ {0} /\ Head(q) = q[1] /\ q[1] \in S
         /\ Tail(q) \in Seq(S) /\ Len(Tail(q)) = Len(q) - 1
         /\ \A i \in 1..(Len(q) - 1) : Tail(q)[i] = q[i + 1]
<1>1. Len(q) \in Nat \ {0} /\ Head(q) = q[1] /\ q[1] \in S
  OBVIOUS
<1>2. Tail(q) \in Seq(S) /\ Len(Tail(q)) = Len(q) - 1
  OBVIOUS
<1>3. \A i \in 1..(Len(q) - 1) : Tail(q)[i] = q[i + 1]
  OBVIOUS
<1>4. QED
  BY <1>1, <1>2, <1>3

LEMMA AddLast ==
  ASSUME NEW S, NEW q \in Seq(S), NEW x \in S
  PROVE  /\ Len(q) \in Nat /\ Append(q, x) \in Seq(S)
         /\ Len(Append(q, x)) = Len(q) + 1
         /\ Append(q, x)[Len(q) + 1] = x
         /\ \A i \in 1..Len(q) : Append(q, x)[i] = q[i]
<1>1. Len(q) \in Nat /\ Append(q, x) \in Seq(S) /\ Len(Append(q, x)) = Len(q) + 1
  OBVIOUS
<1>2. Append(q, x)[Len(q) + 1] = x
  OBVIOUS
<1>3. \A i \in 1..Len(q) : Append(q, x)[i] = q[i]
  OBVIOUS
<1>4. QED
  BY <1>1, <1>2, <1>3

\* Two sequences one after the other.
LEMMA Joined ==
  ASSUME NEW S, NEW q \in Seq(S), NEW r \in Seq(S)
  PROVE  /\ q \o r \in Seq(S) /\ Len(q \o r) = Len(q) + Len(r)
         /\ Len(q) \in Nat /\ Len(r) \in Nat
         /\ \A i \in 1..Len(q) : (q \o r)[i] = q[i]
         /\ \A i \in (Len(q) + 1)..(Len(q) + Len(r)) : (q \o r)[i] = r[i - Len(q)]
<1>1. /\ q \o r \in Seq(S) /\ Len(q \o r) = Len(q) + Len(r)
      /\ Len(q) \in Nat /\ Len(r) \in Nat
  OBVIOUS
<1>2. \A i \in 1..Len(q) : (q \o r)[i] = q[i]
  OBVIOUS
<1>3. \A i \in (Len(q) + 1)..(Len(q) + Len(r)) : (q \o r)[i] = r[i - Len(q)]
  OBVIOUS
<1>4. QED
  BY <1>1, <1>2, <1>3

LEMMA SameSequence ==
  ASSUME NEW S, NEW f \in Seq(S), NEW g \in Seq(S), Len(f) = Len(g),
         \A i \in 1..Len(f) : f[i] = g[i]
  PROVE  f = g
OBVIOUS

LEMMA EmptySequence ==
  ASSUME NEW S PROVE <<>> \in Seq(S) /\ Len(<<>>) = 0
OBVIOUS

LEMMA NotEmpty ==
  ASSUME NEW S, NEW q \in Seq(S)
  PROVE  Len(q) \in Nat /\ (q = <<>> <=> Len(q) = 0)
OBVIOUS

\* What encode makes.
LEMMA EncodeShape ==
  ASSUME NEW bytes \in SUBSET Byte, NEW m \in Messages(bytes)
  PROVE  Shaped(m, bytes)
<1>1. PICK id \in Ids, data \in UNION {[1..k -> bytes] : k \in 0..MaxData} :
        m = Encode(id, data)
  BY DEF Messages
<1>0. PICK n \in 0..MaxData : data \in [1..n -> bytes]
  OBVIOUS
<1> DEFINE size == Len(data) + (IF SizeCounts = "message" THEN HeaderSize ELSE 0)
           first == <<id, size % Base, size \div Base>>
           zeros == [i \in 1..(HeaderSize - 3) |-> 0]
<1>2. /\ n \in Nat /\ n <= MaxData /\ Len(data) = n /\ data \in Seq(bytes)
      /\ \A i \in 1..n : data[i] \in bytes
  BY <1>0, Constants
<1>3. size \in 0..MaxTotal /\ size = IF SizeCounts = "message" THEN n + HeaderSize ELSE n
  BY <1>2, Constants
<1>4. size % Base = size /\ size \div Base = 0
  <2> HIDE DEF size
  <2>1. QED
    BY <1>3, SmallSize
<1>5. size \in Byte /\ id \in Byte /\ 0 \in Byte
  <2> HIDE DEF size
  <2>1. size \in Byte /\ 0 \in Byte
    BY <1>3, Constants DEF Byte
  <2>2. id \in Byte
    BY Constants
  <2>3. QED
    BY <2>1, <2>2
<1>6. /\ first \in Seq(Byte) /\ Len(first) = 3
      /\ first[1] = id /\ first[2] = size /\ first[3] = 0
  <2>1. first = <<id, size, 0>>
    BY <1>4
  <2> HIDE DEF size, first
  <2>2. QED
    BY <1>5, <2>1
<1>7. /\ zeros \in Seq(Byte) /\ Len(zeros) = HeaderSize - 3
      /\ \A i \in 1..(HeaderSize - 3) : zeros[i] = 0
  BY <1>5, Constants
<1>8. data \in Seq(Byte)
  BY <1>2
<1>9. m = (first \o zeros) \o data
  BY <1>1 DEF Encode
<1>10. /\ first \o zeros \in Seq(Byte) /\ Len(first \o zeros) = HeaderSize
       /\ \A i \in 1..3 : (first \o zeros)[i] = first[i]
       /\ \A i \in 4..HeaderSize : (first \o zeros)[i] = 0
  <2> HIDE DEF first, zeros
  <2>1. /\ first \o zeros \in Seq(Byte)
        /\ Len(first \o zeros) = Len(first) + Len(zeros)
        /\ \A i \in 1..Len(first) : (first \o zeros)[i] = first[i]
        /\ \A i \in (Len(first) + 1)..(Len(first) + Len(zeros)) :
             (first \o zeros)[i] = zeros[i - Len(first)]
    <3>1. first \in Seq(Byte) /\ zeros \in Seq(Byte)
      BY <1>6, <1>7
    <3>2. QED
      BY ONLY <3>1, Joined
  <2>2. Len(first) = 3 /\ Len(first) + Len(zeros) = HeaderSize
    BY <1>6, <1>7, Constants
  <2>3. ASSUME NEW i \in 4..HeaderSize PROVE (first \o zeros)[i] = 0
    <3>1. HeaderSize \in Nat
      BY Constants
    <3>2. i \in (Len(first) + 1)..(Len(first) + Len(zeros))
      BY <2>2, <3>1
    <3>3. (first \o zeros)[i] = zeros[i - 3]
      BY <2>1, <2>2, <3>2
    <3>4. i - 3 \in 1..(HeaderSize - 3)
      BY <3>1
    <3>5. QED
      BY <1>7, <3>3, <3>4
  <2>4. QED
    BY <2>1, <2>2, <2>3
<1>11. /\ m \in Seq(Byte) /\ Len(m) = HeaderSize + n
       /\ \A i \in 1..HeaderSize : m[i] = (first \o zeros)[i]
       /\ \A i \in (HeaderSize + 1)..(HeaderSize + n) : m[i] = data[i - HeaderSize]
  <2> DEFINE header == first \o zeros
  <2> HIDE DEF first, zeros
  <2>1. header \in Seq(Byte) /\ Len(header) = HeaderSize /\ m = header \o data
    BY <1>9, <1>10
  <2> HIDE DEF header
  <2>2. /\ header \o data \in Seq(Byte)
        /\ Len(header \o data) = Len(header) + Len(data)
        /\ \A i \in 1..Len(header) : (header \o data)[i] = header[i]
        /\ \A i \in (Len(header) + 1)..(Len(header) + Len(data)) :
             (header \o data)[i] = data[i - Len(header)]
    BY <1>8, <2>1, Joined
  <2>3. QED
    BY <1>2, <2>1, <2>2 DEF header
<1>12. m[1] = id /\ m[2] = size /\ m[3] = 0 /\ \A i \in 4..HeaderSize : m[i] = 0
  <2> HIDE DEF first, zeros, size
  <2>1. 1 \in 1..HeaderSize /\ 2 \in 1..HeaderSize /\ 3 \in 1..HeaderSize
    BY Constants
  <2>2. m[1] = first[1] /\ m[2] = first[2] /\ m[3] = first[3]
    BY <1>10, <1>11, <2>1
  <2>3. ASSUME NEW i \in 4..HeaderSize PROVE m[i] = 0
    <3>1. i \in 1..HeaderSize
      BY Constants
    <3>2. m[i] = (first \o zeros)[i] /\ (first \o zeros)[i] = 0
      BY <1>10, <1>11, <3>1
    <3>3. QED
      BY <3>2
  <2>4. QED
    BY <1>6, <2>2, <2>3
<1>13. \A i \in (HeaderSize + 1)..Len(m) : m[i] \in bytes
  <2>1. TAKE i \in (HeaderSize + 1)..Len(m)
  <2>2. i - HeaderSize \in 1..n
    BY <1>2, <1>11, <2>1, Constants
  <2>3. QED
    BY <1>2, <1>11, <2>2
<1>14. QED
  <2> HIDE DEF first, zeros, size
  <2>1. QED
    BY <1>2, <1>3, <1>11, <1>12, <1>13, Constants DEF Shaped

\* What is written for a message.
LEMMA FrameShape ==
  ASSUME NEW m \in Seq(Byte)
  PROVE  /\ Frame(m) \in Seq(Byte) /\ Len(Frame(m)) = Len(m) + 2 /\ Len(m) \in Nat
         /\ Frame(m)[1] = CharA /\ Frame(m)[2] = CharE
         /\ \A i \in 1..Len(m) : Frame(m)[i + 2] = m[i]
<1>1. <<CharA, CharE>> \in Seq(Byte) /\ Len(<<CharA, CharE>>) = 2
  BY Constants
<1>2. /\ Frame(m) \in Seq(Byte) /\ Len(Frame(m)) = Len(m) + 2 /\ Len(m) \in Nat
  BY <1>1 DEF Frame
<1>3. Frame(m)[1] = CharA /\ Frame(m)[2] = CharE
  BY <1>1 DEF Frame
<1>4. \A i \in 1..Len(m) : Frame(m)[i + 2] = m[i]
  BY <1>1 DEF Frame
<1>5. QED
  BY <1>2, <1>3, <1>4

-----------------------------------------------------------------------------
(* Steps of the stream.                                                     *)

\* A byte of the frame is taken.
LEMMA TakeByte ==
  ASSUME TypeOK, NEW b, Take(b)
  PROVE  /\ b = rest[1] /\ b \in Byte /\ rest # <<>>
         /\ Len(rest) \in Nat \ {0} /\ Len(rest') = Len(rest) - 1
         /\ rest' \in Seq(Byte)
         /\ \A i \in 1..(Len(rest) - 1) : rest'[i] = rest[i + 1]
         /\ rest' = <<>> <=> Len(rest) = 1
         /\ sent' = sent /\ started' = started /\ cuts' = cuts
         /\ stray' \in 0..(MaxStray + 1)
         /\ stray' = IF started \/ stray > MaxStray THEN stray ELSE stray + 1
         /\ DataBytes' = DataBytes /\ Position' = Position + 1
<1>1. rest \in Seq(Byte) /\ rest # <<>> /\ b = Head(rest) /\ rest' = Tail(rest)
  BY DEF TypeOK, Take
<1>2. /\ Len(rest) \in Nat \ {0} /\ Head(rest) = rest[1] /\ rest[1] \in Byte
      /\ rest' \in Seq(Byte) /\ Len(rest') = Len(rest) - 1
      /\ \A i \in 1..(Len(rest) - 1) : rest'[i] = rest[i + 1]
  BY <1>1, TakeFirst
<1>3. rest' = <<>> <=> Len(rest) = 1
  BY <1>2, NotEmpty
<1>4. sent' = sent /\ started' = started /\ cuts' = cuts
  BY DEF Take, streamVars
<1>5. /\ stray' = IF started \/ stray > MaxStray THEN stray ELSE stray + 1
      /\ stray' \in 0..(MaxStray + 1)
  BY Lengths DEF Take, TypeOK
<1>6. DataBytes' = DataBytes
  BY <1>4 DEF DataBytes
<1>7. Len(sent) \in Nat
  BY NotEmpty DEF TypeOK
<1>8. Position' = Position + 1
  BY <1>2, <1>4, <1>7 DEF Position
<1>9. QED
  BY <1>1, <1>2, <1>3, <1>4, <1>5, <1>6, <1>8

\* The message with one byte more, and the size it has once the header is there.
LEMMA StoredByte ==
  ASSUME TypeOK, NEW b \in Byte
  PROVE  /\ Append(buffer, b) \in Seq(Byte)
         /\ Len(buffer) \in Nat /\ Len(Append(buffer, b)) = Len(buffer) + 1
         /\ Append(buffer, b)[Len(buffer) + 1] = b
         /\ \A i \in 1..Len(buffer) : Append(buffer, b)[i] = buffer[i]
         /\ Learns => /\ Len(buffer) >= 2
                      /\ Append(buffer, b)[2] \in Byte /\ Append(buffer, b)[3] \in Byte
                      /\ SizeOf(Append(buffer, b)) \in Nat
<1>1. /\ Append(buffer, b) \in Seq(Byte)
      /\ Len(buffer) \in Nat /\ Len(Append(buffer, b)) = Len(buffer) + 1
      /\ Append(buffer, b)[Len(buffer) + 1] = b
      /\ \A i \in 1..Len(buffer) : Append(buffer, b)[i] = buffer[i]
  BY AddLast DEF TypeOK
<1>2. ASSUME Learns
      PROVE  /\ Len(buffer) >= 2
             /\ Append(buffer, b)[2] \in Byte /\ Append(buffer, b)[3] \in Byte
             /\ SizeOf(Append(buffer, b)) \in Nat
  <2>1. Len(buffer) >= 2
    BY <1>1, <1>2, Constants DEF Learns
  <2>2. Append(buffer, b)[2] \in Byte /\ Append(buffer, b)[3] \in Byte
    BY <1>1, <2>1
  <2>3. Base * Append(buffer, b)[3] \in Nat
    BY <2>2, HighByte
  <2>4. Append(buffer, b)[2] \in Nat
    BY <2>2, Constants
  <2>5. QED
    BY <2>1, <2>2, <2>3, <2>4 DEF SizeOf
<1>3. QED
  BY <1>1, <1>2

\* A new frame.
LEMMA NewFrame ==
  ASSUME TypeOK, NextFrame
  PROVE  /\ Shaped(sent', DataBytes) /\ DataBytes' = DataBytes
         /\ sent' \in Seq(Byte) /\ rest' = Frame(sent') /\ rest' \in Seq(Byte)
         /\ Len(sent') \in HeaderSize..MaxTotal /\ Len(rest') = Len(sent') + 2
         /\ rest' # <<>> /\ Position' = 0
         /\ rest'[1] = CharA /\ rest'[2] = CharE
         /\ \A i \in 1..Len(sent') : rest'[i + 2] = sent'[i]
<1>1. DataBytes \in SUBSET Byte
  BY Constants DEF DataBytes
<1>2. sent' \in Messages(DataBytes) /\ rest' = Frame(sent')
  BY DEF NextFrame, DataBytes
<1>3. Shaped(sent', DataBytes)
  BY <1>1, <1>2, EncodeShape
<1>4. sent' \in Seq(Byte) /\ Len(sent') \in HeaderSize..MaxTotal
  BY <1>3 DEF Shaped
<1>5. /\ rest' \in Seq(Byte) /\ Len(rest') = Len(sent') + 2 /\ Len(sent') \in Nat
      /\ rest'[1] = CharA /\ rest'[2] = CharE
      /\ \A i \in 1..Len(sent') : rest'[i + 2] = sent'[i]
  BY <1>2, <1>4, FrameShape
<1>6. rest' # <<>>
  BY <1>5, NotEmpty
<1>7. Position' = 0
  BY <1>5 DEF Position
<1>8. DataBytes' = DataBytes
  BY DEF NextFrame, DataBytes
<1>9. QED
  BY <1>2, <1>3, <1>4, <1>5, <1>6, <1>7, <1>8

\* The next byte, by its position in the frame.
LEMMA NextByte ==
  ASSUME TypeOK, StreamInv, rest # <<>>
  PROVE  /\ Shaped(sent, DataBytes) /\ sent \in Seq(Byte)
         /\ Len(sent) \in HeaderSize..MaxTotal /\ Len(sent) >= 3 /\ Len(sent) \in Nat
         /\ Len(rest) \in Nat \ {0} /\ Position \in 0..(Len(sent) + 1)
         /\ Len(rest) = Len(sent) + 2 - Position
         /\ Position = 0 => rest[1] = CharA
         /\ Position = 1 => rest[1] = CharE
         /\ Position >= 2 => rest[1] = sent[Position - 1]
         /\ \A i \in 1..Len(rest) : Position + i >= 3 => rest[i] = sent[Position + i - 2]
<1>1. /\ Shaped(sent, DataBytes) /\ Len(rest) <= Len(sent) + 2
      /\ \A i \in 1..Len(rest) : rest[i] = Frame(sent)[Position + i]
  BY DEF StreamInv
<1>2. sent \in Seq(Byte) /\ Len(sent) \in HeaderSize..MaxTotal
  BY <1>1 DEF Shaped
<1>3. Len(sent) \in Nat /\ Len(sent) >= 3
  BY <1>2, Constants
<1>4. Len(rest) \in Nat \ {0}
  BY NotEmpty DEF TypeOK
<1>5. Position \in 0..(Len(sent) + 1) /\ Len(rest) = Len(sent) + 2 - Position
  BY <1>1, <1>3, <1>4 DEF Position
<1>6. /\ Frame(sent)[1] = CharA /\ Frame(sent)[2] = CharE
      /\ \A i \in 1..Len(sent) : Frame(sent)[i + 2] = sent[i]
  BY <1>2, FrameShape
<1>7. Position = 0 => rest[1] = CharA
  BY <1>1, <1>4, <1>6
<1>8. Position = 1 => rest[1] = CharE
  BY <1>1, <1>4, <1>6
<1>9. ASSUME NEW i \in 1..Len(rest), Position + i >= 3
      PROVE  rest[i] = sent[Position + i - 2]
  <2>1. Position + i - 2 \in 1..Len(sent)
    BY <1>3, <1>4, <1>5, <1>9
  <2>2. Frame(sent)[(Position + i - 2) + 2] = sent[Position + i - 2]
    BY <1>6, <2>1
  <2>3. (Position + i - 2) + 2 = Position + i
    BY <1>4, <1>5
  <2>4. QED
    BY <1>1, <2>2, <2>3
<1>10. ASSUME Position >= 2 PROVE rest[1] = sent[Position - 1]
  <2>1. 1 \in 1..Len(rest) /\ Position + 1 >= 3 /\ Position + 1 - 2 = Position - 1
    BY <1>4, <1>5, <1>10
  <2>2. rest[1] = sent[Position + 1 - 2]
    BY <1>9, <2>1
  <2>3. QED
    BY <2>1, <2>2
<1>11. QED
  BY <1>1, <1>2, <1>3, <1>4, <1>5, <1>7, <1>8, <1>9, <1>10

-----------------------------------------------------------------------------
(* Types.                                                                   *)

LEMMA TypeStep ==
  ASSUME TypeOK, [Next]_vars PROVE TypeOK'
<1>1. \A b : Take(b) => /\ rest' \in Seq(Byte) /\ sent' \in Seq(Byte)
                        /\ started' \in BOOLEAN /\ cuts' \in BOOLEAN
                        /\ stray' \in 0..(MaxStray + 1) /\ b \in Byte
  BY TakeByte DEF TypeOK
<1>2. /\ <<>> \in Seq(Byte) /\ Len(<<>>) = 0 /\ <<>> \in Seq(Seq(Byte))
      /\ Room \in Nat /\ MaxTotal \in Nat /\ MaxStray + 1 >= 0
  BY EmptySequence, Lengths, Constants
<1>0. FALSE \in BOOLEAN /\ "hunt" \in {"hunt", "header", "body"} /\ 0 \in 0..MaxTotal
  BY <1>2
<1> DEFINE ParserTypes == /\ phase \in {"hunt", "header", "body"} /\ got_header \in BOOLEAN
                          /\ buffer \in Seq(Byte)
                          /\ bytes_expected \in 0..MaxTotal
<1>13. Reset => ParserTypes'
  <2>1. ASSUME Reset PROVE /\ phase' \in {"hunt", "header", "body"}
                           /\ got_header' \in BOOLEAN
                           /\ bytes_expected' \in 0..MaxTotal
    BY <1>0, <2>1, Zenon DEF Reset
  <2>2. ASSUME Reset PROVE buffer' \in Seq(Byte)
    BY <1>2, <2>2 DEF Reset
  <2>3. QED
    BY <2>1, <2>2
<1>3. CASE HuntByte
  BY <1>1, <1>3 DEF HuntByte, TypeOK
<1>4. CASE HeaderByte
  BY <1>1, <1>2, <1>4 DEF HeaderByte, TypeOK
<1>5. CASE HeaderMissed
  BY <1>1, <1>5, <1>13 DEF HeaderMissed, TypeOK
<1>6. CASE TooLarge
  BY <1>1, <1>6, <1>13 DEF TooLarge, TypeOK
<1>7. CASE StoreByte
  <2>1. PICK b \in Byte :
          /\ Take(b) /\ (Learns => SizeOf(Append(buffer, b)) <= MaxTotal)
          /\ buffer' = Append(buffer, b) /\ bytes_expected' = Expected(b)
    BY <1>7 DEF StoreByte
  <2>2. buffer' \in Seq(Byte)
    BY <2>1, StoredByte
  <2>3. bytes_expected' \in 0..MaxTotal
    BY <1>2, <2>1, StoredByte DEF Expected, TypeOK
  <2>4. got_header' \in BOOLEAN
    BY <1>7 DEF StoreByte, TypeOK, Learns
  <2>5. QED
    BY <1>1, <1>7, <2>1, <2>2, <2>3, <2>4 DEF StoreByte, TypeOK
<1>8. CASE Deliver
  <2>1. PICK b \in Byte : Take(b) /\ received' = Append(received, Append(buffer, b))
    BY <1>8 DEF Deliver
  <2>2. received' \in Seq(Seq(Byte))
    BY <2>1, StoredByte, AddLast DEF TypeOK
  <2>3. QED
    BY <1>1, <1>8, <1>13, <2>1, <2>2 DEF Deliver, TypeOK
<1>9. CASE NextFrame
  BY <1>2, <1>9, NewFrame DEF NextFrame, parserVars, TypeOK
<1>10. CASE Cut
  <2>1. rest' \in Seq(Byte) /\ sent' \in Seq(Byte) /\ received' \in Seq(Seq(Byte))
    BY <1>2, <1>10 DEF Cut
  <2>2. started' \in BOOLEAN /\ cuts' \in BOOLEAN
    BY <1>0, <1>10, Zenon DEF Cut, TypeOK
  <2>3. stray' \in 0..(MaxStray + 1)
    BY <1>2, <1>10, Lengths DEF Cut
  <2>4. ParserTypes'
    BY <1>10 DEF Cut, parserVars, TypeOK
  <2>5. QED
    BY <2>1, <2>2, <2>3, <2>4 DEF TypeOK
<1>11. CASE UNCHANGED vars
  BY <1>11 DEF vars, parserVars, streamVars, TypeOK
<1>12. QED
  BY <1>3, <1>4, <1>5, <1>6, <1>7, <1>8, <1>9, <1>10, <1>11
     DEF Next, ParserProcessByte

\* Types, for whatever the sizes mean and wherever the stream is cut.  What they
\* say of the code is that the test of line 52 keeps bytes_expected at the length
\* of the largest message; they say nothing of where line 45 writes, which is
\* StaysInBuffer's.
THEOREM TypeCorrect == Spec => []TypeOK
<1>1. Init => TypeOK
  <2>1. /\ <<>> \in Seq(Byte) /\ Len(<<>>) = 0 /\ <<>> \in Seq(Seq(Byte))
        /\ Room \in Nat /\ MaxTotal \in Nat /\ MaxStray + 1 >= 0
    BY EmptySequence, Lengths, Constants
  <2>2. ASSUME Init
        PROVE  /\ phase \in {"hunt", "header", "body"} /\ got_header \in BOOLEAN
               /\ started \in BOOLEAN /\ cuts \in BOOLEAN
    BY <2>2, Zenon DEF Init
  <2>3. ASSUME Init
        PROVE  /\ buffer \in Seq(Byte)
               /\ bytes_expected \in 0..MaxTotal
               /\ rest \in Seq(Byte) /\ sent \in Seq(Byte) /\ received \in Seq(Seq(Byte))
               /\ stray \in 0..(MaxStray + 1)
    BY <2>1, <2>3, Lengths DEF Init
  <2>4. QED
    BY <2>2, <2>3 DEF TypeOK
<1>2. TypeOK /\ [Next]_vars => TypeOK'
  BY TypeStep
<1>3. QED
  BY <1>1, <1>2, PTL DEF Spec

-----------------------------------------------------------------------------
(* A frame seen from its start.                                             *)

LEMMA StreamStep ==
  ASSUME TypeOK, StreamInv, [Next]_vars PROVE StreamInv'
<1>1. ASSUME NEW b, Take(b) PROVE StreamInv'
  <2>1. /\ rest # <<>> /\ Len(rest) \in Nat \ {0} /\ Len(rest') = Len(rest) - 1
        /\ \A i \in 1..(Len(rest) - 1) : rest'[i] = rest[i + 1]
        /\ sent' = sent /\ started' = started
        /\ DataBytes' = DataBytes /\ Position' = Position + 1
    BY <1>1, TakeByte
  <2>2. /\ Shaped(sent, DataBytes) /\ Len(rest) <= Len(sent) + 2
        /\ \A i \in 1..Len(rest) : rest[i] = Frame(sent)[Position + i]
    BY <2>1 DEF StreamInv
  <2>3. Shaped(sent', DataBytes')
    BY <2>1, <2>2
  <2>4. Len(rest') <= Len(sent') + 2
    BY <2>1, <2>2, NotEmpty DEF TypeOK
  <2>5. Position \in Int
    BY <2>1, NotEmpty DEF Position, TypeOK
  <2>6. ASSUME NEW i \in 1..Len(rest') PROVE rest'[i] = Frame(sent')[Position' + i]
    <3>1. i \in 1..(Len(rest) - 1) /\ i + 1 \in 1..Len(rest)
      BY <2>1
    <3>2. rest'[i] = rest[i + 1] /\ rest[i + 1] = Frame(sent)[Position + (i + 1)]
      BY <2>1, <2>2, <3>1
    <3>3. Position + (i + 1) = Position' + i
      BY <2>1, <2>5, <3>1
    <3>4. QED
      BY <2>1, <3>2, <3>3
  <2>7. QED
    BY <2>3, <2>4, <2>6 DEF StreamInv
<1>2. CASE NextFrame
  <2>1. /\ Shaped(sent', DataBytes) /\ DataBytes' = DataBytes
        /\ rest' = Frame(sent') /\ Len(rest') = Len(sent') + 2 /\ Position' = 0
        /\ rest' \in Seq(Byte) /\ sent' \in Seq(Byte)
    BY <1>2, NewFrame
  <2>2. Len(rest') \in Nat
    BY <2>1, NotEmpty
  <2>3. \A i \in 1..Len(rest') : rest'[i] = Frame(sent')[Position' + i]
    BY <2>1, <2>2
  <2>4. Len(rest') <= Len(sent') + 2 /\ Shaped(sent', DataBytes')
    BY <2>1, <2>2
  <2>5. QED
    BY <2>3, <2>4 DEF StreamInv
<1>3. CASE Cut
  BY <1>3 DEF Cut, StreamInv
<1>4. CASE UNCHANGED vars
  BY <1>4 DEF vars, streamVars, StreamInv, DataBytes, Position
<1>5. QED
  BY <1>1, <1>2, <1>3, <1>4
     DEF Next, ParserProcessByte, HuntByte, HeaderByte, HeaderMissed, TooLarge,
         StoreByte, Deliver

\* In a frame that is stored from its start the next byte is the next of the
\* message, and the size read from the header is that of the message.
LEMMA InBody ==
  ASSUME SizeCounts = "message", TypeOK, StreamInv, InStep, started,
         phase = "body", NEW b, Take(b)
  PROVE  /\ BodyOf(sent) /\ received = <<>> /\ Position \in Nat /\ Position >= 2
         /\ Len(buffer) = Position - 2 /\ Len(buffer) < Len(sent)
         /\ \A i \in 1..(Len(buffer) + 1) : Append(buffer, b)[i] = sent[i]
         /\ Learns => SizeOf(Append(buffer, b)) = Len(sent)
         /\ Len(sent) \in HeaderSize..MaxTotal /\ Len(sent) \in Nat
         /\ rest' = <<>> <=> Len(buffer) + 1 = Len(sent)
<1>1. /\ b = rest[1] /\ b \in Byte /\ rest # <<>> /\ Len(rest) \in Nat \ {0}
      /\ (rest' = <<>> <=> Len(rest) = 1)
  BY TakeByte
<1>2. /\ Shaped(sent, DataBytes)
      /\ Len(sent) \in HeaderSize..MaxTotal /\ Len(sent) >= 3 /\ Len(sent) \in Nat
      /\ Position \in 0..(Len(sent) + 1) /\ Len(rest) = Len(sent) + 2 - Position
      /\ Position >= 2 => rest[1] = sent[Position - 1]
  BY <1>1, NextByte
<1>3. /\ BodyOf(sent) /\ received = <<>> /\ Position # 0 /\ Position # 1
  BY <1>1 DEF InStep
<1>4. Position \in Nat /\ Position >= 2
  BY <1>2, <1>3
<1>5. Len(buffer) = Position - 2 /\ \A i \in 1..Len(buffer) : buffer[i] = sent[i]
  BY <1>3 DEF BodyOf
<1>6. /\ Len(buffer) \in Nat /\ Append(buffer, b)[Len(buffer) + 1] = b
      /\ \A i \in 1..Len(buffer) : Append(buffer, b)[i] = buffer[i]
      /\ Learns => Len(buffer) >= 2
  BY <1>1, StoredByte
<1>7. b = sent[Len(buffer) + 1]
  <2>1. Position - 1 = Len(buffer) + 1
    BY <1>4, <1>5
  <2>2. QED
    BY <1>1, <1>2, <1>4, <2>1
<1>8. ASSUME NEW i \in 1..(Len(buffer) + 1) PROVE Append(buffer, b)[i] = sent[i]
  <2>1. CASE i = Len(buffer) + 1
    BY <1>6, <1>7, <2>1
  <2>2. CASE i # Len(buffer) + 1
    <3>1. i \in 1..Len(buffer)
      BY <1>6, <2>2
    <3>2. QED
      BY <1>5, <1>6, <3>1
  <2>3. QED
    BY <2>1, <2>2
<1>9. ASSUME Learns PROVE SizeOf(Append(buffer, b)) = Len(sent)
  <2>1. 2 \in 1..(Len(buffer) + 1) /\ 3 \in 1..(Len(buffer) + 1)
    BY <1>6, <1>9
  <2>2. Append(buffer, b)[2] = sent[2] /\ Append(buffer, b)[3] = sent[3]
    BY <1>8, <2>1
  <2>3. sent[2] = Len(sent) /\ sent[3] = 0
    BY <1>2 DEF Shaped
  <2>4. QED
    BY <1>2, <2>2, <2>3, Constants DEF SizeOf
<1>10. Len(buffer) < Len(sent) /\ (rest' = <<>> <=> Len(buffer) + 1 = Len(sent))
  BY <1>1, <1>2, <1>4, <1>5
<1>11. QED
  BY <1>2, <1>3, <1>4, <1>5, <1>8, <1>9, <1>10

LEMMA InStepStep ==
  ASSUME SizeCounts = "message", TypeOK, StreamInv, InStep, [Next]_vars
  PROVE  InStep'
<1>1. ASSUME NEW b, Take(b)
      PROVE  /\ rest # <<>> /\ started' = started /\ cuts' = cuts /\ sent' = sent
             /\ (~cuts => started) /\ (started => received = <<>>)
             /\ Position \in 0..(Len(sent) + 1) /\ Position' = Position + 1
             /\ Len(sent) \in Nat /\ Len(sent) >= 3
             /\ (Position' = 1 \/ Position' = 2 => rest' # <<>>)
             /\ (started => /\ Position = 0 <=> phase = "hunt"
                            /\ Position = 1 <=> phase = "header"
                            /\ phase = "header" => b = CharE)
  <2>1. /\ rest # <<>> /\ started' = started /\ cuts' = cuts /\ sent' = sent
        /\ Position' = Position + 1 /\ b = rest[1] /\ (rest' = <<>> <=> Len(rest) = 1)
    BY <1>1, TakeByte
  <2>2. /\ Position \in 0..(Len(sent) + 1) /\ Len(sent) \in Nat /\ Len(sent) >= 3
        /\ Len(rest) = Len(sent) + 2 - Position /\ (Position = 1 => rest[1] = CharE)
    BY <2>1, NextByte
  <2>3. (~cuts => started) /\ (started => received = <<>>)
    BY <2>1 DEF InStep
  <2>4. started => (Position = 0 <=> phase = "hunt") /\ (Position = 1 <=> phase = "header")
    BY <2>1 DEF InStep, BodyOf
  <2>5. Position' = 1 \/ Position' = 2 => rest' # <<>>
    BY <2>1, <2>2
  <2>6. QED
    BY <2>1, <2>2, <2>3, <2>4, <2>5
<1>2. CASE HuntByte
  <2>1. PICK b : Take(b) /\ phase' = IF b = CharA THEN "header" ELSE "hunt"
    BY <1>2 DEF HuntByte
  <2>2. /\ phase = "hunt"
        /\ got_header' = got_header /\ buffer' = buffer
        /\ bytes_expected' = bytes_expected /\ received' = received
    BY <1>2 DEF HuntByte
  <2>3. started => b = CharA
    <3>1. b = rest[1]
      BY <2>1, TakeByte
    <3>2. Position = 0 => rest[1] = CharA
      BY <1>1, <2>1, NextByte
    <3>3. QED
      BY <1>1, <2>1, <2>2, <3>1, <3>2
  <2>8. /\ started => Position = 0
        /\ Position' = Position + 1 /\ (Position' = 1 => rest' # <<>>)
    BY <1>1, <2>1, <2>2, Zenon
  <2>4. started => phase' = "header" /\ Position' = 1 /\ rest' # <<>>
    BY <2>1, <2>3, <2>8
  <2>5. phase' # "body"
    BY <2>1
  <2>6. got_header' = FALSE
    BY <2>2 DEF InStep, TypeOK
  <2>7. QED
    BY <1>1, <2>1, <2>2, <2>4, <2>5, <2>6 DEF InStep
<1>3. CASE HeaderByte
  <2>1. /\ Take(CharE) /\ phase = "header" /\ phase' = "body" /\ buffer' = <<>>
        /\ bytes_expected' = MaxTotal /\ got_header' = got_header /\ received' = received
    BY <1>3 DEF HeaderByte
  <2>2. ~got_header
    BY <2>1 DEF InStep
  <2>6. /\ started => Position = 1
        /\ Position' = Position + 1 /\ (Position' = 2 => rest' # <<>>)
    BY <1>1, <2>1, Zenon
  <2>3. started => Position' = 2 /\ rest' # <<>>
    BY <2>6
  <2>4. started => BodyOf(sent)'
    BY <1>1, <2>1, <2>2, <2>3, Constants DEF BodyOf
  <2>5. QED
    BY <1>1, <2>1, <2>3, <2>4 DEF InStep
<1>4. CASE HeaderMissed
  <2>1. PICK b \in Byte \ {CharE} : Take(b)
    BY <1>4 DEF HeaderMissed
  <2>2. phase = "header" /\ phase' = "hunt" /\ got_header' = FALSE
    BY <1>4 DEF HeaderMissed, Reset
  <2>3. ~started /\ ~started' /\ cuts /\ cuts'
    BY <1>1, <2>1, <2>2
  <2>4. QED
    BY <2>2, <2>3 DEF InStep
<1>5. CASE TooLarge
  <2>1. PICK b \in Byte : Take(b) /\ SizeOf(Append(buffer, b)) > MaxTotal
    BY <1>5 DEF TooLarge
  <2>2. phase = "body" /\ Learns /\ phase' = "hunt" /\ got_header' = FALSE
    BY <1>5 DEF TooLarge, Reset
  <2>3. ~started
    <3>1. ASSUME started PROVE FALSE
      <4>1. SizeOf(Append(buffer, b)) = Len(sent) /\ Len(sent) \in HeaderSize..MaxTotal
        BY <2>1, <2>2, <3>1, InBody
      <4>2. QED
        BY <2>1, <4>1, Constants
    <3>2. QED
      BY <3>1
  <2>4. ~started' /\ cuts'
    BY <1>1, <2>1, <2>3
  <2>5. QED
    BY <2>2, <2>4 DEF InStep
<1>6. CASE StoreByte
  <2>1. PICK b \in Byte : /\ Take(b) /\ Len(buffer) + 1 # Expected(b)
                          /\ buffer' = Append(buffer, b) /\ bytes_expected' = Expected(b)
    BY <1>6 DEF StoreByte
  <2>2. /\ phase = "body" /\ phase' = "body" /\ received' = received
        /\ got_header' = (got_header \/ Learns)
    BY <1>6 DEF StoreByte
  <2>3. ASSUME started
        PROVE  /\ rest' # <<>> /\ BodyOf(sent)' /\ Position' # 0 /\ Position' # 1
    <3>1. /\ BodyOf(sent) /\ Position \in Nat /\ Position >= 2
          /\ Len(buffer) = Position - 2 /\ Len(buffer) < Len(sent)
          /\ \A i \in 1..(Len(buffer) + 1) : Append(buffer, b)[i] = sent[i]
          /\ Learns => SizeOf(Append(buffer, b)) = Len(sent)
          /\ Len(sent) \in HeaderSize..MaxTotal /\ Len(sent) \in Nat
          /\ rest' = <<>> <=> Len(buffer) + 1 = Len(sent)
      BY <2>1, <2>2, <2>3, InBody
    <3>2. /\ (got_header <=> Len(buffer) >= HeaderSize)
          /\ bytes_expected = IF got_header THEN Len(sent) ELSE MaxTotal
      BY <3>1 DEF BodyOf
    <3>3. Len(buffer) \in Nat /\ Len(buffer') = Len(buffer) + 1
      BY <2>1, StoredByte
    <3>4. Position' = Position + 1 /\ sent' = sent
      BY <1>1, <2>1
    <3>5. Learns <=> Len(buffer) + 1 = HeaderSize
      BY <3>2, <3>3, Constants DEF Learns
    <3>6. got_header' <=> Len(buffer') >= HeaderSize
      <4>1. got_header' <=> got_header \/ Learns
        BY <2>2
      <4>2. QED
        BY <3>2, <3>3, <3>5, <4>1, Constants
    <3>7. bytes_expected' = IF got_header' THEN Len(sent) ELSE MaxTotal
      <4>1. CASE Learns
        BY <2>1, <2>2, <3>1, <4>1 DEF Expected
      <4>2. CASE ~Learns
        BY <2>1, <2>2, <3>2, <4>2 DEF Expected
      <4>3. QED
        BY <4>1, <4>2
    <3>8. rest' # <<>>
      <4>1. SUFFICES ASSUME Len(buffer) + 1 = Len(sent) PROVE FALSE
        BY <3>1
      <4>2. got_header \/ Learns
        BY <3>1, <3>2, <3>3, <3>5, <4>1, Constants
      <4>3. Expected(b) = Len(sent)
        BY <3>1, <3>2, <4>2 DEF Expected
      <4>4. QED
        BY <2>1, <4>1, <4>3
    <3>9. \A i \in 1..Len(buffer') : buffer'[i] = sent'[i]
      BY <2>1, <3>1, <3>3, <3>4
    <3>10. Len(buffer') = Position' - 2
      BY <3>1, <3>3, <3>4
    <3>11. BodyOf(sent)'
      BY <2>2, <3>4, <3>6, <3>7, <3>9, <3>10 DEF BodyOf
    <3>12. QED
      BY <3>1, <3>4, <3>8, <3>11
  <2>4. started => received' = <<>>
    BY <1>1, <2>1, <2>2
  <2>5. QED
    BY <1>1, <2>1, <2>2, <2>3, <2>4 DEF InStep
<1>7. CASE Deliver
  <2>1. PICK b \in Byte : /\ Take(b) /\ Len(buffer) + 1 = Expected(b)
                          /\ received' = Append(received, Append(buffer, b))
    BY <1>7 DEF Deliver
  <2>2. phase = "body" /\ phase' = "hunt" /\ got_header' = FALSE
    BY <1>7 DEF Deliver, Reset
  <2>3. ASSUME started PROVE rest' = <<>> /\ received' = <<sent>>
    <3>1. /\ BodyOf(sent) /\ received = <<>>
          /\ \A i \in 1..(Len(buffer) + 1) : Append(buffer, b)[i] = sent[i]
          /\ Learns => SizeOf(Append(buffer, b)) = Len(sent)
          /\ Len(sent) \in HeaderSize..MaxTotal /\ Len(sent) \in Nat
          /\ rest' = <<>> <=> Len(buffer) + 1 = Len(sent)
      BY <2>1, <2>2, <2>3, InBody
    <3>2. /\ (got_header <=> Len(buffer) >= HeaderSize)
          /\ bytes_expected = IF got_header THEN Len(sent) ELSE MaxTotal
      BY <3>1 DEF BodyOf
    <3>3. /\ Len(buffer) \in Nat /\ Append(buffer, b) \in Seq(Byte)
          /\ Len(Append(buffer, b)) = Len(buffer) + 1
      BY StoredByte
    <3>4. Expected(b) = Len(sent)
      <4>1. CASE Learns
        BY <3>1, <4>1 DEF Expected
      <4>2. CASE ~Learns /\ got_header
        BY <3>2, <4>2 DEF Expected
      <4>3. CASE ~Learns /\ ~got_header
        <5>1. Len(buffer) + 1 < HeaderSize
          BY <3>2, <3>3, <4>3, Constants DEF Learns
        <5>2. Expected(b) = MaxTotal
          BY <3>2, <4>3 DEF Expected
        <5>3. QED
          BY <2>1, <3>3, <5>1, <5>2, Constants
      <4>4. QED
        BY <4>1, <4>2, <4>3
    <3>5. Len(Append(buffer, b)) = Len(sent) /\ rest' = <<>>
      BY <2>1, <3>1, <3>3, <3>4
    <3>6. Append(buffer, b) = sent
      <4>1. sent \in Seq(Byte)
        BY DEF TypeOK
      <4>2. \A i \in 1..Len(Append(buffer, b)) : Append(buffer, b)[i] = sent[i]
        BY <3>1, <3>3
      <4>3. QED
        BY <3>3, <3>5, <4>1, <4>2, SameSequence
    <3>7. received' = <<sent>>
      BY <2>1, <3>1, <3>6
    <3>8. QED
      BY <3>5, <3>7
  <2>4. QED
    BY <1>1, <2>1, <2>2, <2>3 DEF InStep
<1>8. CASE NextFrame
  <2>1. /\ rest = <<>> /\ received' = <<>> /\ (started' <=> phase = "hunt")
        /\ phase' = phase /\ got_header' = got_header /\ cuts' = cuts
    BY <1>8 DEF NextFrame, parserVars
  <2>2. rest' # <<>> /\ Position' = 0
    BY <1>8, NewFrame
  <2>3. ~cuts => phase = "hunt"
    BY <2>1 DEF InStep
  <2>4. QED
    BY <2>1, <2>2, <2>3 DEF InStep
<1>9. CASE Cut
  BY <1>9 DEF Cut, parserVars, InStep
<1>10. CASE UNCHANGED vars
  BY <1>10 DEF vars, parserVars, streamVars, InStep, Position, BodyOf
<1>11. QED
  BY <1>2, <1>3, <1>4, <1>5, <1>6, <1>7, <1>8, <1>9, <1>10
     DEF Next, ParserProcessByte

\* With sizes that count the whole message a frame that finds the parser hunting
\* is handed over as the message that was sent, with its last byte, and leaves it
\* hunting (lines 44-86), for every length of header and data.
THEOREM FramesDelivered ==
  ASSUME SizeCounts = "message" PROVE Spec => []DeliveredWhole
<1> DEFINE IInv == TypeOK /\ StreamInv /\ InStep
<1>1. Init => StreamInv /\ InStep
  BY DEF Init, StreamInv, InStep
<1>2. StreamInv /\ InStep /\ TypeOK /\ [Next]_vars => (StreamInv /\ InStep)'
  BY StreamStep, InStepStep
<1>3. InStep => DeliveredWhole
  BY DEF InStep, DeliveredWhole
<1>4. Spec => []TypeOK
  BY TypeCorrect
<1>5. QED
  BY <1>1, <1>2, <1>3, <1>4, PTL DEF Spec

-----------------------------------------------------------------------------
(* After a cut.                                                             *)

\* The bytes that are stored or about to be are bytes, and so is their size.
LEMMA ComingBytes ==
  ASSUME TypeOK
  PROVE  /\ Len(buffer) \in Nat /\ Len(rest) \in Nat
         /\ Reach = Len(buffer) + Len(rest)
         /\ \A i \in 1..Reach : Coming(i) \in Byte
         /\ Reach >= 3 => ComingSize \in Nat
<1>1. Len(buffer) \in Nat /\ Len(rest) \in Nat /\ Reach = Len(buffer) + Len(rest)
  BY NotEmpty DEF TypeOK, Reach
<1>2. ASSUME NEW i \in 1..Reach PROVE Coming(i) \in Byte
  <2>1. CASE i <= Len(buffer)
    <3>1. i \in 1..Len(buffer)
      BY <1>1, <2>1
    <3>2. buffer[i] \in Byte
      BY <3>1 DEF TypeOK
    <3>3. QED
      BY <2>1, <3>2 DEF Coming
  <2>2. CASE ~(i <= Len(buffer))
    <3>1. i - Len(buffer) \in 1..Len(rest)
      BY <1>1, <2>2
    <3>2. rest[i - Len(buffer)] \in Byte
      BY <3>1 DEF TypeOK
    <3>3. QED
      BY <2>2, <3>2 DEF Coming
  <2>3. QED
    BY <2>1, <2>2
<1>3. ASSUME Reach >= 3 PROVE ComingSize \in Nat
  <2>1. Coming(2) \in Byte /\ Coming(3) \in Byte
    BY <1>1, <1>2, <1>3
  <2>2. Coming(2) \in Nat /\ Base * Coming(3) \in Nat
    BY <2>1, HighByte, Constants
  <2>3. QED
    BY <2>2 DEF ComingSize
<1>4. QED
  BY <1>1, <1>2, <1>3

\* To store a byte changes nothing of what the message is going to be.
LEMMA ComingStored ==
  ASSUME TypeOK, NEW b, Take(b), buffer' = Append(buffer, b)
  PROVE  /\ Reach' = Reach /\ Reach >= Len(buffer) + 1 /\ Reach \in Nat
         /\ \A i \in 1..Reach : Coming(i)' = Coming(i)
         /\ Reach >= 3 => ComingSize' = ComingSize
<1>1. /\ b = rest[1] /\ b \in Byte /\ Len(rest) \in Nat \ {0}
      /\ Len(rest') = Len(rest) - 1
      /\ \A i \in 1..(Len(rest) - 1) : rest'[i] = rest[i + 1]
  BY TakeByte
<1>2. /\ Len(buffer) \in Nat /\ Len(buffer') = Len(buffer) + 1
      /\ buffer'[Len(buffer) + 1] = b
      /\ \A i \in 1..Len(buffer) : buffer'[i] = buffer[i]
  BY <1>1, StoredByte
<1>3. Reach' = Reach /\ Reach >= Len(buffer) + 1 /\ Reach \in Nat
  BY <1>1, <1>2 DEF Reach
<1>4. ASSUME NEW i \in 1..Reach PROVE Coming(i)' = Coming(i)
  <2>1. CASE i <= Len(buffer)
    BY <1>2, <2>1 DEF Coming
  <2>2. CASE i = Len(buffer) + 1
    <3>1. Coming(i)' = b
      BY <1>2, <2>2 DEF Coming
    <3>2. Coming(i) = rest[i - Len(buffer)] /\ i - Len(buffer) = 1
      BY <1>2, <2>2 DEF Coming
    <3>3. QED
      BY <1>1, <3>1, <3>2
  <2>3. CASE i > Len(buffer) + 1
    <3>1. Coming(i)' = rest'[i - (Len(buffer) + 1)] /\ Coming(i) = rest[i - Len(buffer)]
      BY <1>2, <2>3 DEF Coming
    <3>2. /\ i - (Len(buffer) + 1) \in 1..(Len(rest) - 1)
          /\ (i - (Len(buffer) + 1)) + 1 = i - Len(buffer)
      BY <1>1, <1>2, <2>3 DEF Reach
    <3>3. QED
      BY <1>1, <3>1, <3>2
  <2>4. QED
    BY <1>2, <2>1, <2>2, <2>3
<1>5. ASSUME Reach >= 3 PROVE ComingSize' = ComingSize
  <2>1. 2 \in 1..Reach /\ 3 \in 1..Reach
    BY <1>3, <1>5
  <2>2. Coming(2)' = Coming(2) /\ Coming(3)' = Coming(3)
    BY <1>4, <2>1
  <2>3. QED
    BY <2>2 DEF ComingSize
<1>6. QED
  BY <1>3, <1>4, <1>5

\* The size that is learned is the one that was coming.
LEMMA LearnedSize ==
  ASSUME TypeOK, Learns, NEW b, Take(b)
  PROVE  /\ SizeOf(Append(buffer, b)) = ComingSize /\ ComingSize \in Nat
         /\ Reach >= HeaderSize /\ Reach >= 3 /\ Len(buffer) + 1 = HeaderSize
         /\ ~got_header
<1>1. /\ b = rest[1] /\ b \in Byte /\ Len(rest) \in Nat \ {0}
  BY TakeByte
<1>2. /\ Len(buffer) \in Nat
      /\ Append(buffer, b)[Len(buffer) + 1] = b
      /\ \A i \in 1..Len(buffer) : Append(buffer, b)[i] = buffer[i]
  BY <1>1, StoredByte
<1>3. Len(buffer) + 1 = HeaderSize /\ Len(buffer) >= 2 /\ ~got_header
  BY <1>2, Constants DEF Learns
<1>4. Reach >= HeaderSize /\ Reach >= 3
  BY <1>1, <1>2, <1>3, Constants DEF Reach
<1>5. ASSUME NEW i \in {2, 3} PROVE Append(buffer, b)[i] = Coming(i)
  <2>1. CASE i <= Len(buffer)
    BY <1>2, <2>1 DEF Coming
  <2>2. CASE ~(i <= Len(buffer))
    <3>1. i = Len(buffer) + 1 /\ i - Len(buffer) = 1
      BY <1>2, <1>3, <2>2
    <3>2. Coming(i) = rest[1]
      BY <2>2, <3>1 DEF Coming
    <3>3. QED
      BY <1>1, <1>2, <3>1, <3>2
  <2>3. QED
    BY <2>1, <2>2
<1>6. SizeOf(Append(buffer, b)) = ComingSize
  BY <1>5 DEF SizeOf, ComingSize
<1>7. QED
  BY <1>3, <1>4, <1>6, ComingBytes

\* A parser that reads a new frame as the rest of a message takes its mark or
\* its id for the size, unless it has the size already.
LEMMA ComingFrame ==
  ASSUME CleanStream, TypeOK, NextFrame
  PROVE  /\ rest = <<>> /\ Reach = Len(buffer) /\ Reach' >= HeaderSize /\ Reach' >= 3
         /\ Len(buffer) < 3 => ComingSize' \in Nat /\ ComingSize' > MaxTotal
         /\ Len(buffer) >= 3 => ComingSize' = ComingSize
<1>1. rest = <<>> /\ buffer' = buffer
  BY DEF NextFrame, parserVars
<1>2. /\ Shaped(sent', DataBytes) /\ Len(sent') \in HeaderSize..MaxTotal
      /\ Len(rest') = Len(sent') + 2 /\ rest'[1] = CharA /\ rest'[2] = CharE
      /\ \A i \in 1..Len(sent') : rest'[i + 2] = sent'[i]
  BY NewFrame
<1>3. Len(buffer) \in Nat /\ Reach = Len(buffer)
  BY <1>1, ComingBytes, EmptySequence
<1>4. Reach' = Len(buffer) + Len(sent') + 2
  BY <1>1, <1>2, <1>3, Constants DEF Reach
<1>5. Reach' >= HeaderSize /\ Reach' >= 3
  BY <1>2, <1>3, <1>4, Constants
<1>6. rest'[3] \in Ids
  <2>1. 1 \in 1..Len(sent') /\ sent'[1] \in Ids
    BY <1>2, Constants DEF Shaped
  <2>2. rest'[1 + 2] = sent'[1]
    BY <1>2, <2>1
  <2>3. QED
    BY <2>1, <2>2
<1>7. ASSUME Len(buffer) < 3 PROVE ComingSize' \in Nat /\ ComingSize' > MaxTotal
  <2>1. Coming(3)' \in Byte /\ Coming(3)' # 0
    <3>1. CASE Len(buffer) = 0
      <4>1. Coming(3)' = rest'[3]
        BY <1>1, <3>1 DEF Coming
      <4>2. QED
        BY <1>6, <4>1, Constants
    <3>2. CASE Len(buffer) = 1
      <4>1. Coming(3)' = rest'[2]
        BY <1>1, <3>2 DEF Coming
      <4>2. Coming(3)' = CharE
        BY <1>2, <4>1
      <4>3. QED
        BY <4>2, Constants DEF CleanStream
    <3>3. CASE Len(buffer) = 2
      <4>1. Coming(3)' = rest'[1]
        BY <1>1, <3>3 DEF Coming
      <4>2. QED
        BY <1>2, <4>1, Constants
    <3>4. QED
      BY <1>3, <1>7, <3>1, <3>2, <3>3
  <2>2. ASSUME Len(buffer) = 2 PROVE Coming(2)' \in Byte
    <3>1. Coming(2)' = buffer[2]
      BY <1>1, <2>2 DEF Coming
    <3>2. 2 \in 1..Len(buffer) /\ buffer \in Seq(Byte)
      BY <2>2 DEF TypeOK
    <3>3. buffer[2] \in Byte
      BY <3>2
    <3>4. QED
      BY <3>1, <3>3
  <2>3. ASSUME Len(buffer) # 2 PROVE Coming(2)' \in Byte
    <3>1. Coming(2)' = IF Len(buffer) = 0 THEN rest'[2] ELSE rest'[1]
      BY <1>1, <1>3, <1>7, <2>3 DEF Coming
    <3>2. Coming(2)' \in Byte
      BY <1>2, <3>1, Constants
    <3>3. QED
      BY <3>2
  <2>4. Coming(2)' \in Byte
    BY <2>2, <2>3
  <2>5. /\ Base * Coming(3)' \in Nat /\ Base * Coming(3)' >= Base
        /\ Coming(2)' \in Nat
    BY <2>1, <2>4, HighByte, Constants
  <2>6. ComingSize' = Coming(2)' + Base * Coming(3)'
    BY DEF ComingSize
  <2>7. QED
    BY <2>5, <2>6, Constants
<1>8. ASSUME Len(buffer) >= 3 PROVE ComingSize' = ComingSize
  <2>1. Coming(2)' = Coming(2) /\ Coming(3)' = Coming(3)
    BY <1>1, <1>3, <1>8 DEF Coming
  <2>2. QED
    BY <2>1 DEF ComingSize
<1>9. QED
  BY <1>1, <1>3, <1>5, <1>7, <1>8

\* What the first bytes of a frame look like to a parser that does not take part
\* in it: only the mark and the size can be an 'A', and the size is followed by 0.
LEMMA OutOfStep ==
  ASSUME CleanStream, TypeOK, StreamInv, rest # <<>>, cuts, rest[1] = CharA
  PROVE  /\ Position = 0 \/ Position = 3
         /\ Len(rest) > 1
         /\ Position = 3 => rest[2] # CharE
<1>1. /\ Shaped(sent, DataBytes)
      /\ Len(sent) \in HeaderSize..MaxTotal /\ Len(sent) >= 3 /\ Len(sent) \in Nat
      /\ Len(rest) \in Nat \ {0} /\ Position \in 0..(Len(sent) + 1)
      /\ Len(rest) = Len(sent) + 2 - Position
      /\ Position = 1 => rest[1] = CharE
      /\ Position >= 2 => rest[1] = sent[Position - 1]
      /\ \A i \in 1..Len(rest) : Position + i >= 3 => rest[i] = sent[Position + i - 2]
  BY NextByte
<1>2. DataBytes = CutBytes
  BY DEF DataBytes
<1>3. /\ sent[1] \in Ids /\ sent[3] = 0
      /\ \A i \in 4..HeaderSize : sent[i] = 0
      /\ \A i \in (HeaderSize + 1)..Len(sent) : sent[i] \in CutBytes
  BY <1>1, <1>2 DEF Shaped
<1>4. CharA # CharE /\ CharA # 0 /\ CharA \notin Ids /\ CharA \notin CutBytes /\ CharE # 0
  BY Constants DEF CleanStream
<1>5. Position # 1
  BY <1>1, <1>4
<1>6. Position # 2
  <2>1. ASSUME Position = 2 PROVE rest[1] = sent[1]
    BY <1>1, <2>1
  <2>2. QED
    BY <1>3, <1>4, <2>1
<1>7. ~(Position >= 4)
  <2>1. SUFFICES ASSUME Position >= 4 PROVE FALSE
    OBVIOUS
  <2>2. rest[1] = sent[Position - 1] /\ Position - 1 \in 3..Len(sent)
    BY <1>1, <2>1
  <2>3. Position - 1 \in 4..HeaderSize \/ Position - 1 \in (HeaderSize + 1)..Len(sent)
          \/ Position - 1 = 3
    BY <1>1, <2>2, Constants
  <2>4. sent[Position - 1] = 0 \/ sent[Position - 1] \in CutBytes
    BY <1>3, <2>3
  <2>5. QED
    BY <1>4, <2>2, <2>4
<1>8. Position = 0 \/ Position = 3
  BY <1>1, <1>5, <1>6, <1>7
<1>9. Len(rest) > 1
  BY <1>1, <1>8
<1>10. ASSUME Position = 3 PROVE rest[2] # CharE
  <2>1. 2 \in 1..Len(rest) /\ Position + 2 >= 3 /\ Position + 2 - 2 = 3
    BY <1>9, <1>1, <1>10
  <2>2. rest[2] = sent[Position + 2 - 2]
    BY <1>1, <2>1
  <2>3. QED
    BY <1>3, <1>4, <2>1, <2>2
<1>11. QED
  BY <1>8, <1>9, <1>10

LEMMA HuntStep ==
  ASSUME CleanStream, TypeOK, SyncInv, HuntInv, [Next]_vars
  PROVE  HuntInv'
<1>1. ASSUME NEW b, Take(b)
      PROVE  /\ rest # <<>> /\ Position' # 0 /\ (started' <=> started)
             /\ ~cuts => started
  <2>1. /\ rest # <<>> /\ started' = started /\ Position' = Position + 1
    BY <1>1, TakeByte
  <2>2. Position \in Nat
    BY <2>1, NextByte DEF SyncInv
  <2>3. ~cuts => started
    BY <2>1 DEF SyncInv, InStep
  <2>4. QED
    BY <2>1, <2>2, <2>3
<1>2. CASE HuntByte
  <2>1. PICK b : Take(b) /\ phase' = IF b = CharA THEN "header" ELSE "hunt"
    BY <1>2 DEF HuntByte
  <2>2. /\ b = rest[1] /\ Len(rest) \in Nat \ {0}
        /\ \A i \in 1..(Len(rest) - 1) : rest'[i] = rest[i + 1]
        /\ (rest' = <<>> <=> Len(rest) = 1)
    BY <2>1, TakeByte
  <2>3. phase = "hunt" /\ (Position = 0 => started)
    BY <1>1, <1>2, <2>1 DEF HuntByte, HuntInv
  <2>4. started => Position = 0
    BY <1>1, <2>1, <2>3 DEF SyncInv, InStep, BodyOf
  <2>5. CASE b # CharA
    BY <1>1, <2>1, <2>5 DEF HuntInv
  <2>6. CASE b = CharA
    <3>1. CASE started
      <4>1. Len(rest) > 1
        BY <1>1, <2>1, <2>4, <3>1, NextByte DEF SyncInv
      <4>2. QED
        BY <1>1, <2>1, <2>2, <2>6, <3>1, <4>1 DEF HuntInv
    <3>2. CASE ~started
      <4>1. Position = 3 /\ rest[2] # CharE /\ Len(rest) > 1
        BY <1>1, <2>1, <2>2, <2>3, <2>6, <3>2, OutOfStep DEF SyncInv
      <4>2. rest'[1] # CharE /\ rest' # <<>>
        BY <2>2, <4>1
      <4>3. QED
        BY <1>1, <2>1, <2>6, <4>2 DEF HuntInv
    <3>3. QED
      BY <3>1, <3>2
  <2>7. QED
    BY <2>5, <2>6
<1>3. CASE HeaderByte
  BY <1>3 DEF HeaderByte, HuntInv
<1>4. ASSUME ParserProcessByte, phase' = "hunt" PROVE HuntInv'
  <2>1. Position' # 0
    BY <1>1, <1>4 DEF ParserProcessByte, HuntByte, HeaderByte, HeaderMissed, TooLarge,
                      StoreByte, Deliver
  <2>2. QED
    BY <1>4, <2>1 DEF HuntInv
<1>5. CASE HeaderMissed
  BY <1>4, <1>5 DEF ParserProcessByte, HeaderMissed, Reset
<1>6. CASE TooLarge
  BY <1>4, <1>6 DEF ParserProcessByte, TooLarge, Reset
<1>7. CASE StoreByte
  BY <1>7 DEF StoreByte, HuntInv
<1>8. CASE Deliver
  BY <1>4, <1>8 DEF ParserProcessByte, Deliver, Reset
<1>9. CASE NextFrame
  <2>1. (started' <=> phase = "hunt") /\ phase' = phase
    BY <1>9 DEF NextFrame, parserVars
  <2>2. rest'[1] # CharE /\ rest' # <<>>
    BY <1>9, NewFrame, Constants
  <2>3. QED
    BY <2>1, <2>2 DEF HuntInv
<1>10. CASE Cut
  BY <1>10 DEF Cut, HuntInv
<1>11. CASE UNCHANGED vars
  BY <1>11 DEF vars, parserVars, streamVars, HuntInv, Position
<1>12. QED
  BY <1>2, <1>3, <1>5, <1>6, <1>7, <1>8, <1>9, <1>10, <1>11
     DEF Next, ParserProcessByte

\* Only a frame seen from its start is entered at its mark.
LEMMA Entered ==
  ASSUME CleanStream, TypeOK, SyncInv, HuntInv, HeaderByte
  PROVE  /\ started /\ started' = started /\ stray' = stray /\ ~got_header'
         /\ phase' = "body" /\ buffer' = <<>> /\ Len(buffer') = 0
         /\ bytes_expected' = MaxTotal
         /\ rest' # <<>> /\ Reach' \in Nat /\ Reach' >= HeaderSize /\ Reach' >= 3
         /\ ComingSize' >= HeaderSize
<1>1. /\ Take(CharE) /\ phase = "header" /\ phase' = "body" /\ buffer' = <<>>
      /\ bytes_expected' = MaxTotal /\ got_header' = got_header
  BY DEF HeaderByte
<1>2. /\ rest[1] = CharE /\ rest # <<>> /\ Len(rest) \in Nat \ {0}
      /\ Len(rest') = Len(rest) - 1 /\ (rest' = <<>> <=> Len(rest) = 1)
      /\ \A i \in 1..(Len(rest) - 1) : rest'[i] = rest[i + 1]
      /\ started' = started
      /\ stray' = IF started \/ stray > MaxStray THEN stray ELSE stray + 1
  BY <1>1, TakeByte
<1>3. started
  BY <1>1, <1>2 DEF HuntInv
<1>4. Position = 1
  BY <1>1, <1>2, <1>3 DEF SyncInv, InStep, BodyOf
<1>5. /\ Shaped(sent, DataBytes)
      /\ Len(sent) \in HeaderSize..MaxTotal /\ Len(sent) >= 3 /\ Len(sent) \in Nat
      /\ Len(rest) = Len(sent) + 2 - Position
      /\ \A i \in 1..Len(rest) : Position + i >= 3 => rest[i] = sent[Position + i - 2]
  BY <1>2, NextByte DEF SyncInv
<1>6. Len(buffer') = 0
  BY <1>1, EmptySequence
<1>7. Len(rest') = Len(sent) /\ Reach' = Len(sent)
  BY <1>2, <1>4, <1>5, <1>6 DEF Reach
<1>8. ASSUME NEW i \in {2, 3} PROVE Coming(i)' = sent[i]
  <2>1. Coming(i)' = rest'[i]
    BY <1>6 DEF Coming
  <2>2. i \in 1..(Len(rest) - 1) /\ i + 1 \in 1..Len(rest)
    BY <1>4, <1>5
  <2>3. rest'[i] = rest[i + 1] /\ rest[i + 1] = sent[Position + (i + 1) - 2]
    BY <1>2, <1>4, <1>5, <2>2
  <2>4. Position + (i + 1) - 2 = i
    BY <1>4
  <2>5. QED
    BY <2>1, <2>3, <2>4
<1>9. ComingSize' = Len(sent)
  <2>1. sent[2] = Len(sent) /\ sent[3] = 0
    BY <1>5 DEF Shaped, CleanStream
  <2>2. Coming(2)' = Len(sent) /\ Coming(3)' = 0
    BY <1>8, <2>1
  <2>3. ComingSize' = Coming(2)' + Base * Coming(3)'
    BY DEF ComingSize
  <2>4. QED
    BY <1>5, <2>2, <2>3, Constants
<1>10. ~got_header'
  BY <1>1 DEF SyncInv, InStep
<1>11. QED
  BY <1>1, <1>2, <1>3, <1>4, <1>5, <1>6, <1>7, <1>9, <1>10

LEMMA BodyStep ==
  ASSUME CleanStream, TypeOK, SyncInv, HuntInv, BodyInv, [Next]_vars
  PROVE  BodyInv'
<1>1. CASE HuntByte
  <2>1. phase' \in {"header", "hunt"}
    BY <1>1 DEF HuntByte
  <2>2. QED
    BY <2>1 DEF BodyInv
<1>2. CASE HeaderByte
  BY <1>2, Entered, Constants DEF BodyInv
<1>3. CASE HeaderMissed
  BY <1>3 DEF HeaderMissed, Reset, BodyInv
<1>4. CASE TooLarge
  BY <1>4 DEF TooLarge, Reset, BodyInv
<1>5. CASE StoreByte
  <2>1. PICK b \in Byte :
          /\ Take(b) /\ (Learns => SizeOf(Append(buffer, b)) <= MaxTotal)
          /\ Len(buffer) + 1 # Expected(b)
          /\ buffer' = Append(buffer, b) /\ bytes_expected' = Expected(b)
    BY <1>5 DEF StoreByte
  <2>2. phase = "body" /\ phase' = "body" /\ (got_header' <=> got_header \/ Learns)
    BY <1>5 DEF StoreByte
  <2>3. Len(buffer) \in Nat /\ Len(buffer') = Len(buffer) + 1
    BY <2>1, StoredByte
  <2>4. /\ Reach' = Reach /\ Reach \in Nat /\ Reach >= Len(buffer) + 1
        /\ Reach >= 3 => ComingSize' = ComingSize
    BY <2>1, ComingStored
  <2>5. rest # <<>>
    BY <2>1, TakeByte
  <2>6. CASE got_header
    <3>1. /\ HeaderSize <= Len(buffer) /\ Len(buffer) < bytes_expected
          /\ bytes_expected <= MaxTotal
      BY <2>2, <2>6 DEF BodyInv
    <3>2. bytes_expected' = bytes_expected /\ Len(buffer) + 1 # bytes_expected
      BY <2>1, <2>6 DEF Expected, Learns
    <3>3. bytes_expected \in Nat
      BY Lengths DEF TypeOK
    <3>4. QED
      BY <2>2, <2>3, <2>6, <3>1, <3>2, <3>3, Constants DEF BodyInv
  <2>7. CASE ~got_header
    <3>1. /\ Len(buffer) < HeaderSize /\ bytes_expected = MaxTotal
          /\ Reach >= HeaderSize /\ (Reach >= 3 => ComingSize >= HeaderSize)
      BY <2>2, <2>5, <2>7 DEF BodyInv
    <3>2. CASE Learns
      <4>1. /\ SizeOf(Append(buffer, b)) = ComingSize /\ ComingSize \in Nat
            /\ Reach >= 3 /\ Len(buffer) + 1 = HeaderSize
        BY <2>1, <3>2, LearnedSize
      <4>2. bytes_expected' = ComingSize /\ Len(buffer) + 1 # ComingSize
            /\ ComingSize <= MaxTotal
        BY <2>1, <3>2, <4>1 DEF Expected
      <4>3. QED
        BY <2>2, <2>3, <3>1, <3>2, <4>1, <4>2, Constants DEF BodyInv
    <3>3. CASE ~Learns
      <4>1. bytes_expected' = MaxTotal
        BY <2>1, <3>1, <3>3 DEF Expected
      <4>2. Len(buffer) + 1 < HeaderSize
        BY <2>3, <2>7, <3>1, <3>3, Constants DEF Learns
      <4>3. QED
        BY <2>2, <2>3, <2>4, <2>7, <3>1, <3>3, <4>1, <4>2 DEF BodyInv
    <3>4. QED
      BY <3>2, <3>3
  <2>8. QED
    BY <2>6, <2>7
<1>6. CASE Deliver
  BY <1>6 DEF Deliver, Reset, BodyInv
<1>7. CASE NextFrame
  <2>1. phase' = phase /\ got_header' = got_header /\ buffer' = buffer
        /\ bytes_expected' = bytes_expected
    BY <1>7 DEF NextFrame, parserVars
  <2>2. /\ Reach = Len(buffer) /\ Reach' >= HeaderSize
        /\ Len(buffer) < 3 => ComingSize' \in Nat /\ ComingSize' > MaxTotal
        /\ Len(buffer) >= 3 => ComingSize' = ComingSize
    BY <1>7, ComingFrame
  <2>3. Len(buffer) \in Nat
    BY ComingBytes
  <2>4. MaxTotal >= HeaderSize
    BY Constants
  <2>5. phase = "body" /\ ~got_header => ComingSize' >= HeaderSize
    BY <2>2, <2>3, <2>4, Constants DEF BodyInv
  <2>6. QED
    BY <2>1, <2>2, <2>5 DEF BodyInv
<1>8. CASE Cut
  <2>1. /\ phase' = phase /\ got_header' = got_header /\ buffer' = buffer
        /\ bytes_expected' = bytes_expected /\ rest' = <<>>
    BY <1>8 DEF Cut, parserVars
  <2>2. Len(buffer) \in Nat /\ Len(rest) \in Nat /\ Reach = Len(buffer) + Len(rest)
    BY ComingBytes
  <2>3. Reach' = Len(buffer)
    BY <2>1, <2>2, EmptySequence DEF Reach
  <2>4. Len(buffer) >= 3 => ComingSize' = ComingSize
    BY <2>1, <2>2 DEF ComingSize, Coming
  <2>5. QED
    BY <2>1, <2>2, <2>3, <2>4 DEF BodyInv
<1>9. CASE UNCHANGED vars
  BY <1>9 DEF vars, parserVars, BodyInv, Reach, ComingSize, Coming
<1>10. QED
  BY <1>1, <1>2, <1>3, <1>4, <1>5, <1>6, <1>7, <1>8, <1>9
     DEF Next, ParserProcessByte

LEMMA StrayStep ==
  ASSUME CleanStream, TypeOK, SyncInv, HuntInv, BodyInv, StrayInv, [Next]_vars
  PROVE  StrayInv'
<1>1. /\ MaxStray = MaxTotal + MaxTotal - 2 /\ MaxTotal \in Nat /\ MaxTotal >= 4
      /\ HeaderSize <= MaxTotal /\ HeaderSize \in Nat /\ HeaderSize >= 3
  BY Lengths, Constants DEF CleanStream
<1>2. ASSUME NEW b, Take(b)
      PROVE  /\ rest # <<>> /\ b \in Byte
             /\ Len(rest) \in Nat \ {0} /\ Len(rest') = Len(rest) - 1
             /\ (rest' = <<>> <=> Len(rest) = 1)
             /\ (started' <=> started) /\ stray \in Nat
             /\ (started => stray' = stray) /\ (~started => stray' = stray + 1)
             /\ Len(rest) <= MaxTotal + 2
  <2>1. /\ rest # <<>> /\ b \in Byte
        /\ Len(rest) \in Nat \ {0} /\ Len(rest') = Len(rest) - 1
        /\ (rest' = <<>> <=> Len(rest) = 1) /\ started' = started
        /\ stray' = IF started \/ stray > MaxStray THEN stray ELSE stray + 1
    BY <1>2, TakeByte
  <2>2. stray \in Nat
    BY <1>1 DEF TypeOK
  <2>3. ~(stray > MaxStray)
    BY <1>1, <2>2 DEF StrayInv
  <2>4. Len(rest) <= Len(sent) + 2 /\ Len(sent) \in Nat /\ Len(sent) <= MaxTotal
    BY <1>1, <2>1, NextByte DEF SyncInv
  <2>5. QED
    BY <1>1, <2>1, <2>2, <2>3, <2>4
<1>3. ASSUME NEW b, Take(b), started PROVE StrayInv'
  BY <1>2, <1>3 DEF StrayInv
<1>4. ASSUME NEW b, Take(b), ~started, phase # "body", phase' # "body" PROVE StrayInv'
  <2>1. stray + Len(rest) <= MaxStray
    BY <1>4 DEF StrayInv
  <2>2. stray' + Len(rest') <= MaxStray /\ stray' <= MaxStray
    BY <1>1, <1>2, <1>4, <2>1
  <2>3. QED
    BY <1>4, <2>2 DEF StrayInv
<1>5. ASSUME NEW b, Take(b), ~started, phase = "body", phase' # "body",
             Late => Swallow = 1
      PROVE  StrayInv'
  <2>1. rest # <<>> /\ (Late \/ Early)
    BY <1>2, <1>5 DEF StrayInv, Fresh
  <2>2. CASE Late
    <3>1. stray + 1 <= MaxTotal - 3
      BY <1>5, <2>2 DEF Late
    <3>2. stray' + Len(rest') <= MaxStray /\ stray' <= MaxStray
      BY <1>1, <1>2, <1>5, <3>1
    <3>3. QED
      BY <1>5, <3>2 DEF StrayInv
  <2>3. CASE Early
    <3>1. stray + Len(rest) <= MaxTotal + 2
      BY <2>3 DEF Early
    <3>2. stray' + Len(rest') <= MaxStray /\ stray' <= MaxStray
      BY <1>1, <1>2, <1>5, <3>1
    <3>3. QED
      BY <1>5, <3>2 DEF StrayInv
  <2>4. QED
    BY <2>1, <2>2, <2>3
<1>6. CASE HuntByte
  <2>1. PICK b : Take(b) /\ phase = "hunt" /\ phase' # "body"
    BY <1>6 DEF HuntByte
  <2>2. QED
    BY <1>3, <1>4, <2>1
<1>7. CASE HeaderByte
  BY <1>7, Entered DEF StrayInv
<1>8. CASE HeaderMissed
  <2>1. PICK b : Take(b) /\ phase = "header" /\ phase' # "body"
    BY <1>8 DEF HeaderMissed, Reset
  <2>2. QED
    BY <1>3, <1>4, <2>1
<1>9. CASE TooLarge
  <2>1. PICK b \in Byte : Take(b) /\ SizeOf(Append(buffer, b)) > MaxTotal
    BY <1>9 DEF TooLarge
  <2>2. phase = "body" /\ phase' # "body" /\ Learns
    BY <1>9 DEF TooLarge, Reset
  <2>3. /\ SizeOf(Append(buffer, b)) = ComingSize /\ ComingSize \in Nat
        /\ Len(buffer) + 1 = HeaderSize /\ ~got_header
    BY <2>1, <2>2, LearnedSize
  <2>4. Len(buffer) \in Nat
    BY ComingBytes
  <2>5. Swallow = 1
    BY <1>1, <2>1, <2>3, <2>4 DEF Swallow
  <2>6. QED
    BY <1>3, <1>5, <2>1, <2>2, <2>5
<1>10. CASE StoreByte
  <2>1. PICK b \in Byte :
          /\ Take(b) /\ (Learns => SizeOf(Append(buffer, b)) <= MaxTotal)
          /\ Len(buffer) + 1 # Expected(b)
          /\ buffer' = Append(buffer, b) /\ bytes_expected' = Expected(b)
    BY <1>10 DEF StoreByte
  <2>2. phase = "body" /\ phase' = "body" /\ (got_header' <=> got_header \/ Learns)
    BY <1>10 DEF StoreByte
  <2>3. Len(buffer) \in Nat /\ Len(buffer') = Len(buffer) + 1
    BY <2>1, StoredByte
  <2>4. /\ Reach' = Reach /\ Reach \in Nat /\ Reach >= Len(buffer) + 1
        /\ Reach >= 3 => ComingSize' = ComingSize /\ ComingSize \in Nat
    BY <2>1, ComingStored, ComingBytes
  <2>5. /\ rest # <<>> /\ Len(rest) \in Nat \ {0} /\ Len(rest') = Len(rest) - 1
        /\ (rest' = <<>> <=> Len(rest) = 1)
        /\ (started' <=> started) /\ stray \in Nat
        /\ (~started => stray' = stray + 1)
    BY <1>2, <2>1
  <2>6. BodyInv'
    BY BodyStep
  <2>7. CASE started
    BY <1>3, <2>1, <2>7
  <2>8. CASE ~started /\ Late
    <3>1. (got_header \/ Reach >= 3) /\ stray + Swallow <= MaxTotal - 3
      BY <2>8 DEF Late
    <3>2. Swallow' = Swallow - 1 /\ Swallow' \in Nat
      <4>1. CASE got_header
        <5>1. Expected(b) = bytes_expected /\ bytes_expected \in Nat
          BY <1>1, <4>1 DEF Expected, Learns, TypeOK
        <5>2. Len(buffer') < bytes_expected'
          BY <2>2, <2>6, <4>1 DEF BodyInv
        <5>3. QED
          BY <2>1, <2>2, <2>3, <4>1, <5>1, <5>2 DEF Swallow
      <4>2. CASE ~got_header /\ Learns
        <5>1. /\ SizeOf(Append(buffer, b)) = ComingSize /\ ComingSize \in Nat
          BY <2>1, <4>2, LearnedSize
        <5>2. Expected(b) = ComingSize /\ ComingSize <= MaxTotal
          BY <2>1, <4>2, <5>1 DEF Expected
        <5>3. Len(buffer') < bytes_expected'
          BY <2>2, <2>6, <4>2 DEF BodyInv
        <5>4. QED
          BY <2>1, <2>2, <2>3, <4>2, <5>1, <5>2, <5>3 DEF Swallow
      <4>3. CASE ~got_header /\ ~Learns
        <5>1. ComingSize' = ComingSize /\ ComingSize \in Nat /\ Reach' >= 3
          BY <2>4, <3>1, <4>3
        <5>2. Len(buffer') < HeaderSize /\ ComingSize' >= HeaderSize
          BY <2>2, <2>6, <4>3, <5>1 DEF BodyInv
        <5>3. QED
          BY <1>1, <2>2, <2>3, <4>3, <5>1, <5>2 DEF Swallow
      <4>4. QED
        BY <4>1, <4>2, <4>3
    <3>3. Swallow \in Int
      BY <2>3, <2>4, <3>1, Constants, Lengths DEF Swallow, TypeOK
    <3>4. stray' + Swallow' <= MaxTotal - 3 /\ stray' <= MaxStray
      BY <1>1, <2>5, <2>8, <3>1, <3>2, <3>3
    <3>5. Late'
      BY <2>2, <2>4, <3>1, <3>4 DEF Late
    <3>6. QED
      BY <2>2, <3>4, <3>5 DEF StrayInv
  <2>9. CASE ~started /\ Early
    <3>1. ~got_header /\ ComingSize > MaxTotal /\ stray + Len(rest) <= MaxTotal + 2
      BY <2>9 DEF Early
    <3>2. Len(buffer) < HeaderSize /\ Reach >= HeaderSize
      BY <2>2, <2>5, <3>1 DEF BodyInv
    <3>3. Reach >= 3 /\ ComingSize' = ComingSize /\ ComingSize \in Nat
      BY <1>1, <2>4, <3>2
    <3>4. ~Learns
      <4>1. ASSUME Learns PROVE FALSE
        <5>1. SizeOf(Append(buffer, b)) = ComingSize
          BY <2>1, <4>1, LearnedSize
        <5>2. QED
          BY <1>1, <2>1, <3>1, <3>3, <4>1, <5>1
      <4>2. QED
        BY <4>1
    <3>5. Len(buffer) + 1 < HeaderSize
      BY <1>1, <2>3, <3>1, <3>2, <3>4 DEF Learns
    <3>6. rest' # <<>>
      <4>1. Reach = Len(buffer) + Len(rest)
        BY DEF Reach
      <4>2. QED
        BY <1>1, <2>3, <2>5, <3>2, <3>5, <4>1
    <3>7. stray' + Len(rest') <= MaxTotal + 2 /\ stray' <= MaxStray
      BY <1>1, <2>5, <2>9, <3>1
    <3>8. Early'
      BY <2>2, <3>1, <3>3, <3>4, <3>6, <3>7 DEF Early
    <3>9. QED
      BY <2>2, <3>7, <3>8 DEF StrayInv
  <2>10. QED
    BY <2>2, <2>5, <2>7, <2>8, <2>9 DEF StrayInv, Fresh
<1>11. CASE Deliver
  <2>1. PICK b \in Byte : /\ Take(b) /\ (Learns => SizeOf(Append(buffer, b)) <= MaxTotal)
                          /\ Len(buffer) + 1 = Expected(b)
    BY <1>11 DEF Deliver
  <2>2. phase = "body" /\ phase' # "body"
    BY <1>11 DEF Deliver, Reset
  <2>3. Len(buffer) \in Nat /\ bytes_expected \in Nat
    BY <1>1, ComingBytes DEF TypeOK
  <2>4. got_header \/ Learns
    <3>1. ASSUME ~got_header, ~Learns PROVE FALSE
      <4>1. Len(buffer) < HeaderSize /\ Expected(b) = MaxTotal
        BY <2>2, <3>1 DEF BodyInv, Expected
      <4>2. Len(buffer) + 1 # HeaderSize
        BY <3>1 DEF Learns
      <4>3. QED
        BY <1>1, <2>1, <2>3, <4>1, <4>2
    <3>2. QED
      BY <3>1
  <2>5. ASSUME Learns
        PROVE  ~got_header /\ Expected(b) = ComingSize /\ ComingSize \in Nat
               /\ ComingSize <= MaxTotal
    BY <2>1, <2>5, LearnedSize DEF Expected
  <2>6. ASSUME ~Learns PROVE Expected(b) = bytes_expected /\ got_header
    BY <2>4, <2>6 DEF Expected
  <2>7. Swallow = 1
    <3>1. CASE Learns
      BY <1>1, <2>1, <2>3, <2>5, <3>1 DEF Swallow
    <3>2. CASE ~Learns
      BY <2>1, <2>3, <2>6, <3>2 DEF Swallow
    <3>3. QED
      BY <3>1, <3>2
  <2>8. QED
    BY <1>3, <1>5, <2>1, <2>2, <2>7
<1>12. CASE NextFrame
  <2>1. /\ phase' = phase /\ got_header' = got_header /\ buffer' = buffer
        /\ bytes_expected' = bytes_expected /\ rest = <<>>
        /\ (started' <=> phase = "hunt") /\ stray' = stray
    BY <1>12 DEF NextFrame, parserVars
  <2>2. /\ Reach = Len(buffer) /\ Reach' >= 3
        /\ Len(buffer) < 3 => ComingSize' \in Nat /\ ComingSize' > MaxTotal
        /\ Len(buffer) >= 3 => ComingSize' = ComingSize
    BY <1>12, ComingFrame
  <2>3. Len(rest') <= MaxTotal + 2 /\ Len(rest') \in Nat /\ rest' # <<>>
    BY <1>1, <1>12, NewFrame
  <2>4. stray <= MaxStray /\ stray \in Nat /\ Len(buffer) \in Nat
    BY <1>1, ComingBytes DEF StrayInv, TypeOK
  <2>5. CASE phase = "hunt"
    BY <2>1, <2>4, <2>5 DEF StrayInv
  <2>6. CASE phase = "header"
    <3>1. stray = 0
      BY <2>1, <2>6 DEF HuntInv
    <3>2. stray' + Len(rest') <= MaxStray
      BY <1>1, <2>1, <2>3, <3>1
    <3>3. QED
      BY <2>1, <2>4, <2>6, <3>2 DEF StrayInv
  <2>7. CASE phase = "body"
    <3>1. ~started
      BY <2>1, <2>7 DEF SyncInv, InStep
    <3>2. Fresh \/ Late
      BY <2>1, <2>7, <3>1 DEF StrayInv, Early
    <3>3. CASE Fresh
      <4>1. Len(buffer) < 3 /\ stray = 0
        BY <3>3 DEF Fresh
      <4>2. ~got_header
        BY <1>1, <2>4, <2>7, <4>1 DEF BodyInv
      <4>3. Early'
        BY <1>1, <2>1, <2>2, <2>3, <4>1, <4>2 DEF Early
      <4>4. QED
        BY <2>1, <2>4, <2>7, <4>3 DEF StrayInv
    <3>4. CASE Late
      <4>1. (got_header \/ Reach >= 3) /\ stray + Swallow <= MaxTotal - 3
        BY <3>4 DEF Late
      <4>2. Swallow' = Swallow
        BY <2>1, <2>2, <4>1 DEF Swallow
      <4>3. Late'
        BY <2>1, <2>2, <4>1, <4>2 DEF Late
      <4>4. QED
        BY <2>1, <2>4, <2>7, <4>3 DEF StrayInv
    <3>5. QED
      BY <3>2, <3>3, <3>4
  <2>8. QED
    BY <2>5, <2>6, <2>7 DEF TypeOK
<1>13. CASE Cut
  <2>1. /\ phase' = phase /\ got_header' = got_header /\ buffer' = buffer
        /\ bytes_expected' = bytes_expected /\ rest' = <<>>
        /\ ~started' /\ stray' = 0
    BY <1>13 DEF Cut, parserVars
  <2>2. Len(buffer) \in Nat /\ Len(rest') = 0 /\ bytes_expected \in Nat
    BY <1>1, <2>1, ComingBytes, EmptySequence DEF TypeOK
  <2>3. stray' <= MaxStray /\ stray' + Len(rest') <= MaxStray
    BY <1>1, <2>1, <2>2
  <2>4. CASE phase # "body"
    BY <2>1, <2>3, <2>4 DEF StrayInv
  <2>5. CASE phase = "body" /\ Len(buffer) < 3
    <3>1. Fresh'
      BY <2>1, <2>5 DEF Fresh
    <3>2. QED
      BY <2>1, <2>3, <2>5, <3>1 DEF StrayInv
  <2>6. CASE phase = "body" /\ Len(buffer) >= 3
    <3>1. Reach' = Len(buffer)
      BY <2>1, <2>2 DEF Reach
    <3>2. BodyInv'
      BY BodyStep
    <3>3. ComingSize' = ComingSize /\ ComingSize \in Nat
      <4>1. ComingSize' = ComingSize
        BY <2>1, <2>2, <2>6 DEF ComingSize, Coming
      <4>2. Reach >= 3
        BY <2>2, <2>6, ComingBytes
      <4>3. QED
        BY <4>1, <4>2, ComingBytes
    <3>4. Swallow' <= MaxTotal - 3
      <4>1. CASE got_header
        BY <1>1, <2>1, <2>2, <2>6, <3>2, <4>1 DEF Swallow, BodyInv
      <4>2. CASE ~got_header
        BY <1>1, <2>1, <2>2, <2>6, <3>3, <4>2 DEF Swallow
      <4>3. QED
        BY <4>1, <4>2
    <3>5. Swallow' \in Int
      BY <1>1, <2>1, <2>2, <3>3 DEF Swallow
    <3>6. stray' + Swallow' <= MaxTotal - 3 /\ Reach' >= 3
      BY <2>1, <2>6, <3>1, <3>4, <3>5
    <3>7. Late'
      BY <3>6 DEF Late
    <3>8. QED
      BY <2>1, <2>3, <2>6, <3>7 DEF StrayInv
  <2>7. QED
    BY <2>2, <2>4, <2>5, <2>6
<1>14. CASE UNCHANGED vars
  BY <1>14 DEF vars, parserVars, streamVars, StrayInv, Fresh, Late, Early, Swallow,
               Reach, ComingSize, Coming
<1>15. QED
  BY <1>6, <1>7, <1>8, <1>9, <1>10, <1>11, <1>12, <1>13, <1>14
     DEF Next, ParserProcessByte

\* The invariant behind the three theorems that follow.
LEMMA CutInvariant ==
  ASSUME CleanStream PROVE Spec => [](TypeOK /\ SyncInv /\ CutInv)
<1>1. Init => SyncInv /\ CutInv
  <2>1. /\ Len(<<>>) = 0 /\ MaxStray >= 0 /\ MaxTotal \in Nat /\ MaxStray \in Int
    BY Lengths, Constants, EmptySequence DEF CleanStream
  <2>2. Init => SyncInv /\ BodyInv /\ HuntInv
    BY DEF Init, SyncInv, StreamInv, InStep, BodyInv, HuntInv
  <2>3. Init => StrayInv
    BY <2>1 DEF Init, StrayInv
  <2>4. QED
    BY <2>2, <2>3 DEF CutInv
<1>2. TypeOK /\ (SyncInv /\ CutInv) /\ [Next]_vars => (SyncInv /\ CutInv)'
  <2>1. SUFFICES ASSUME TypeOK, SyncInv, CutInv, [Next]_vars PROVE (SyncInv /\ CutInv)'
    OBVIOUS
  <2>2. SizeCounts = "message"
    BY DEF CleanStream
  <2>3. StreamInv' /\ InStep'
    BY <2>1, <2>2, StreamStep, InStepStep DEF SyncInv
  <2>4. HuntInv' /\ BodyInv' /\ StrayInv'
    BY <2>1, HuntStep, BodyStep, StrayStep DEF CutInv
  <2>5. QED
    BY <2>3, <2>4 DEF SyncInv, CutInv
<1>3. Spec => []TypeOK
  BY TypeCorrect
<1>4. QED
  BY <1>1, <1>2, <1>3, PTL DEF Spec

\* In a stream whose ids, data, hwids and timestamps have no 'A' the parser never
\* learns a size that is smaller than what it has stored (lines 47-69), wherever
\* the sessions are cut.
THEOREM NeverExpectsLess == ASSUME CleanStream PROVE Spec => []ExpectsMore
<1>1. BodyInv => ExpectsMore
  BY Constants DEF BodyInv, ExpectsMore
<1>2. Spec => [](TypeOK /\ SyncInv /\ CutInv)
  BY CutInvariant
<1>3. TypeOK /\ SyncInv /\ CutInv => ExpectsMore
  BY <1>1 DEF CutInv
<1>4. QED
  BY <1>2, <1>3, PTL

\* byte_count is zero again whenever the parser leaves a body (lines 56, 82, 104).
NothingStored == phase # "body" => buffer = <<>>

LEMMA HuntsWithNothing == Spec => []NothingStored
<1>1. Init => NothingStored
  BY DEF Init, NothingStored
<1>2. NothingStored /\ [Next]_vars => NothingStored'
  <2>1. SUFFICES ASSUME NothingStored, [Next]_vars PROVE NothingStored'
    OBVIOUS
  <2>2. CASE HuntByte \/ HeaderByte \/ HeaderMissed \/ TooLarge \/ Deliver
    BY <2>1, <2>2
       DEF HuntByte, HeaderByte, HeaderMissed, TooLarge, Deliver, Reset, NothingStored
  <2>3. CASE StoreByte
    BY <2>3 DEF StoreByte, NothingStored
  <2>4. CASE NextFrame \/ Cut \/ UNCHANGED vars
    BY <2>1, <2>4 DEF NextFrame, Cut, vars, parserVars, NothingStored
  <2>5. QED
    BY <2>1, <2>2, <2>3, <2>4 DEF Next, ParserProcessByte
<1>3. QED
  BY <1>1, <1>2, PTL DEF Spec

\* In such a stream, whatever is sent in sessions that are not cut, line 45 never
\* writes behind the message buffer: no test there bounds it, but the length at
\* which the message is complete lies ahead of what is stored and is at most
\* that of the largest message, which the buffer holds.
THEOREM StaysInBuffer == ASSUME CleanStream PROVE Spec => []InsideBuffer
<1>1. TypeOK /\ NothingStored /\ BodyInv => InsideBuffer
  <2>1. SUFFICES ASSUME TypeOK, NothingStored, BodyInv PROVE InsideBuffer
    OBVIOUS
  <2>2. Len(buffer) \in Nat /\ Room = MaxTotal + 2 /\ MaxTotal \in Nat
    BY <2>1, NotEmpty, Lengths DEF TypeOK
  <2>3. CASE phase = "body"
    <3>1. Len(buffer) < bytes_expected /\ bytes_expected <= MaxTotal
      BY <2>1, <2>3, <2>2, Constants DEF BodyInv
    <3>2. QED
      BY <2>1, <2>2, <3>1 DEF InsideBuffer, TypeOK
  <2>4. CASE phase # "body"
    BY <2>1, <2>2, <2>4, EmptySequence DEF NothingStored, InsideBuffer
  <2>5. QED
    BY <2>3, <2>4
<1>2. Spec => [](TypeOK /\ SyncInv /\ CutInv) /\ []NothingStored
  BY CutInvariant, HuntsWithNothing
<1>3. TypeOK /\ NothingStored /\ SyncInv /\ CutInv => InsideBuffer
  BY <1>1 DEF CutInv
<1>4. QED
  BY <1>2, <1>3, PTL

\* In such a stream no session loses more than MaxStray bytes in frames the
\* parser did not see the start of (lines 44-109).
THEOREM BackInStep == ASSUME CleanStream PROVE Spec => []Resynchronises
<1>1. TypeOK /\ SyncInv /\ CutInv => Resynchronises
  BY DEF CutInv, StrayInv, Resynchronises
<1>2. Spec => [](TypeOK /\ SyncInv /\ CutInv)
  BY CutInvariant
<1>3. QED
  BY <1>1, <1>2, PTL
=============================================================================
