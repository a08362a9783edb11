------------------------------- MODULE Parser -------------------------------
(***************************************************************************)
(* The parser of the home protocol (parser.c), a machine that takes one     *)
(* byte after the other from the TLS session, and the stream it reads: one  *)
(* frame after the other, in sessions that may be cut between any two bytes. *)
(* The parser is not told of a cut: its state is that of the last session.  *)
(*                                                                          *)
(* A byte is a number below Base (256), a frame "AE", a header and data; the *)
(* header is the id, the low and the high byte of the size and bytes that   *)
(* the parser does not look at.  The size that servers put there is         *)
(* SizeCounts: the whole message, which is what the parser takes it for, or *)
(* the data alone, which is what the firmware's own codecs put there        *)
(* (ping.c:14, command.c:14, intercom_channel_accept.c:14).                 *)
(***************************************************************************)
EXTENDS Integers, Sequences

CONSTANTS
  HeaderSize,    \* MESSAGE_HEADER_SIZE (13)
  MaxData,       \* MESSAGE_MAX_DATA_SIZE (234)
  Base,          \* values of a byte
  CharA, CharE,  \* the bytes 'A' and 'E'
  Ids,           \* message ids
  WholeBytes,    \* bytes in the data of a stream that is never cut
  CutBytes,      \* bytes in the data of one that may be cut, {} for none such
  SizeCounts     \* what the size field counts

MaxTotal == HeaderSize + MaxData
Byte == 0..(Base - 1)

ASSUME LengthAssumption == /\ HeaderSize \in Nat /\ HeaderSize >= 3
                           /\ MaxData \in Nat /\ Base \in Nat
                           /\ MaxTotal < Base
ASSUME CharAssumption == /\ CharA \in Byte /\ CharE \in Byte /\ CharA # CharE
                         /\ CharA > 0
                         /\ Ids \subseteq Byte \ {0} /\ Ids # {}
                         /\ WholeBytes \subseteq Byte /\ CutBytes \subseteq Byte
ASSUME SizeAssumption == SizeCounts \in {"message", "data"}

VARIABLES
  phase,           \* in_header and in_body: "hunt", "header" or "body"
  got_header,
  buffer,          \* the byte_count bytes stored so far, past the block too
  bytes_expected,
  rest,            \* bytes of the current frame still to come
  sent,            \* the current message
  received,        \* messages handed to the callback during this frame
  started,         \* the parser was hunting when this frame began
  cuts,            \* the sessions of this stream may be cut
  stray            \* bytes of this session in frames that were not started

parserVars == <<phase, got_header, buffer, bytes_expected>>
streamVars == <<sent, started, cuts>>
vars == <<parserVars, rest, received, streamVars, stray>>

\* sizeof(message_t), the heap block ParserInit gets (line 24).
Room == MaxTotal + 2

\* Bytes that a cut may cost, see Resynchronises: all that the message may lack
\* once its size is known but one, and a frame of full length.
MaxStray == (MaxTotal - 3 - 1) + (MaxTotal + 2)

\* The size field of the bytes stored.
SizeOf(b) == b[2] + Base * b[3]

\* What encode puts into a message.
Encode(id, data) ==
  LET size == Len(data) + (IF SizeCounts = "message" THEN HeaderSize ELSE 0)
  IN <<id, size % Base, size \div Base>> \o [i \in 1..(HeaderSize - 3) |-> 0]
       \o data

\* What is written for it: thread_client.c:273-275, and the server alike.
Frame(message) == <<CharA, CharE>> \o message

Messages(bytes) == {Encode(id, data) : id \in Ids,
                      data \in UNION {[1..n -> bytes] : n \in 0..MaxData}}
-----------------------------------------------------------------------------
(* HomeProtocol_ParserInit; no session yet.                                *)
Init ==
  /\ phase = "hunt" /\ got_header = FALSE /\ buffer = <<>>
  /\ bytes_expected = 0
  /\ rest = <<>> /\ sent = <<>> /\ received = <<>>
  /\ started = FALSE /\ stray = 0
  /\ cuts \in {c \in BOOLEAN : c => CutBytes # {}}

\* The next byte of the stream, and the account of those that were lost on
\* frames the parser did not see the start of.
Take(b) ==
  /\ rest # <<>> /\ b = Head(rest)
  /\ rest' = Tail(rest)
  /\ stray' = IF started \/ stray > MaxStray THEN stray ELSE stray + 1
  /\ UNCHANGED streamVars

Reset ==
  /\ phase' = "hunt" /\ got_header' = FALSE /\ buffer' = <<>>
  /\ bytes_expected' = 0

\* Lines 88-92.
HuntByte ==
  /\ phase = "hunt"
  /\ \E b \in Byte : /\ Take(b)
                     /\ phase' = IF b = CharA THEN "header" ELSE "hunt"
  /\ UNCHANGED <<got_header, buffer, bytes_expected, received>>

\* Lines 93-99.
HeaderByte ==
  /\ phase = "header"
  /\ Take(CharE)
  /\ phase' = "body" /\ buffer' = <<>> /\ bytes_expected' = MaxTotal
  /\ UNCHANGED <<got_header, received>>

\* Mutant of HeaderMissed: in_header is not reset (line 101 left out).
HeaderMissedStays ==
  /\ phase = "header"
  /\ \E b \in Byte \ {CharE} : Take(b)
  /\ UNCHANGED <<phase, got_header, buffer, bytes_expected, received>>

\* Lines 100-109: an 'A' too.
HeaderMissed ==
  /\ phase = "header"
  /\ \E b \in Byte \ {CharE} : Take(b)
  /\ Reset
  /\ UNCHANGED received

\* Line 51: with this byte the header is complete.
Learns == ~got_header /\ Len(buffer) + 1 = HeaderSize

\* Mutant of TooLarge: in_body is not reset (line 54 left out).
TooLargeStays ==
  /\ phase = "body" /\ Learns
  /\ \E b \in Byte : Take(b) /\ SizeOf(Append(buffer, b)) > MaxTotal
  /\ buffer' = <<>> /\ bytes_expected' = 0
  /\ UNCHANGED <<phase, got_header, received>>

\* Lines 52-63: no message is that long.
TooLarge ==
  /\ phase = "body" /\ Learns
  /\ \E b \in Byte : Take(b) /\ SizeOf(Append(buffer, b)) > MaxTotal
  /\ Reset
  /\ UNCHANGED received

\* Mutant of Expected: the size of the header comes on top.
ExpectedData(b) ==
  IF Learns THEN HeaderSize + SizeOf(Append(buffer, b)) ELSE bytes_expected

\* Lines 51, 65-69: the length at which the message is complete.
Expected(b) ==
  IF Learns THEN SizeOf(Append(buffer, b)) ELSE bytes_expected

\* Lines 44-67: one byte more, wherever the count has got to.
StoreByte ==
  /\ phase = "body"
  /\ \E b \in Byte :
       /\ Take(b)
       /\ Learns => SizeOf(Append(buffer, b)) <= MaxTotal
       /\ Len(buffer) + 1 # Expected(b)
       /\ buffer' = Append(buffer, b) /\ bytes_expected' = Expected(b)
  /\ got_header' = (got_header \/ Learns)
  /\ UNCHANGED <<phase, received>>

\* Mutant of Deliver: got_header is not reset (line 80 left out).
DeliverKeepsHeader ==
  /\ phase = "body"
  /\ \E b \in Byte :
       /\ Take(b)
       /\ Learns => SizeOf(Append(buffer, b)) <= MaxTotal
       /\ Len(buffer) + 1 = Expected(b)
       /\ received' = Append(received, Append(buffer, b))
  /\ phase' = "hunt" /\ got_header' = TRUE /\ buffer' = <<>>
  /\ bytes_expected' = 0

\* Lines 69-86: the last byte; the callback gets a copy.
Deliver ==
  /\ phase = "body"
  /\ \E b \in Byte :
       /\ Take(b)
       /\ Learns => SizeOf(Append(buffer, b)) <= MaxTotal
       /\ Len(buffer) + 1 = Expected(b)
       /\ received' = Append(received, Append(buffer, b))
  /\ Reset

\* The server begins the next frame.
NextFrame ==
  /\ rest = <<>>
  /\ \E m \in Messages(IF cuts THEN CutBytes ELSE WholeBytes) :
       sent' = m /\ rest' = Frame(m)
  /\ received' = <<>>
  /\ started' = (phase = "hunt")
  /\ UNCHANGED <<parserVars, cuts, stray>>

\* The session ends and another begins; ClientThread does not touch the
\* parser (thread_client.c:330-339).
Cut ==
  /\ cuts
  /\ rest' = <<>> /\ sent' = <<>> /\ received' = <<>>
  /\ started' = FALSE /\ stray' = 0
  /\ UNCHANGED <<parserVars, cuts>>
-----------------------------------------------------------------------------
ParserProcessByte == \/ HuntByte \/ HeaderByte \/ HeaderMissed
                     \/ TooLarge \/ StoreByte \/ Deliver
Next == ParserProcessByte \/ NextFrame \/ Cut

Spec == Init /\ [][Next]_vars
-----------------------------------------------------------------------------
(* Properties.                                                             *)

TypeOK ==
  /\ phase \in {"hunt", "header", "body"} /\ got_header \in BOOLEAN
  /\ buffer \in Seq(Byte)
  /\ bytes_expected \in 0..MaxTotal
  /\ rest \in Seq(Byte) /\ sent \in Seq(Byte) /\ received \in Seq(Seq(Byte))
  /\ started \in BOOLEAN /\ cuts \in BOOLEAN /\ stray \in 0..(MaxStray + 1)

\* A frame that finds the parser hunting is handed over as one message, the
\* one that was sent, with its last byte and not before, whatever bytes it
\* contains ("once we know the size of the message, we can adjust what we are
\* expecting", lines 47-50), and leaves it hunting for the next one.
DeliveredWhole ==
  started => IF rest = <<>> THEN received = <<sent>> /\ phase = "hunt"
                            ELSE received = <<>>

\* "Once we know the size of the message, we can adjust what we are expecting"
\* (lines 47-50): what is expected is never less than what is stored already,
\* so that every message that begins completes.
ExpectsMore == phase = "body" => Len(buffer) < bytes_expected

\* Nothing is written behind the message buffer, although the store of line 45
\* looks at no bound: what keeps it inside is that every size the parser learns
\* lies ahead of its count, in frames that are cut and in what is taken for a
\* frame after a cut, as long as no data, hwid or timestamp contains an 'A'.
InsideBuffer == Len(buffer) <= Room

\* A cut costs the frames that begin within MaxStray bytes of the new session and
\* no others, as long as no data, hwid or timestamp contains an 'A': then the
\* parser is in step.
Resynchronises == stray <= MaxStray
=============================================================================
