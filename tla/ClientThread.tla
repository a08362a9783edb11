---------------------------- MODULE ClientThread ----------------------------
(***************************************************************************)
(* The client thread (thread_client.c): it connects to the home server over *)
(* TLS, writes the messages other threads put into xQueueOutMessages, reads *)
(* what the server sends, pings an idle server and reconnects.  Together    *)
(* with it: the user interface, which sends through the same queue, and the *)
(* TCP connection with the server at its other end, as far as mbedTLS and   *)
(* lwIP let the thread see them.                                            *)
(*                                                                          *)
(* A message is its kind and its number: messages are numbered, modulo      *)
(* NumMod, in the order in which the queue accepts them.  mbedtls_ssl_write *)
(* makes one record of a frame (a frame has at most 249 bytes, a record     *)
(* 2048), so it takes a frame whole or returns WANT_WRITE and keeps the     *)
(* record.                                                                  *)
(***************************************************************************)
EXTENDS Integers, SequencesExt, FiniteSets

CONSTANTS
  QueueLen,    \* capacity of xQueueOutMessages (5, line 51)
  NumMod,      \* messages are numbered modulo NumMod
  WireCap,     \* frames the TCP send buffer holds
  HeapSlots,   \* calls of mbedtls_ssl_setup the heap can serve
  UiLimit,     \* messages the user interface has in the queue at most
  PeerFaults,  \* ways in which a session ends from outside
  Stalls       \* a write may find the connection blocked for ten seconds

PeerEnds == {"notify", "fin", "rst"}

ASSUME QueueAssumption == QueueLen \in Nat \ {0}
ASSUME WireAssumption == WireCap \in Nat \ {0}
ASSUME NumAssumption == NumMod \in Nat /\ NumMod > QueueLen + WireCap + 2
ASSUME HeapAssumption == HeapSlots \in Nat
ASSUME UiAssumption == UiLimit \in Nat
ASSUME PeerAssumption == PeerFaults \subseteq PeerEnds /\ Stalls \in BOOLEAN

NoFrame == [kind |-> "none", n |-> 0]

VARIABLES
  pc,               \* where the thread is
  xQueueOutMessages,
  bytes_remaining,  \* the frame in buffer_out, NoFrame when nothing is left
  overdue,          \* more than ten seconds have passed since timeout_mark
  record,           \* the frame of the record mbedTLS has not sent (out_left)
  heap,             \* calls of mbedtls_ssl_setup that can still succeed
  ui,               \* the user interface waits for room in the queue
  nextn,            \* number of the next message accepted
  peer,             \* the session as lwIP sees it
  wire,             \* frames TCP has accepted and the server not yet read
  got               \* last frame the server read in this session

clientVars == <<xQueueOutMessages, bytes_remaining, overdue, nextn>>
tlsVars == <<record, heap>>
peerVars == <<peer, wire, got>>
vars == <<pc, clientVars, tlsVars, ui, peerVars>>

InSession == pc \in {"request", "loop", "write", "read", "ping"}
Writing == bytes_remaining # NoFrame

\* Messages accepted and not yet handed to TLS, oldest first.
Backlog == (IF Writing THEN <<bytes_remaining>> ELSE <<>>) \o xQueueOutMessages

Full == Len(xQueueOutMessages) >= QueueLen

\* Mutant of SendMessage: at the front of the queue.
SendMessageFirst(kind) ==
  /\ ~Full
  /\ xQueueOutMessages' =
       <<[kind |-> kind, n |-> nextn]>> \o xQueueOutMessages
  /\ nextn' = (nextn + 1) % NumMod

\* xQueueSendToBack: the caller is blocked while the queue is full
\* (portMAX_DELAY, lines 56-64).
SendMessage(kind) ==
  /\ ~Full
  /\ xQueueOutMessages' =
       Append(xQueueOutMessages, [kind |-> kind, n |-> nextn])
  /\ nextn' = (nextn + 1) % NumMod
-----------------------------------------------------------------------------
(* ClientThread_Init and the thread up to its loop, lines 51 and 150-227.   *)
Init ==
  /\ pc = "connect"
  /\ xQueueOutMessages = <<>> /\ bytes_remaining = NoFrame
  /\ overdue = FALSE /\ nextn = 0
  /\ record = NoFrame /\ heap = HeapSlots
  /\ ui = "idle"
  /\ peer = "down" /\ wire = <<>> /\ got = NoFrame

\* Mutant of Connect: the result of mbedtls_ssl_setup is not looked at.
ConnectUnchecked ==
  /\ pc = "connect"
  /\ peer' = "up" /\ wire' = <<>> /\ got' = NoFrame
  /\ pc' = "handshake" /\ heap' = heap - 1
  /\ UNCHANGED <<clientVars, record, ui>>

\* Lines 230-248: connected.  Every call of mbedtls_ssl_setup allocates two
\* record buffers and nothing frees those of the last session; when the heap
\* has none, Error_Handler.
Connect ==
  /\ pc = "connect"
  /\ peer' = "up" /\ wire' = <<>> /\ got' = NoFrame
  /\ IF heap = 0
     THEN pc' = "halted" /\ heap' = heap
     ELSE pc' = "handshake" /\ heap' = heap - 1
  /\ UNCHANGED <<clientVars, record, ui>>

\* Line 230 fails: no address, no route, refused.
ConnectFails ==
  /\ pc = "connect"
  /\ pc' = "finished"
  /\ UNCHANGED <<clientVars, tlsVars, ui, peerVars>>

\* Lines 250-264.  A certificate that does not verify fails the handshake
\* (MBEDTLS_SSL_VERIFY_REQUIRED), so the test of lines 258-262 never fires.
Handshake ==
  /\ pc = "handshake" /\ peer = "up"
  /\ pc' = "request"
  /\ UNCHANGED <<clientVars, tlsVars, ui, peerVars>>

\* Lines 251-255: any other result, a server that is silent for the 100 ms of
\* the read timeout included.
HandshakeFails ==
  /\ pc = "handshake"
  /\ pc' = "finished"
  /\ UNCHANGED <<clientVars, tlsVars, ui, peerVars>>

\* Lines 266-268: the thread sends to its own queue.
RequestConfiguration ==
  /\ pc = "request"
  /\ SendMessage("config")
  /\ pc' = "loop"
  /\ UNCHANGED <<bytes_remaining, overdue, tlsVars, ui, peerVars>>

\* Mutant of Dequeue: does not wait until the last message is written.
DequeueAlways ==
  /\ pc = "loop"
  /\ pc' = "write"
  /\ IF xQueueOutMessages # <<>>
     THEN /\ bytes_remaining' = Head(xQueueOutMessages)
          /\ xQueueOutMessages' = Tail(xQueueOutMessages)
     ELSE UNCHANGED <<bytes_remaining, xQueueOutMessages>>
  /\ UNCHANGED <<overdue, nextn, tlsVars, ui, peerVars>>

\* Lines 271-280: take the next message once the last one is written.
Dequeue ==
  /\ pc = "loop"
  /\ pc' = "write"
  /\ IF ~Writing /\ xQueueOutMessages # <<>>
     THEN /\ bytes_remaining' = Head(xQueueOutMessages)
          /\ xQueueOutMessages' = Tail(xQueueOutMessages)
     ELSE UNCHANGED <<bytes_remaining, xQueueOutMessages>>
  /\ UNCHANGED <<overdue, nextn, tlsVars, ui, peerVars>>

\* Line 283: nothing to write.
SkipWrite ==
  /\ pc = "write" /\ ~Writing
  /\ pc' = "read"
  /\ UNCHANGED <<clientVars, tlsVars, ui, peerVars>>

\* Mutant of Write: bytes_remaining is not reduced (line 287 left out).
WriteUncounted ==
  /\ pc = "write" /\ Writing
  /\ peer # "rst" /\ Len(wire) < WireCap
  /\ wire' = Append(wire, IF record # NoFrame THEN record ELSE bytes_remaining)
  /\ record' = NoFrame
  /\ overdue' = FALSE
  /\ pc' = "read"
  /\ UNCHANGED <<xQueueOutMessages, bytes_remaining, nextn, heap, ui, peer, got>>

\* Lines 284-290: the frame is written; what TLS sends is the record it kept
\* from the last try, if there is one.
Write ==
  /\ pc = "write" /\ Writing
  /\ peer # "rst" /\ Len(wire) < WireCap
  /\ wire' = Append(wire, IF record # NoFrame THEN record ELSE bytes_remaining)
  /\ record' = NoFrame
  /\ bytes_remaining' = NoFrame
  /\ overdue' = FALSE
  /\ pc' = "read"
  /\ UNCHANGED <<xQueueOutMessages, nextn, heap, ui, peer, got>>

\* Mutant of WriteWouldBlock: the frame counts as written.
WriteWouldBlockDone ==
  /\ pc = "write" /\ Writing
  /\ peer # "rst" /\ (Stalls \/ Len(wire) = WireCap)
  /\ record' = IF record # NoFrame THEN record ELSE bytes_remaining
  /\ bytes_remaining' = NoFrame
  /\ pc' = "read"
  /\ UNCHANGED <<xQueueOutMessages, overdue, nextn, heap, ui, peerVars>>

\* Lines 297-300: WANT_WRITE, the record stays in the TLS context.
WriteWouldBlock ==
  /\ pc = "write" /\ Writing
  /\ peer # "rst" /\ (Stalls \/ Len(wire) = WireCap)
  /\ record' = IF record # NoFrame THEN record ELSE bytes_remaining
  /\ pc' = "read"
  /\ UNCHANGED <<clientVars, heap, ui, peerVars>>

\* Lines 291-296: the connection was reset.
WriteFails ==
  /\ pc = "write" /\ Writing /\ peer = "rst"
  /\ pc' = "finished"
  /\ UNCHANGED <<clientVars, tlsVars, ui, peerVars>>

\* Lines 305-308: the parser gets the bytes; nothing it calls sends a message.
ReadData ==
  /\ pc = "read" /\ peer = "up"
  /\ overdue' = FALSE
  /\ pc' = "loop"
  /\ UNCHANGED <<xQueueOutMessages, bytes_remaining, nextn, tlsVars, ui,
                 peerVars>>

\* Lines 309-312: WANT_READ, after a warning alert for instance.
ReadAgain ==
  /\ pc = "read" /\ peer = "up"
  /\ pc' = "loop"
  /\ UNCHANGED <<clientVars, tlsVars, ui, peerVars>>

\* Mutants of ReadTimeout: a ping every 100 ms, and no ping at all.
ReadTimeoutPings ==
  /\ pc = "read" /\ peer = "up"
  /\ pc' = "ping"
  /\ UNCHANGED <<clientVars, tlsVars, ui, peerVars>>
ReadTimeoutSilent ==
  /\ pc = "read" /\ peer = "up"
  /\ pc' = "loop"
  /\ UNCHANGED <<clientVars, tlsVars, ui, peerVars>>

\* Lines 313-321: nothing for 100 ms.
ReadTimeout ==
  /\ pc = "read" /\ peer = "up"
  /\ pc' = IF overdue THEN "ping" ELSE "loop"
  /\ UNCHANGED <<clientVars, tlsVars, ui, peerVars>>

\* Lines 316-318: the thread sends to its own queue again.
Ping ==
  /\ pc = "ping"
  /\ SendMessage("ping")
  /\ pc' = "loop"
  /\ UNCHANGED <<bytes_remaining, overdue, tlsVars, ui, peerVars>>

\* Mutant of ReadCloseNotify: the loop goes on.
ReadCloseNotifyLoops ==
  /\ pc = "read" /\ peer = "notify"
  /\ pc' = "loop"
  /\ UNCHANGED <<clientVars, tlsVars, ui, peerVars>>

\* Lines 322-326: mbedtls_ssl_close_notify sends the record TLS still has, if
\* the connection takes it.
ReadCloseNotify ==
  /\ pc = "read" /\ peer = "notify"
  /\ \/ /\ record # NoFrame /\ Len(wire) < WireCap
        /\ wire' = Append(wire, record) /\ record' = NoFrame
     \/ UNCHANGED <<wire, record>>
  /\ pc' = "finished"
  /\ UNCHANGED <<clientVars, heap, ui, peer, got>>

\* Line 303 returns 0 at the end of the stream and a network error after a
\* reset: no branch tests for them, and the loop goes round.
ReadDead ==
  /\ pc = "read" /\ peer \in {"fin", "rst"}
  /\ pc' = "loop"
  /\ UNCHANGED <<clientVars, tlsVars, ui, peerVars>>

\* Lines 336-338: close the socket, reset the TLS context (its unsent record
\* is dropped), wait a second.  buffer_out and bytes_remaining are kept.
\* Before the first mbedtls_ssl_setup the reset writes through the NULL
\* out_buf, which may fault.
Finish ==
  /\ pc = "finished"
  /\ peer' = "down"
  /\ record' = NoFrame
  /\ \/ pc' = "delay"
     \/ heap = HeapSlots /\ pc' = "halted"
  /\ UNCHANGED <<clientVars, heap, ui, wire, got>>

Delay ==
  /\ pc = "delay"
  /\ pc' = "connect"
  /\ UNCHANGED <<clientVars, tlsVars, ui, peerVars>>
-----------------------------------------------------------------------------
(* The user interface (command_send and intercom_channel_accept_send).      *)
UiMessages == Cardinality({i \in DOMAIN xQueueOutMessages :
                             xQueueOutMessages[i].kind = "ui"})

UiSend ==
  /\ ui = "idle" /\ UiMessages < UiLimit
  /\ SendMessage("ui")
  /\ UNCHANGED <<pc, bytes_remaining, overdue, tlsVars, ui, peerVars>>

UiBlocks ==
  /\ ui = "idle" /\ UiMessages < UiLimit /\ Full
  /\ ui' = "blocked"
  /\ UNCHANGED <<pc, clientVars, tlsVars, peerVars>>

UiResumes ==
  /\ ui = "blocked"
  /\ SendMessage("ui")
  /\ ui' = "idle"
  /\ UNCHANGED <<pc, bytes_remaining, overdue, tlsVars, peerVars>>

(* The server and the network, external.  What TCP accepted before the      *)
(* client closed the connection may still arrive.                           *)
ServerReads ==
  /\ wire # <<>>
  /\ got' = Head(wire) /\ wire' = Tail(wire)
  /\ UNCHANGED <<pc, clientVars, tlsVars, ui, peer>>

PeerEnd(e) ==
  /\ peer = "up"
  /\ peer' = e
  /\ wire' = IF e = "rst" THEN <<>> ELSE wire
  /\ UNCHANGED <<pc, clientVars, tlsVars, ui, got>>

\* A host that has closed the connection answers what still comes with RST,
\* unless it goes on reading until the client closes too.
PeerResets ==
  /\ "rst" \in PeerFaults
  /\ peer \in {"notify", "fin"} /\ wire # <<>>
  /\ peer' = "rst" /\ wire' = <<>>
  /\ UNCHANGED <<pc, clientVars, tlsVars, ui, got>>

\* Time.  A session with something to write writes it well within ten seconds, a
\* round of the loop waiting for 100 ms at most, unless the connection has refused
\* a write or the thread waits for room in its own queue.  Without Stalls no write
\* is refused for that long, and the server takes what was written.
TenSecondsPass ==
  /\ \/ ~InSession
     \/ Backlog = <<>> /\ (Stalls \/ wire = <<>>)
     \/ Stalls /\ record # NoFrame
     \/ pc \in {"request", "ping"} /\ Full
  /\ overdue' = TRUE
  /\ UNCHANGED <<pc, xQueueOutMessages, bytes_remaining, nextn, tlsVars, ui,
                 peerVars>>
-----------------------------------------------------------------------------
Client == \/ Connect \/ ConnectFails \/ Handshake \/ HandshakeFails
          \/ RequestConfiguration \/ Dequeue \/ SkipWrite \/ Write
          \/ WriteWouldBlock \/ WriteFails \/ ReadData \/ ReadAgain
          \/ ReadTimeout \/ Ping \/ ReadCloseNotify \/ ReadDead \/ Finish
          \/ Delay
UserInterface == UiSend \/ UiBlocks \/ UiResumes
Network == \/ ServerReads \/ PeerResets \/ TenSecondsPass
           \/ \E e \in PeerFaults : PeerEnd(e)
Next == Client \/ UserInterface \/ Network

Spec == Init /\ [][Next]_vars

\* The thread is time-sliced with the others of its priority, a live server
\* reads, its connection does not refuse writes for ever, and it does not fill
\* the line with warning alerts.
FairSpec == /\ Spec /\ WF_vars(Client) /\ WF_vars(UiResumes)
            /\ WF_vars(ServerReads) /\ SF_vars(Write)
            /\ SF_vars(ReadData \/ ReadTimeout)
-----------------------------------------------------------------------------
(* Properties.                                                             *)

Message == [kind : {"config", "ping", "ui"}, n : 0..(NumMod - 1)]
Frame == Message \cup {NoFrame}
PCs == {"connect", "handshake", "request", "loop", "write", "read", "ping",
        "finished", "delay", "halted"}

TypeOK ==
  /\ pc \in PCs
  /\ xQueueOutMessages \in Seq(Message) /\ Len(xQueueOutMessages) <= QueueLen
  /\ bytes_remaining \in Frame /\ record \in Frame /\ got \in Frame
  /\ overdue \in BOOLEAN /\ nextn \in 0..(NumMod - 1)
  /\ heap \in 0..HeapSlots /\ ui \in {"idle", "blocked"}
  /\ peer \in {"down", "up"} \cup PeerEnds
  /\ wire \in Seq(Message) /\ Len(wire) <= WireCap

\* Every message the queue accepts is handed to TLS once and in that order,
\* across the drops and the reconnections in between.
Pipe == INSTANCE FramePipe
          WITH Capacity <- QueueLen + 1, FrameMod <- NumMod,
               open <- TRUE,
               pipe <- [i \in 1..Len(Backlog) |-> Backlog[i].n],
               next <- nextn
ImplementsFramePipe == Pipe!Spec

\* mbedtls_ssl_write that returned WANT_WRITE is called again with the same
\* frame, as mbedTLS requires (ssl_tls.c:6733-6734): the record TLS keeps is
\* always the frame being written.
RetriedVerbatim == InSession /\ record # NoFrame => record = bytes_remaining

\* Within a session the server sees consecutive messages: none is missing,
\* none comes twice.
SessionInOrder ==
  LET seen == (IF got # NoFrame THEN <<got>> ELSE <<>>) \o wire
  IN \A i \in 1..(Len(seen) - 1) : seen[i + 1].n = (seen[i].n + 1) % NumMod

\* A message the server got but the thread counts as unwritten, so that the next
\* session brings it again, is only ever the last one of a session that ended.
ResentOnlyAfterClose ==
  \A m \in ToSet(wire) \cup {got} :
    m # NoFrame /\ m \in ToSet(Backlog) =>
      /\ m = bytes_remaining /\ m = Last(<<got>> \o wire)
      /\ pc \in {"finished", "delay", "connect", "halted"}

\* The thread, the only one to empty its queue, waits for room in it (line 318):
\* so pings must not pile up there.  A ping finds no earlier message of the thread
\* unwritten, whatever other threads send and however the last sessions ended,
\* unless the connection is refusing a write.
PingsDoNotPile ==
  pc = "ping" /\ record = NoFrame => \A m \in ToSet(Backlog) : m.kind = "ui"

\* The thread waits for room in the queue that only itself empties: for good.
WaitsForItself == pc \in {"request", "ping"} /\ Full

\* "Connection failed or was dropped, so we wait a second and try to
\* reconnect" (lines 332-335), unless the thread has come to wait for itself.
DroppedReconnects ==
  (InSession /\ peer \in PeerEnds) ~> (pc = "connect" \/ WaitsForItself)

\* While the session lasts the oldest message does not wait for ever, unless the
\* thread has come to wait for itself.
OldestIsWritten ==
  \A k \in 0..(NumMod - 1) :
    LET Waits == InSession /\ peer = "up" /\ Backlog # <<>> /\ Backlog[1].n = k
    IN Waits ~> (~Waits \/ WaitsForItself)

\* A session that is silent for ten seconds sees traffic again, if need be by a
\* ping, or ends, unless the thread has come to wait for itself.
KeptAlive ==
  (InSession /\ overdue) ~> (~overdue \/ peer # "up" \/ WaitsForItself)
=============================================================================
