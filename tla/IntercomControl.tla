-------------------------- MODULE IntercomControl --------------------------
(***************************************************************************)
(* Calls: how a touch on the panel opens and closes the intercom channel.  *)
(* Five actors meet in this code, none of which waits for another:         *)
(*                                                                         *)
(*    the user     touches a button; uGFX puts an event in the listener's  *)
(*                 only buffer and signals its semaphore (gevent.c)        *)
(*    UI thread    UserInterfaceThread_Main, the handler of an event       *)
(*    timer daemon UserInterfaceThread_HideNotificationFromTimer           *)
(*    client       UserInterfaceThread_RequestIntercomChannel, called from *)
(*                 the client thread for an incoming call                  *)
(*    intercom     IntercomThread_Main, of which Channel says what it does *)
(*                 with a request, and its two reads of the address        *)
(*                                                                         *)
(* The call button opens a channel to a fixed address, the talk button,    *)
(* labelled End, closes it, the answer button opens one to the caller.     *)
(***************************************************************************)
EXTENDS Integers

CONSTANTS
  Caller,     \* addresses a call may come from
  Peer        \* 10.1.1.143, the address the call button dials

\* What pendingIntercomRequest leads to: nothing, a block that was freed, one
\* not yet written, or the request of a caller.
NoRequest == "null"
Stale == {"freed", "unwritten"}
Pending == {NoRequest} \cup Stale \cup Caller

ASSUME PeerAssumption == Peer \notin Pending

\* The ports: none yet, 2050 in network order (line 459), and as it is (484).
Port == {"0", "htons2050", "2050"}

Button == {"config", "call", "talk", "answer", "other"}

VARIABLES
  channel, notify,            \* see Channel
  remote_addr, remote_port,   \* globals of thread_intercom.c
  ta, dial,                   \* address sent to, progress of reading it
  event, withListener, waitqueue, \* the listener
  pcUi, button, target,       \* UI thread, the button handled, local address
  callOn, talkOn,             \* the buttons are enabled
  tabEnabled, tabVisible, noteVisible, callVisible,  \* windows
  timer, pcTimer,             \* xNotificationTimer is active, its callback
  pendingIntercomRequest, request, pcClient,
  spinning                    \* the client thread's session is dead, see SessionDies

addrVars == <<remote_addr, remote_port>>
dialVars == <<ta, dial>>
listenVars == <<event, withListener, waitqueue>>
uiVars == <<pcUi, button, target>>
buttonVars == <<callOn, talkOn>>
tabVars == <<tabEnabled, tabVisible, noteVisible>>
timerVars == <<timer, pcTimer>>
callVars == <<pendingIntercomRequest, request, pcClient>>
clientVars == <<callVars, spinning>>
vars == <<channel, notify, addrVars, dialVars, listenVars, uiVars, buttonVars,
          tabVars, callVisible, timerVars, clientVars>>

Control == INSTANCE Channel
Running == channel # "halted"
StaysOpen == UNCHANGED <<channel, notify>>

\* SetupUI, the threads up to their first wait.
Init ==
  /\ Control!Init
  /\ remote_addr = NoRequest /\ remote_port = "0"
  /\ ta = [addr |-> NoRequest, port |-> "0"] /\ dial = "idle"
  /\ event = "other" /\ withListener = FALSE /\ waitqueue = 0
  /\ pcUi = "idle" /\ button = "other" /\ target = NoRequest
  /\ callOn = TRUE /\ talkOn = FALSE
  /\ tabEnabled = TRUE /\ tabVisible = TRUE
  /\ noteVisible = FALSE /\ callVisible = FALSE
  /\ timer = FALSE /\ pcTimer = "idle"
  /\ pendingIntercomRequest = NoRequest /\ request \in Caller
  /\ pcClient = "idle" /\ spinning = FALSE
-----------------------------------------------------------------------------
(* The user.                                                               *)

\* No request waits for the intercom thread, and it is not reading an address.
Settled == notify = {} /\ dial = "idle"

\* Timing: a touch is handled, and its request taken, within milliseconds, and
\* the user is not as fast.  A handler that waits for room in the queue of
\* messages may wait for longer.
WorkedOff == Settled /\ waitqueue = 0
               /\ pcUi \in {"idle", "waiting", "done", "send"}

\* A widget of the tab set reacts to touch.
Touchable == tabEnabled /\ tabVisible /\ ~callVisible

Reacts(b) ==
  CASE b = "call"   -> Touchable /\ callOn
    [] b = "talk"   -> Touchable /\ talkOn
    [] b = "answer" -> callVisible
    [] OTHER        -> Touchable

\* geventGetEventBuffer and geventSendEvent: without the buffer the touch is
\* lost.
Press(b) ==
  /\ Running /\ Reacts(b) /\ WorkedOff
  /\ ~withListener
  /\ event' = b /\ withListener' = TRUE /\ waitqueue' = waitqueue + 1
  /\ UNCHANGED <<channel, notify, addrVars, dialVars, uiVars, buttonVars,
                 tabVars, callVisible, timerVars, clientVars>>
-----------------------------------------------------------------------------
(* The UI thread.                                                          *)

UiSame == <<dialVars, callVisible, pcTimer, clientVars>>
UiMoves(from, to) == Running /\ pcUi = from /\ pcUi' = to

\* geventEventWait, line 443: the buffer is given back ...
BeginWait ==
  /\ UiMoves("idle", "waiting")
  /\ withListener' = FALSE
  /\ UNCHANGED <<channel, notify, addrVars, event, waitqueue, button, target,
                 buttonVars, tabVars, timer, UiSame>>

FirstStep(b) == CASE b \in {"config", "call", "talk"} -> "disable"
                  [] b = "answer" -> "test"
                  [] b = "other" -> "done"

\* Mutant of Dispatch: the semaphore is not waited for.
DispatchUnsignalled ==
  /\ UiMoves("waiting", FirstStep(event))
  /\ waitqueue' = waitqueue - 1 /\ button' = event
  /\ UNCHANGED <<channel, notify, addrVars, event, withListener, target,
                 buttonVars, tabVars, timer, UiSame>>

\* ... and an event has been signalled: it is the one the buffer holds now.
Dispatch ==
  /\ waitqueue > 0
  /\ UiMoves("waiting", FirstStep(event))
  /\ waitqueue' = waitqueue - 1 /\ button' = event
  /\ UNCHANGED <<channel, notify, addrVars, event, withListener, target,
                 buttonVars, tabVars, timer, UiSame>>

\* Ten milliseconds without an event: NULL is returned, and event->type reads
\* address 0, the half-word 0 of the initial stack pointer.
WaitTimeout ==
  /\ waitqueue = 0
  /\ UiMoves("waiting", "done")
  /\ UNCHANGED <<channel, notify, addrVars, listenVars, button, target,
                 buttonVars, tabVars, timer, UiSame>>

\* geventEventComplete.
Complete ==
  /\ UiMoves("done", "idle")
  /\ withListener' = FALSE
  /\ UNCHANGED <<channel, notify, addrVars, event, waitqueue, button, target,
                 buttonVars, tabVars, timer, UiSame>>

\* ShowNotification, call by call.
DisableTabset ==
  /\ UiMoves("disable", "hide")
  /\ tabEnabled' = FALSE
  /\ UNCHANGED <<channel, notify, addrVars, listenVars, button, target,
                 buttonVars, tabVisible, noteVisible, timer, UiSame>>
HideTabset ==
  /\ UiMoves("hide", "show")
  /\ tabVisible' = FALSE
  /\ UNCHANGED <<channel, notify, addrVars, listenVars, button, target,
                 buttonVars, tabEnabled, noteVisible, timer, UiSame>>
ShowNotification ==
  /\ UiMoves("show", "arm")
  /\ noteVisible' = TRUE
  /\ UNCHANGED <<channel, notify, addrVars, listenVars, button, target,
                 buttonVars, tabEnabled, tabVisible, timer, UiSame>>
ArmTimer ==
  /\ UiMoves("arm", CASE button = "config" -> "send" [] button = "call" -> "dial"
                      [] OTHER -> "close")
  /\ timer' = TRUE
  /\ UNCHANGED <<channel, notify, addrVars, listenVars, button, target,
                 buttonVars, tabVars, UiSame>>

\* ClientThread_SendMessage returns, perhaps never (ClientThread!UiBlocks).
MessageSent ==
  /\ UiMoves("send", IF button = "config" THEN "done" ELSE "load")
  /\ UNCHANGED <<channel, notify, addrVars, listenVars, button, target,
                 buttonVars, tabVars, timer, UiSame>>

\* Line 477, and after the accept message line 483: the request is looked up
\* again.
TestPending ==
  /\ UiMoves("test", IF pendingIntercomRequest = NoRequest THEN "done" ELSE "send")
  /\ UNCHANGED <<channel, notify, addrVars, listenVars, button, target,
                 buttonVars, tabVars, timer, UiSame>>
LoadCaller ==
  /\ UiMoves("load", "addr")
  /\ target' = pendingIntercomRequest
  /\ UNCHANGED <<channel, notify, addrVars, listenVars, button,
                 buttonVars, tabVars, timer, UiSame>>
LoadPeer ==
  /\ UiMoves("dial", "addr")
  /\ target' = Peer
  /\ UNCHANGED <<channel, notify, addrVars, listenVars, button,
                 buttonVars, tabVars, timer, UiSame>>

\* Mutant of StoreAddr: notifies before the port is stored.
StoreAddrNotifies ==
  /\ UiMoves("addr", "port")
  /\ remote_addr' = target
  /\ Control!Request("open")
  /\ UNCHANGED <<remote_port, listenVars, button, target,
                 buttonVars, tabVars, timer, UiSame>>

\* IntercomThread_ChannelOpen: two stores and the notification.
StoreAddr ==
  /\ UiMoves("addr", "port")
  /\ remote_addr' = target
  /\ UNCHANGED <<channel, notify, remote_port, listenVars, button, target,
                 buttonVars, tabVars, timer, UiSame>>
StorePort ==
  /\ UiMoves("port", "open")
  /\ remote_port' = IF button = "call" THEN "htons2050" ELSE "2050"
  /\ UNCHANGED <<channel, notify, remote_addr, listenVars, button, target,
                 buttonVars, tabVars, timer, UiSame>>
ChannelOpen ==
  /\ UiMoves("open", IF button = "call" THEN "swap" ELSE "done")
  /\ Control!Request("open")
  /\ UNCHANGED <<addrVars, listenVars, button, target, buttonVars, tabVars,
                 timer, UiSame>>

\* Mutant of ChannelClose: sets the other bit.
ChannelCloseOpens ==
  /\ UiMoves("close", "swap")
  /\ Control!Request("open")
  /\ UNCHANGED <<addrVars, listenVars, button, target, buttonVars, tabVars,
                 timer, UiSame>>
ChannelClose ==
  /\ UiMoves("close", "swap")
  /\ Control!Request("close")
  /\ UNCHANGED <<addrVars, listenVars, button, target, buttonVars, tabVars,
                 timer, UiSame>>

\* Mutant of SwapButtons: both handlers enable the call button.
SwapButtonsAlike ==
  /\ UiMoves("swap", "done")
  /\ callOn' = TRUE /\ talkOn' = FALSE
  /\ UNCHANGED <<channel, notify, addrVars, listenVars, button, target,
                 tabVars, timer, UiSame>>

\* Lines 460, 461 and 467, 468, out of the user's reach until the notification
\* is hidden.
SwapButtons ==
  /\ UiMoves("swap", "done")
  /\ callOn' = (button = "talk") /\ talkOn' = (button = "call")
  /\ UNCHANGED <<channel, notify, addrVars, listenVars, button, target,
                 tabVars, timer, UiSame>>
-----------------------------------------------------------------------------
(* The timer daemon.                                                       *)

TimerSame == <<channel, notify, addrVars, dialVars, listenVars, uiVars,
               buttonVars, callVisible, clientVars>>

\* The daemon's priority, 2, is below that of the threads: it starts when the UI
\* thread waits, and goes on when no thread is ready; one that spins always is.
\* Timing: two seconds after it was armed the request is taken.
DaemonRuns == Running /\ ~spinning

TimerFires ==
  /\ DaemonRuns /\ timer /\ pcTimer = "idle"
  /\ Settled /\ pcUi \in {"waiting", "send"}
  /\ timer' = FALSE /\ pcTimer' = "hide"
  /\ UNCHANGED <<TimerSame, tabVars>>
HideNotification ==
  /\ DaemonRuns /\ pcTimer = "hide"
  /\ noteVisible' = FALSE /\ pcTimer' = "enable"
  /\ UNCHANGED <<TimerSame, tabEnabled, tabVisible, timer>>
EnableTabset ==
  /\ DaemonRuns /\ pcTimer = "enable"
  /\ tabEnabled' = TRUE /\ pcTimer' = "show"
  /\ UNCHANGED <<TimerSame, tabVisible, noteVisible, timer>>

\* Mutant of ShowTabset: the tab set stays hidden.
ShowTabsetSkipped ==
  /\ DaemonRuns /\ pcTimer = "show"
  /\ pcTimer' = "idle"
  /\ UNCHANGED <<TimerSame, tabVars, timer>>
ShowTabset ==
  /\ DaemonRuns /\ pcTimer = "show"
  /\ tabVisible' = TRUE /\ pcTimer' = "idle"
  /\ UNCHANGED <<TimerSame, tabEnabled, noteVisible, timer>>
-----------------------------------------------------------------------------
(* The client thread, UserInterfaceThread_RequestIntercomChannel.          *)

ClientSame == <<addrVars, dialVars, listenVars, uiVars, buttonVars,
                timerVars, spinning>>
ClientMoves(from, to) == Running /\ pcClient = from /\ pcClient' = to

IncomingRequest ==
  /\ ~spinning
  /\ ClientMoves("idle", "free")
  /\ request' \in Caller
  /\ UNCHANGED <<channel, notify, tabVars, callVisible,
                 pendingIntercomRequest, ClientSame>>
FreePending ==
  /\ ClientMoves("free", "alloc")
  /\ pendingIntercomRequest' =
       IF pendingIntercomRequest = NoRequest THEN NoRequest ELSE "freed"
  /\ UNCHANGED <<channel, notify, tabVars, callVisible, request, ClientSame>>

\* With no block left the device halts in Error_Handler.
AllocPending ==
  /\ pcClient = "alloc"
  /\ \/ /\ ClientMoves("alloc", "copy")
        /\ pendingIntercomRequest' = "unwritten"
        /\ StaysOpen
     \/ /\ Control!Halt
        /\ UNCHANGED <<pcClient, pendingIntercomRequest>>
  /\ UNCHANGED <<tabVars, callVisible, request, ClientSame>>
CopyRequest ==
  /\ ClientMoves("copy", "hide")
  /\ pendingIntercomRequest' = request
  /\ UNCHANGED <<channel, notify, tabVars, callVisible, request, ClientSame>>
HideForCall ==
  /\ ClientMoves("hide", "raise")
  /\ tabVisible' = FALSE
  /\ UNCHANGED <<channel, notify, tabEnabled, noteVisible, callVisible,
                 pendingIntercomRequest, request, ClientSame>>
ShowCall ==
  /\ ClientMoves("raise", "idle")
  /\ callVisible' = TRUE
  /\ UNCHANGED <<channel, notify, tabVars, pendingIntercomRequest, request,
                 ClientSame>>

\* The server closes the connection, or it is reset: mbedtls_ssl_read returns at
\* once, with 0 or an error none of the tests of lines 305-325 of
\* thread_client.c is for, and the loop goes on without ever waiting ...
SessionDies ==
  /\ Running /\ pcClient = "idle" /\ ~spinning
  /\ spinning' = TRUE
  /\ UNCHANGED <<channel, notify, addrVars, dialVars, listenVars, uiVars,
                 buttonVars, tabVars, callVisible, timerVars, callVars>>

\* ... until a write fails, if a message is ever written (line 295), after which
\* the thread sleeps for a second.
SessionEnds ==
  /\ Running /\ spinning
  /\ spinning' = FALSE
  /\ UNCHANGED <<channel, notify, addrVars, dialVars, listenVars, uiVars,
                 buttonVars, tabVars, callVisible, timerVars, callVars>>
-----------------------------------------------------------------------------
(* The intercom thread.  While it reads the address it takes no request.   *)

IntercomSame == <<addrVars, listenVars, uiVars, buttonVars, tabVars,
                  callVisible, timerVars, clientVars>>

TakeRequest ==
  /\ dial = "idle" /\ Control!Take
  /\ dial' = IF channel = "closed" /\ channel' = "open" THEN "addr" ELSE dial
  /\ UNCHANGED <<ta, IntercomSame>>

\* Lines 140 and 141.
ReadAddr ==
  /\ Running /\ dial = "addr"
  /\ ta' = [ta EXCEPT !.addr = remote_addr] /\ dial' = "port"
  /\ UNCHANGED <<channel, notify, IntercomSame>>
ReadPort ==
  /\ Running /\ dial = "port"
  /\ ta' = [ta EXCEPT !.port = remote_port] /\ dial' = "idle"
  /\ UNCHANGED <<channel, notify, IntercomSame>>

LoseChannel ==
  /\ dial = "idle" /\ Control!Lose
  /\ UNCHANGED <<dialVars, IntercomSame>>
Fails == Control!Halt /\ UNCHANGED <<dialVars, IntercomSame>>
-----------------------------------------------------------------------------
Ui == \/ BeginWait \/ Dispatch \/ WaitTimeout \/ Complete
      \/ DisableTabset \/ HideTabset \/ ShowNotification \/ ArmTimer
      \/ TestPending \/ LoadCaller \/ LoadPeer
      \/ StoreAddr \/ StorePort \/ ChannelOpen \/ ChannelClose \/ SwapButtons
Timer == TimerFires \/ HideNotification \/ EnableTabset \/ ShowTabset
Client == \/ FreePending \/ AllocPending \/ CopyRequest \/ HideForCall
          \/ ShowCall
Intercom == TakeRequest \/ ReadAddr \/ ReadPort
Next == \/ \E b \in Button : Press(b)
        \/ Ui \/ MessageSent \/ Timer \/ IncomingRequest \/ Client
        \/ SessionDies \/ SessionEnds
        \/ Intercom \/ LoseChannel \/ Fails

Spec == Init /\ [][Next]_vars

\* The threads have one priority and are time-sliced: each goes on whatever the
\* others do, a spinning one included.  The timer daemon has a lower one.  It gets
\* on when all of them wait, as they do again and again: the intercom thread for a
\* tick in every turn of its loop, the UI thread for ten milliseconds between two
\* events, the client thread for up to 100 milliseconds in a read, but not while
\* it spins; then Timer is not enabled and strong fairness promises nothing.
\* MessageSent has no fairness, the queue may stay full; SessionEnds has none, in
\* a dead session nothing need be written.
FairSpec == Spec /\ WF_vars(Ui) /\ SF_vars(Timer) /\ WF_vars(Client)
                 /\ WF_vars(Intercom)
-----------------------------------------------------------------------------
(* Properties.                                                             *)

UiPCs == {"idle", "waiting", "done", "disable", "hide", "show", "arm", "send",
          "test", "load", "dial", "addr", "port", "open", "close", "swap"}

FlagsOK ==
  /\ withListener \in BOOLEAN /\ callOn \in BOOLEAN /\ talkOn \in BOOLEAN
  /\ tabEnabled \in BOOLEAN /\ tabVisible \in BOOLEAN
  /\ noteVisible \in BOOLEAN /\ callVisible \in BOOLEAN /\ timer \in BOOLEAN
  /\ spinning \in BOOLEAN

TypeOK ==
  /\ FlagsOK
  /\ channel \in {"closed", "open", "halted"} /\ notify \subseteq Control!Bits
  /\ remote_addr \in Pending \cup {Peer} /\ remote_port \in Port
  /\ ta \in [addr : Pending \cup {Peer}, port : Port]
  /\ dial \in {"idle", "addr", "port"}
  /\ event \in Button /\ waitqueue \in 0..1
  /\ pcUi \in UiPCs /\ button \in Button /\ target \in Pending \cup {Peer}
  /\ pcTimer \in {"idle", "hide", "enable", "show"}
  /\ pendingIntercomRequest \in Pending /\ request \in Caller
  /\ pcClient \in {"idle", "free", "alloc", "copy", "hide", "raise"}

\* Address and port come from one request to open: the call button's, or an
\* answer's.  Nothing locks the two globals.
OpensOneCall ==
  channel = "open" /\ dial = "idle" =>
    ta.port = IF ta.addr = Peer THEN "htons2050" ELSE "2050"

\* A channel opened with the call button can be closed with the talk button as
\* soon as the notification is gone.
OpenIsEndable ==
  /\ channel = "open" /\ dial = "idle" /\ ta.addr = Peer
  /\ pcUi = "waiting" /\ waitqueue = 0 /\ notify = {}
  /\ ~noteVisible /\ pcTimer = "idle" /\ ~callVisible /\ pcClient = "idle"
  => Touchable /\ talkOn

\* The talk button closes the channel.
EndTakesEffect == (pcUi = "close") ~> (channel # "open")

\* A notification is hidden and the tab set comes back for the user, whatever
\* the UI thread waits for and however often a session has died in between,
\* unless a call has come in, or a session that is dead for good keeps the
\* client thread spinning and the timer daemon from running.
TabsetReturns ==
  <>[]~spinning => (~tabEnabled ~> (Touchable \/ callVisible \/ ~Running))
=============================================================================
