----------------------- MODULE IntercomControlProofs -----------------------
(***************************************************************************)
(* Theorems about IntercomControl for any set of callers.                  *)
(***************************************************************************)
EXTENDS IntercomControl, TLAPS

-----------------------------------------------------------------------------
(* The inductive invariant.                                                 *)

\* ShowNotification is at work; a channel is being opened.
Noticing == pcUi \in {"disable", "hide", "show", "arm"}
Opening == pcUi \in {"addr", "port", "open"}

\* Which handler is where, and that an answer needs a call on the screen, which
\* nothing takes away again.
HandlerInv ==
  /\ Noticing => button \in {"config", "call", "talk"}
  /\ pcUi \in {"test", "load"} => button = "answer"
  /\ pcUi = "send" => button \in {"config", "answer"}
  /\ pcUi = "dial" => button = "call"
  /\ pcUi = "close" => button = "talk"
  /\ pcUi = "swap" => button \in {"call", "talk"}
  /\ Opening => button \in {"call", "answer"}
  /\ pcUi \in {"test", "send", "load"} \/ Opening =>
       (button = "answer" => callVisible)
  /\ waitqueue > 0 /\ event = "answer" => callVisible

\* The handlers of the tab set begin when no request is on its way, and no other
\* touch waits behind them.
QueueInv ==
  /\ Noticing \/ pcUi \in {"test", "dial", "close", "swap"}
       \/ (Opening /\ button = "call") => waitqueue = 0
  /\ Noticing \/ pcUi \in {"dial", "close"}
       \/ (Opening /\ button = "call") => Settled
  /\ waitqueue > 0 /\ event # "answer" =>
       /\ Settled
       /\ pcUi \in {"idle", "waiting", "done"}
            \/ (pcUi = "send" /\ button = "config")
  /\ "close" \in notify =>
       /\ notify = {"close"} /\ waitqueue = 0
       /\ pcUi \in {"swap", "done", "idle", "waiting"}
  /\ dial # "idle" => channel # "closed"

\* The port that goes with an address.
PortOf(addr) == IF addr = Peer THEN "htons2050" ELSE "2050"

\* The two globals belong to one call from the notification until both are read:
\* a second answer may store over them, but never over those of the call button.
Reading == "open" \in notify \/ dial # "idle"
AddrInv ==
  /\ Opening => (target = Peer <=> button = "call")
  /\ pcUi \in {"port", "open"} => remote_addr = target
  /\ pcUi = "open" => remote_port = PortOf(target)
  /\ Reading => remote_port = PortOf(remote_addr)
  /\ Reading /\ remote_addr = Peer =>
       waitqueue = 0 /\ pcUi \in {"swap", "done", "idle", "waiting"}
  /\ dial = "port" => (ta.addr = Peer <=> remote_addr = Peer)

\* The channel is open to the peer or about to be.
ToPeer == \/ channel = "open"
               /\ (IF dial = "addr" THEN remote_addr ELSE ta.addr) = Peer
          \/ "open" \in notify /\ remote_addr = Peer

\* Then the talk button is on, but for the time between a request and the swap
\* of the buttons.
EndInv ==
  /\ ToPeer => talkOn \/ (pcUi = "swap" /\ button = "call")
                     \/ "close" \in notify
  /\ pcUi = "swap" /\ button = "talk" => "close" \in notify \/ ~ToPeer

\* A tab set that is disabled or hidden comes back: somebody is on the way to
\* the timer, the timer is armed, or its callback has started.
TabInv ==
  /\ timer => noteVisible /\ pcTimer = "idle"
  /\ timer \/ pcTimer \in {"hide", "enable"} => ~tabEnabled
  /\ timer \/ pcTimer # "idle" => ~tabVisible
  /\ pcUi \in {"hide", "show", "arm"} => ~tabEnabled
  /\ pcUi \in {"show", "arm"} => ~tabVisible
  /\ Noticing => ~timer /\ pcTimer = "idle"
  /\ pcUi = "arm" => noteVisible
  /\ waitqueue > 0 /\ event \in {"config", "call", "talk"} =>
       ~timer /\ pcTimer = "idle"
  /\ ~tabEnabled => pcUi \in {"hide", "show", "arm"} \/ timer
                      \/ pcTimer \in {"hide", "enable"}
  /\ ~tabVisible => pcUi \in {"show", "arm"} \/ timer \/ pcTimer # "idle"
                      \/ pcClient = "raise" \/ callVisible

IInv == /\ TypeOK /\ HandlerInv /\ QueueInv /\ AddrInv /\ EndInv /\ TabInv
        /\ OpensOneCall
LEMMA InitInv == Init => IInv
<1> SUFFICES ASSUME Init PROVE IInv
  OBVIOUS
<1> USE DEF Init, Control!Init
<1>1. TypeOK
  <2>1. /\ channel \in {"closed", "open", "halted"} /\ notify \subseteq Control!Bits
        /\ remote_addr \in Pending \cup {Peer} /\ remote_port \in Port
    BY DEF Pending, Port
  <2>2. /\ ta \in [addr : Pending \cup {Peer}, port : Port]
        /\ dial \in {"idle", "addr", "port"}
    BY DEF Pending, Port
  <2>3. event \in Button /\ button \in Button /\ pcUi \in UiPCs
    BY DEF Button, UiPCs
  <2>4. waitqueue \in 0..1
    OBVIOUS
  <2>5. target \in Pending \cup {Peer} /\ pendingIntercomRequest \in Pending
    BY DEF Pending
  <2>6. FlagsOK
    BY DEF FlagsOK
  <2>7. QED
    BY <2>1, <2>2, <2>3, <2>4, <2>5, <2>6 DEF TypeOK
<1>2. HandlerInv /\ QueueInv
  BY DEF HandlerInv, QueueInv, Noticing, Opening
<1>3. AddrInv /\ OpensOneCall
  BY DEF AddrInv, OpensOneCall, Opening, Reading
<1>4. EndInv /\ TabInv
  BY DEF EndInv, TabInv, ToPeer, Noticing
<1>5. QED
  BY <1>1, <1>2, <1>3, <1>4 DEF IInv

\* Every handler runs its own steps.
LEMMA HandlerStep ==
  ASSUME IInv, [Next]_vars PROVE HandlerInv'
<1> USE DEF IInv, TypeOK, Button, HandlerInv, Noticing, Opening,
           addrVars, dialVars, buttonVars, tabVars, callVars, clientVars, UiMoves, UiSame
<1>1. ASSUME NEW b \in Button, Press(b) PROVE HandlerInv'
  BY <1>1 DEF Press, Reacts, WorkedOff, Touchable, uiVars, addrVars, dialVars,
              buttonVars, tabVars, timerVars, clientVars
<1>2. CASE BeginWait \/ Dispatch \/ WaitTimeout \/ Complete
  BY <1>2 DEF BeginWait, Dispatch, FirstStep, WaitTimeout, Complete, listenVars
<1>3. CASE DisableTabset \/ HideTabset \/ ShowNotification \/ ArmTimer
  BY <1>3 DEF DisableTabset, HideTabset, ShowNotification, ArmTimer, listenVars
<1>4. CASE MessageSent \/ TestPending \/ LoadCaller \/ LoadPeer
  BY <1>4 DEF MessageSent, TestPending, LoadCaller, LoadPeer, listenVars
<1>5. CASE StoreAddr \/ StorePort \/ ChannelOpen \/ ChannelClose \/ SwapButtons
  BY <1>5 DEF StoreAddr, StorePort, ChannelOpen, ChannelClose, SwapButtons,
              Control!Request, listenVars
<1>6. CASE Timer
  BY <1>6 DEF Timer, TimerFires, HideNotification, EnableTabset, ShowTabset,
              TimerSame, uiVars, listenVars
<1>7. CASE IncomingRequest \/ Client \/ SessionDies \/ SessionEnds
  BY <1>7 DEF IncomingRequest, Client, FreePending, AllocPending, CopyRequest,
              HideForCall, ShowCall, SessionDies, SessionEnds, ClientMoves,
              ClientSame, StaysOpen,
              Control!Halt, uiVars, listenVars, timerVars
<1>8. CASE Intercom \/ LoseChannel \/ Fails
  BY <1>8 DEF Intercom, TakeRequest, ReadAddr, ReadPort, LoseChannel, Fails,
              IntercomSame, Control!Take, Control!Lose, Control!Halt, uiVars,
              listenVars, timerVars
<1>9. CASE UNCHANGED vars
  BY <1>9 DEF vars, uiVars, listenVars, timerVars
<1>10. QED
  BY <1>1, <1>2, <1>3, <1>4, <1>5, <1>6, <1>7, <1>8, <1>9 DEF Next, Ui

\* Touches and requests do not overtake one another.
LEMMA QueueStep ==
  ASSUME IInv, [Next]_vars PROVE QueueInv'
<1> USE DEF IInv, TypeOK, Button, HandlerInv, QueueInv, Noticing, Opening, Settled,
           addrVars, dialVars, buttonVars, tabVars, callVars, clientVars, UiMoves, UiSame
<1>1. ASSUME NEW b \in Button, Press(b) PROVE QueueInv'
  BY <1>1 DEF Press, Reacts, WorkedOff, Touchable, uiVars, addrVars, dialVars,
              buttonVars, tabVars, timerVars, clientVars
<1>2. CASE BeginWait \/ Dispatch \/ WaitTimeout \/ Complete
  BY <1>2 DEF BeginWait, Dispatch, FirstStep, WaitTimeout, Complete, listenVars
<1>3. CASE DisableTabset \/ HideTabset \/ ShowNotification \/ ArmTimer
  BY <1>3 DEF DisableTabset, HideTabset, ShowNotification, ArmTimer, listenVars
<1>4. CASE MessageSent \/ TestPending \/ LoadCaller \/ LoadPeer
  BY <1>4 DEF MessageSent, TestPending, LoadCaller, LoadPeer, listenVars
<1>5. CASE StoreAddr \/ StorePort \/ ChannelOpen \/ ChannelClose \/ SwapButtons
  BY <1>5 DEF StoreAddr, StorePort, ChannelOpen, ChannelClose, SwapButtons,
              Control!Request, listenVars
<1>6. CASE Timer
  BY <1>6 DEF Timer, TimerFires, HideNotification, EnableTabset, ShowTabset,
              TimerSame, uiVars, listenVars
<1>7. CASE IncomingRequest \/ Client \/ SessionDies \/ SessionEnds
  BY <1>7 DEF IncomingRequest, Client, FreePending, AllocPending, CopyRequest,
              HideForCall, ShowCall, SessionDies, SessionEnds, ClientMoves,
              ClientSame, StaysOpen,
              Control!Halt, uiVars, listenVars, timerVars
<1>8. CASE Intercom \/ LoseChannel \/ Fails
  BY <1>8 DEF Intercom, TakeRequest, ReadAddr, ReadPort, LoseChannel, Fails,
              IntercomSame, Control!Take, Control!Lose, Control!Halt, uiVars,
              listenVars, timerVars
<1>9. CASE UNCHANGED vars
  BY <1>9 DEF vars, uiVars, listenVars, timerVars
<1>10. QED
  BY <1>1, <1>2, <1>3, <1>4, <1>5, <1>6, <1>7, <1>8, <1>9 DEF Next, Ui

\* The address stays that of one call.
LEMMA AddrStep ==
  ASSUME IInv, [Next]_vars PROVE AddrInv'
<1> USE PeerAssumption
    DEF IInv, TypeOK, Button, HandlerInv, QueueInv, AddrInv, PortOf, Reading, Noticing,
        Opening, Settled, addrVars, dialVars, buttonVars, tabVars, callVars,
        clientVars, UiMoves, UiSame
<1>1. ASSUME NEW b \in Button, Press(b) PROVE AddrInv'
  BY <1>1 DEF Press, Reacts, WorkedOff, Touchable, uiVars, addrVars, dialVars,
              buttonVars, tabVars, timerVars, clientVars
<1>2. CASE BeginWait \/ Dispatch \/ WaitTimeout \/ Complete
  BY <1>2 DEF BeginWait, Dispatch, FirstStep, WaitTimeout, Complete, listenVars
<1>3. CASE DisableTabset \/ HideTabset \/ ShowNotification \/ ArmTimer
  BY <1>3 DEF DisableTabset, HideTabset, ShowNotification, ArmTimer, listenVars
<1>4. CASE MessageSent \/ TestPending \/ LoadCaller \/ LoadPeer
  BY <1>4 DEF MessageSent, TestPending, LoadCaller, LoadPeer, listenVars
<1>5. CASE StoreAddr \/ StorePort \/ ChannelOpen \/ ChannelClose \/ SwapButtons
  BY <1>5 DEF StoreAddr, StorePort, ChannelOpen, ChannelClose, SwapButtons,
              Control!Request, listenVars
<1>6. CASE Timer
  BY <1>6 DEF Timer, TimerFires, HideNotification, EnableTabset, ShowTabset,
              TimerSame, uiVars, listenVars
<1>7. CASE IncomingRequest \/ Client \/ SessionDies \/ SessionEnds
  BY <1>7 DEF IncomingRequest, Client, FreePending, AllocPending, CopyRequest,
              HideForCall, ShowCall, SessionDies, SessionEnds, ClientMoves,
              ClientSame, StaysOpen,
              Control!Halt, uiVars, listenVars, timerVars
<1>8. CASE Intercom \/ LoseChannel \/ Fails
  BY <1>8 DEF Intercom, TakeRequest, ReadAddr, ReadPort, LoseChannel, Fails,
              IntercomSame, Control!Take, Control!Lose, Control!Halt, uiVars,
              listenVars, timerVars
<1>9. CASE UNCHANGED vars
  BY <1>9 DEF vars, uiVars, listenVars, timerVars
<1>10. QED
  BY <1>1, <1>2, <1>3, <1>4, <1>5, <1>6, <1>7, <1>8, <1>9 DEF Next, Ui

\* The tab set is on its way back.
LEMMA TabStep ==
  ASSUME IInv, [Next]_vars PROVE TabInv'
<1> USE DEF IInv, TypeOK, Button, HandlerInv, QueueInv, TabInv, Noticing, Opening, Settled,
           addrVars, dialVars, buttonVars, tabVars, callVars, clientVars, UiMoves, UiSame
<1>1. ASSUME NEW b \in Button, Press(b) PROVE TabInv'
  BY <1>1 DEF Press, Reacts, WorkedOff, Touchable, uiVars, addrVars, dialVars,
              buttonVars, tabVars, timerVars, clientVars
<1>2. CASE BeginWait \/ Dispatch \/ WaitTimeout \/ Complete
  BY <1>2 DEF BeginWait, Dispatch, FirstStep, WaitTimeout, Complete, listenVars
<1>3. CASE DisableTabset \/ HideTabset \/ ShowNotification \/ ArmTimer
  <2>1. CASE DisableTabset
    BY <2>1 DEF DisableTabset, listenVars
  <2>2. CASE HideTabset
    BY <2>2 DEF HideTabset, listenVars
  <2>3. CASE ShowNotification
    BY <2>3 DEF ShowNotification, listenVars
  <2>4. CASE ArmTimer
    BY <2>4 DEF ArmTimer, listenVars
  <2>5. QED
    BY <1>3, <2>1, <2>2, <2>3, <2>4
<1>4. CASE MessageSent \/ TestPending \/ LoadCaller \/ LoadPeer
  BY <1>4 DEF MessageSent, TestPending, LoadCaller, LoadPeer, listenVars
<1>5. CASE StoreAddr \/ StorePort \/ ChannelOpen \/ ChannelClose \/ SwapButtons
  BY <1>5 DEF StoreAddr, StorePort, ChannelOpen, ChannelClose, SwapButtons,
              Control!Request, listenVars
<1>6. CASE Timer
  <2>1. CASE TimerFires
    BY <2>1 DEF TimerFires, TimerSame, uiVars, listenVars
  <2>2. CASE HideNotification
    BY <2>2 DEF HideNotification, TimerSame, uiVars, listenVars
  <2>3. CASE EnableTabset
    BY <2>3 DEF EnableTabset, TimerSame, uiVars, listenVars
  <2>4. CASE ShowTabset
    BY <2>4 DEF ShowTabset, TimerSame, uiVars, listenVars
  <2>5. QED
    BY <1>6, <2>1, <2>2, <2>3, <2>4 DEF Timer
<1>7. CASE IncomingRequest \/ Client \/ SessionDies \/ SessionEnds
  BY <1>7 DEF IncomingRequest, Client, FreePending, AllocPending, CopyRequest,
              HideForCall, ShowCall, SessionDies, SessionEnds, ClientMoves,
              ClientSame, StaysOpen,
              Control!Halt, uiVars, listenVars, timerVars
<1>8. CASE Intercom \/ LoseChannel \/ Fails
  BY <1>8 DEF Intercom, TakeRequest, ReadAddr, ReadPort, LoseChannel, Fails,
              IntercomSame, Control!Take, Control!Lose, Control!Halt, uiVars,
              listenVars, timerVars
<1>9. CASE UNCHANGED vars
  BY <1>9 DEF vars, uiVars, listenVars, timerVars
<1>10. QED
  BY <1>1, <1>2, <1>3, <1>4, <1>5, <1>6, <1>7, <1>8, <1>9 DEF Next, Ui

\* The talk button follows the channel.
LEMMA EndStep ==
  ASSUME IInv, [Next]_vars PROVE EndInv'
<1> USE DEF IInv, TypeOK, Button, HandlerInv, QueueInv, AddrInv, EndInv, ToPeer, Reading,
           Noticing, Opening, Settled,
           addrVars, dialVars, buttonVars, tabVars, callVars, clientVars, UiMoves, UiSame
<1>1. ASSUME NEW b \in Button, Press(b) PROVE EndInv'
  BY <1>1 DEF Press, Reacts, WorkedOff, Touchable, uiVars, addrVars, dialVars,
              buttonVars, tabVars, timerVars, clientVars
<1>2. CASE BeginWait \/ Dispatch \/ WaitTimeout \/ Complete
  BY <1>2 DEF BeginWait, Dispatch, FirstStep, WaitTimeout, Complete, listenVars
<1>3. CASE DisableTabset \/ HideTabset \/ ShowNotification \/ ArmTimer
  BY <1>3 DEF DisableTabset, HideTabset, ShowNotification, ArmTimer, listenVars
<1>4. CASE MessageSent \/ TestPending \/ LoadCaller \/ LoadPeer
  BY <1>4 DEF MessageSent, TestPending, LoadCaller, LoadPeer, listenVars
<1>5. CASE StoreAddr \/ StorePort \/ ChannelOpen \/ ChannelClose \/ SwapButtons
  BY <1>5 DEF StoreAddr, StorePort, ChannelOpen, ChannelClose, SwapButtons,
              Control!Request, listenVars
<1>6. CASE Timer
  BY <1>6 DEF Timer, TimerFires, HideNotification, EnableTabset, ShowTabset,
              TimerSame, uiVars, listenVars
<1>7. CASE IncomingRequest \/ Client \/ SessionDies \/ SessionEnds
  BY <1>7 DEF IncomingRequest, Client, FreePending, AllocPending, CopyRequest,
              HideForCall, ShowCall, SessionDies, SessionEnds, ClientMoves,
              ClientSame, StaysOpen,
              Control!Halt, uiVars, listenVars, timerVars
<1>8. CASE Intercom \/ LoseChannel \/ Fails
  BY <1>8 DEF Intercom, TakeRequest, ReadAddr, ReadPort, LoseChannel, Fails,
              IntercomSame, Control!Take, Control!Lose, Control!Halt, uiVars,
              listenVars, timerVars
<1>9. CASE UNCHANGED vars
  BY <1>9 DEF vars, uiVars, listenVars, timerVars
<1>10. QED
  BY <1>1, <1>2, <1>3, <1>4, <1>5, <1>6, <1>7, <1>8, <1>9 DEF Next, Ui
\* The channel opens with the address of one call.
LEMMA OneCallStep ==
  ASSUME IInv, [Next]_vars PROVE OpensOneCall'
<1> USE DEF IInv, TypeOK, AddrInv, QueueInv, PortOf, Reading, OpensOneCall
<1>1. CASE Intercom
  <2>1. CASE TakeRequest
    BY <2>1 DEF TakeRequest, Control!Take
  <2>2. CASE ReadAddr
    BY <2>2 DEF ReadAddr
  <2>3. CASE ReadPort
    BY <2>3 DEF ReadPort
  <2>4. QED
    BY <1>1, <2>1, <2>2, <2>3 DEF Intercom
<1>2. CASE LoseChannel \/ Fails
  BY <1>2 DEF LoseChannel, Fails, Control!Lose, Control!Halt, dialVars
<1>3. CASE IncomingRequest \/ Client \/ SessionDies \/ SessionEnds
  BY <1>3 DEF IncomingRequest, Client, FreePending, AllocPending, CopyRequest,
              HideForCall, ShowCall, SessionDies, SessionEnds, ClientSame,
              StaysOpen, Control!Halt,
              dialVars
<1>4. ASSUME Ui \/ MessageSent \/ Timer \/ (\E b \in Button : Press(b))
      PROVE  UNCHANGED <<channel, ta, dial>>
  BY <1>4 DEF Ui, BeginWait, Dispatch, WaitTimeout, Complete, DisableTabset,
              HideTabset, ShowNotification, ArmTimer, TestPending, LoadCaller,
              LoadPeer, StoreAddr, StorePort, ChannelOpen, ChannelClose,
              SwapButtons, MessageSent, Timer, TimerFires, HideNotification,
              EnableTabset, ShowTabset, Press, UiSame, TimerSame, dialVars,
              Control!Request
<1>5. CASE UNCHANGED <<channel, ta, dial>>
  BY <1>5
<1>6. QED
  BY <1>1, <1>2, <1>3, <1>4, <1>5 DEF Next, vars, dialVars

\* Types.
LEMMA FlagsStep ==
  ASSUME FlagsOK, [Next]_vars PROVE FlagsOK'
<1> USE DEF FlagsOK, UiSame, listenVars, buttonVars, tabVars, timerVars,
            callVars, clientVars
<1>1. ASSUME NEW b \in Button, Press(b) PROVE FlagsOK'
  BY <1>1, Zenon DEF Press
<1>2. CASE BeginWait \/ Dispatch \/ WaitTimeout \/ Complete
  BY <1>2, Zenon DEF BeginWait, Dispatch, WaitTimeout, Complete
<1>3. CASE DisableTabset \/ HideTabset \/ ShowNotification \/ ArmTimer
  BY <1>3, Zenon DEF DisableTabset, HideTabset, ShowNotification, ArmTimer
<1>4. CASE MessageSent \/ TestPending \/ LoadCaller \/ LoadPeer
  BY <1>4, Zenon DEF MessageSent, TestPending, LoadCaller, LoadPeer
<1>5. CASE StoreAddr \/ StorePort \/ ChannelOpen \/ ChannelClose \/ SwapButtons
  BY <1>5, Zenon DEF StoreAddr, StorePort, ChannelOpen, ChannelClose,
                     SwapButtons
<1>6. CASE Timer
  BY <1>6, Zenon DEF Timer, TimerFires, HideNotification, EnableTabset,
                     ShowTabset, TimerSame
<1>7. CASE IncomingRequest \/ Client \/ SessionDies \/ SessionEnds
  BY <1>7, Zenon DEF IncomingRequest, Client, FreePending, AllocPending,
                     CopyRequest, HideForCall, ShowCall, SessionDies, SessionEnds,
                     ClientSame
<1>8. CASE Intercom \/ LoseChannel \/ Fails
  BY <1>8, Zenon DEF Intercom, TakeRequest, ReadAddr, ReadPort, LoseChannel,
                     Fails, IntercomSame
<1>9. CASE UNCHANGED vars
  BY <1>9, Zenon DEF vars
<1>10. QED
  BY <1>1, <1>2, <1>3, <1>4, <1>5, <1>6, <1>7, <1>8, <1>9 DEF Next, Ui

LEMMA TypeStep ==
  ASSUME TypeOK, [Next]_vars PROVE TypeOK'
<1> USE FlagsStep
    DEF TypeOK, UiMoves, UiSame, addrVars, dialVars, listenVars, uiVars,
        timerVars, callVars, clientVars
<1>1. ASSUME NEW b \in Button, Press(b) PROVE TypeOK'
  BY <1>1 DEF Press, WorkedOff, Next
<1>2. CASE BeginWait \/ WaitTimeout \/ Complete
  BY <1>2 DEF BeginWait, WaitTimeout, Complete, UiPCs
<1>3. CASE Dispatch
  <2>1. FirstStep(event) \in UiPCs
    BY DEF FirstStep, Button, UiPCs
  <2>2. waitqueue' \in 0..1
    BY <1>3 DEF Dispatch
  <2>3. QED
    BY <1>3, <2>1, <2>2 DEF Dispatch
<1>4. CASE DisableTabset \/ HideTabset \/ ShowNotification \/ ArmTimer
  BY <1>4 DEF DisableTabset, HideTabset, ShowNotification, ArmTimer, UiPCs
<1>5. CASE MessageSent \/ TestPending \/ LoadCaller \/ LoadPeer
  BY <1>5 DEF MessageSent, TestPending, LoadCaller, LoadPeer, UiPCs
<1>6. CASE StoreAddr \/ StorePort \/ SwapButtons
  BY <1>6 DEF StoreAddr, StorePort, SwapButtons, UiPCs, Port
<1>7. CASE ChannelOpen \/ ChannelClose
  BY <1>7 DEF ChannelOpen, ChannelClose, Control!Request, Control!Bits, UiPCs
<1>8. CASE Timer
  BY <1>8 DEF Timer, TimerFires, HideNotification, EnableTabset, ShowTabset,
              TimerSame
<1>9. CASE IncomingRequest \/ Client \/ SessionDies \/ SessionEnds
  BY <1>9 DEF IncomingRequest, Client, FreePending, AllocPending, CopyRequest,
              HideForCall, ShowCall, SessionDies, SessionEnds, ClientMoves,
              ClientSame, StaysOpen,
              Control!Halt, Pending, NoRequest, Stale
<1>10. CASE Intercom \/ LoseChannel \/ Fails
  BY <1>10 DEF Intercom, TakeRequest, ReadAddr, ReadPort, LoseChannel, Fails,
               IntercomSame, Control!Take, Control!Lose, Control!Halt
<1>11. CASE UNCHANGED vars
  BY <1>11 DEF vars
<1>12. QED
  BY <1>1, <1>2, <1>3, <1>4, <1>5, <1>6, <1>7, <1>8, <1>9, <1>10, <1>11
     DEF Next, Ui

LEMMA Inductive == Spec => []IInv
<1>1. IInv /\ [Next]_vars => IInv'
  BY TypeStep, HandlerStep, QueueStep, AddrStep, EndStep, TabStep, OneCallStep
     DEF IInv
<1>2. QED
  BY <1>1, InitInv, PTL DEF Spec

-----------------------------------------------------------------------------
(* What follows from it.                                                    *)

\* Every variable keeps its type.
THEOREM TypeCorrect == Spec => []TypeOK
<1>1. IInv => TypeOK
  BY DEF IInv
<1>2. QED
  BY <1>1, Inductive, PTL

\* The channel is opened with the address and the port of one kind of call,
\* although two handlers store them and nothing locks them.
THEOREM OneCallIsOpened == Spec => []OpensOneCall
<1>1. IInv => OpensOneCall
  BY DEF IInv
<1>2. QED
  BY <1>1, Inductive, PTL

\* A channel the call button opened can be closed from the panel once the
\* notification is gone.
THEOREM OpenChannelIsEndable == Spec => []OpenIsEndable
<1>1. IInv => OpenIsEndable
  <2>1. SUFFICES ASSUME IInv, channel = "open", dial = "idle", ta.addr = Peer,
                        pcUi = "waiting", notify = {}, ~noteVisible,
                        pcTimer = "idle", ~callVisible, pcClient = "idle"
                 PROVE  Touchable /\ talkOn
    BY DEF OpenIsEndable
  <2>2. talkOn
    BY <2>1 DEF IInv, EndInv, ToPeer
  <2>3. tabEnabled /\ tabVisible
    BY <2>1 DEF IInv, TabInv
  <2>4. QED
    BY <2>1, <2>2, <2>3 DEF Touchable
<1>2. QED
  BY <1>1, Inductive, PTL
=============================================================================
