------------------------------ MODULE Channel ------------------------------
(***************************************************************************)
(* The intercom channel as the other threads see it: what a request to     *)
(* open or to close it may do, and when.  Requests are bits of the task    *)
(* notification of the intercom thread, set by any thread and all taken    *)
(* together.  IntercomAudio implements this; IntercomControl is built on   *)
(* it.                                                                     *)
(***************************************************************************)
VARIABLES
  channel,  \* "closed", "open", or "halted": the whole device has stopped
  notify    \* requests not yet taken

Bits == {"open", "close"}

Init == channel = "closed" /\ notify = {}

Request(bit) == /\ channel # "halted"
                /\ notify' = notify \cup {bit}
                /\ UNCHANGED channel

\* A closed channel looks for the bit that opens it, an open one for the bit
\* that closes it; the other bit is forgotten.
Take == /\ channel # "halted" /\ notify # {}
        /\ notify' = {}
        /\ channel' = CASE channel = "closed" /\ "open" \in notify -> "open"
                        [] channel = "open" /\ "close" \in notify -> "closed"
                        [] OTHER -> channel

\* The network fails and the thread gives the channel up.
Lose == /\ channel = "open"
        /\ channel' = "closed"
        /\ UNCHANGED notify

Halt == /\ channel # "halted"
        /\ channel' = "halted" /\ notify' \in {notify, {}}

Next == (\E bit \in Bits : Request(bit)) \/ Take \/ Lose \/ Halt

Spec == Init /\ [][Next]_<<channel, notify>>
=============================================================================
