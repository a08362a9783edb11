----------------------------- MODULE FramePipe -----------------------------
(***************************************************************************)
(* A pipe of at most Capacity frames, whatever the buffers and queues       *)
(* behind it: what both directions out of the panel promise, the captured   *)
(* sound of the intercom and the messages of the client thread.  Frames are *)
(* numbered modulo FrameMod as they enter and leave in that order, each     *)
(* once.  A frame for which there is no room does not enter; closing the    *)
(* pipe drops what is in it.                                                *)
(***************************************************************************)
EXTENDS Integers, Sequences

CONSTANTS Capacity, FrameMod

VARIABLES open, pipe, next

Init == open \in BOOLEAN /\ pipe = <<>> /\ next = 0

Open == /\ ~open /\ open' = TRUE
        /\ UNCHANGED <<pipe, next>>

Enter == /\ open /\ Len(pipe) < Capacity
         /\ pipe' = Append(pipe, next)
         /\ next' = (next + 1) % FrameMod
         /\ UNCHANGED open

Leave == /\ open /\ pipe # <<>>
         /\ pipe' = Tail(pipe)
         /\ UNCHANGED <<open, next>>

Close == /\ open /\ open' = FALSE
         /\ pipe' = <<>>
         /\ UNCHANGED next

Next == Open \/ Enter \/ Leave \/ Close

Spec == Init /\ [][Next]_<<open, pipe, next>>
=============================================================================
