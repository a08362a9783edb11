------------------------------ MODULE Sockets ------------------------------
(***************************************************************************)
(* The socket table of lwIP (sockets.c) and its two users: the client      *)
(* thread through mbedtls_net_connect and mbedtls_net_free                 *)
(* (net_sockets.c), and the intercom thread.  A descriptor is an index of  *)
(* the table; the lowest free one is given out, and close takes whatever   *)
(* index it is given.                                                      *)
(***************************************************************************)
EXTENDS Integers

CONSTANT NumSockets   \* NUM_SOCKETS, MEMP_NUM_NETCONN (4)

NoSocket == -1
Descriptor == 0..(NumSockets - 1)

VARIABLES
  sockets,    \* the thread that opened a connection, or "free"
  fd,         \* ssl_fd.fd, never initialised (thread_client.c:176)
  pcClient,
  socket_rx, pcIntercom

clientVars == <<fd, pcClient>>
intercomVars == <<socket_rx, pcIntercom>>
vars == <<sockets, clientVars, intercomVars>>

Free == {s \in Descriptor : sockets[s] = "free"}

\* alloc_socket.
Alloc(thread, s) ==
  \/ /\ s \in Free /\ \A t \in Free : s <= t
     /\ sockets' = [sockets EXCEPT ![s] = thread]
  \/ Free = {} /\ s = NoSocket /\ sockets' = sockets

\* lwip_close; an index without a connection is EBADF and changes nothing.
Close(s) ==
  sockets' = [t \in Descriptor |-> IF t = s THEN "free" ELSE sockets[t]]

Init ==
  /\ sockets = [s \in Descriptor |-> "free"]
  /\ fd \in Descriptor \cup {NoSocket} /\ pcClient = "connect"
  /\ socket_rx = NoSocket /\ pcIntercom = "wait"
-----------------------------------------------------------------------------
(* The client thread.                                                      *)

\* getaddrinfo fails before a socket is made, and fd keeps its value.
ResolveFails ==
  /\ pcClient = "connect"
  /\ pcClient' = "finished"
  /\ UNCHANGED <<sockets, fd, intercomVars>>

OpenSocket ==
  /\ pcClient = "connect"
  /\ \E s \in Descriptor \cup {NoSocket} :
       /\ Alloc("client", s)
       /\ fd' = s
       /\ pcClient' = IF s = NoSocket THEN "finished" ELSE "connecting"
  /\ UNCHANGED intercomVars

Connected ==
  /\ pcClient = "connecting"
  /\ pcClient' = "session"
  /\ UNCHANGED <<sockets, fd, intercomVars>>

\* The server refuses: the socket is closed and fd keeps its number.
Refused ==
  /\ pcClient = "connecting"
  /\ Close(fd)
  /\ pcClient' = "finished"
  /\ UNCHANGED <<fd, intercomVars>>

SessionEnds ==
  /\ pcClient = "session"
  /\ pcClient' = "finished"
  /\ UNCHANGED <<sockets, fd, intercomVars>>

\* mbedtls_net_free, however the connection ended.
NetFree ==
  /\ pcClient = "finished"
  /\ IF fd = NoSocket THEN sockets' = sockets ELSE Close(fd)
  /\ fd' = NoSocket
  /\ pcClient' = "connect"
  /\ UNCHANGED intercomVars
-----------------------------------------------------------------------------
(* The intercom thread.                                                    *)

OpenChannel ==
  /\ pcIntercom = "wait"
  /\ \E s \in Descriptor \cup {NoSocket} :
       /\ Alloc("intercom", s)
       /\ socket_rx' = s
       /\ pcIntercom' = IF s = NoSocket THEN "halted" ELSE "open"
  /\ UNCHANGED clientVars

\* A request to close, or an error of recvfrom.
CloseChannel ==
  /\ pcIntercom = "open"
  /\ Close(socket_rx)
  /\ pcIntercom' = "wait"
  /\ UNCHANGED <<socket_rx, clientVars>>
-----------------------------------------------------------------------------
Client == \/ ResolveFails \/ OpenSocket \/ Connected \/ Refused
          \/ SessionEnds \/ NetFree
Next == Client \/ OpenChannel \/ CloseChannel

Spec == Init /\ [][Next]_vars
-----------------------------------------------------------------------------
\* "Gracefully close the connection" (net_sockets.c:553): mbedtls_net_free
\* closes the client's connection, never the one the intercom has open.
ClosesTheConnection ==
  [][\A s \in Descriptor :
       sockets[s] = "intercom" /\ sockets'[s] = "free"
         => pcIntercom = "open" /\ pcIntercom' = "wait"]_vars
=============================================================================
