----------------------------- MODULE MCSockets -----------------------------
(* Small instances of Sockets for TLC. *)
EXTENDS Sockets
=============================================================================
