--------------------------- MODULE MCClientThread ---------------------------
(* Small instances of ClientThread for TLC. *)
EXTENDS ClientThread
=============================================================================
