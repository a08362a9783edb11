------------------------------ MODULE MCParser ------------------------------
(* Small instances of Parser for TLC. *)
EXTENDS Parser
=============================================================================
