------------------------- MODULE MCIntercomControl -------------------------
(* Small instances of IntercomControl for TLC. *)
EXTENDS IntercomControl
=============================================================================
