-------------------------- MODULE MCEthernetDriver --------------------------
(* Small instances of EthernetDriver for TLC. *)
EXTENDS EthernetDriver
=============================================================================
