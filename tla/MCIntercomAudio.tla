-------------------------- MODULE MCIntercomAudio --------------------------
(* Small instances of IntercomAudio for TLC. *)
EXTENDS IntercomAudio, TLC

BufSymmetry == Permutations(Buf)
=============================================================================
