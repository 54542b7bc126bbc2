---------------------------- MODULE MCCanBuffers ----------------------------
(* Small instances of CanBuffers for TLC. *)
EXTENDS CanBuffers
=============================================================================
