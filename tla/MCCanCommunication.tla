------------------------ MODULE MCCanCommunication ------------------------
(* Small instances of CanCommunication for TLC. *)
EXTENDS CanCommunication
=============================================================================
