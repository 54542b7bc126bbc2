--------------------------- MODULE MCControlLoop ---------------------------
(* Small instances of ControlLoop for TLC. *)
EXTENDS ControlLoop

(* A negative count, none, one cycle, and enough for a stop between two cycles. *)
SomeCounts == {-1, 0, 1, 2}
=============================================================================
