--------------------------- MODULE MCControlTiming ---------------------------
(* Small instances of ControlTiming for TLC. *)
EXTENDS ControlTiming

(* Punctual, late within the period, exactly one period, and a stall in each of the  *)
(* other classes of the histogram.                                                   *)
SomeDelays == {0, 7, 10, 55, 120}

(* Idle times between runs: none, and more than two periods. *)
SomeGaps == {0, 25}

(* Work that fits, and ends on the deadline if it starts 7 late, and work that does not fit. *)
SomeControlTimes == {2, 11}

(* Pinned, now and then on an unknown processor; and free to move. *)
PinnedOrNot == {{-1, 0}, {0, 1}}
=============================================================================
