--------------------------- MODULE CycleSchedule ---------------------------
(***************************************************************************)
(* What ControlLoop expects of IControlScheduler::waitForNextCycle(): it   *)
(* returns no earlier than the scheduled start of the next cycle, and it   *)
(* moves the schedule by exactly one period, however late it returns.      *)
(***************************************************************************)
EXTENDS Integers

CONSTANT Period   \* period_

VARIABLES
    now,        \* steady_clock
    nextCycle,  \* next_cycle_
    waiting     \* the control thread is inside waitForNextCycle()

vars == <<now, nextCycle, waiting>>

Init == now \in Int /\ nextCycle \in Int /\ waiting = FALSE

TimePasses == now' \in Int /\ now' > now /\ UNCHANGED <<nextCycle, waiting>>

Call == ~waiting /\ waiting' = TRUE /\ UNCHANGED <<now, nextCycle>>

Return ==
    /\ waiting
    /\ now >= nextCycle
    /\ nextCycle' = nextCycle + Period
    /\ waiting' = FALSE
    /\ UNCHANGED now

Next == TimePasses \/ Call \/ Return

Spec == Init /\ [][Next]_vars
=============================================================================
