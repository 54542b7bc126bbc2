------------------------- MODULE PortableScheduler -------------------------
(***************************************************************************)
(* What LinuxControlScheduler and WindowsControlScheduler inherit from     *)
(* PortableControlScheduler: the period, the timeline it advances and the  *)
(* contract waitForNextCycle() has with the control loop.  The statistics  *)
(* the loop keeps of that timeline are ControlTiming's.                    *)
(***************************************************************************)
EXTENDS Integers

CONSTANTS
    Period,  \* period_
    MaxTime  \* bound on steady_clock

ASSUME PeriodAssumption == Period \in Nat \ {0} /\ MaxTime \in Nat

VARIABLES
    now,        \* steady_clock
    nextCycle,  \* next_cycle_
    phase       \* where the control thread stands; "work" outside waitForNextCycle()

Contract == INSTANCE CycleSchedule WITH waiting <- phase # "work"

(* waitForNextCycle() keeps the scheduler's contract on either platform: never early, *)
(* whatever signals interrupt the sleep (README.md:280 "Interrupted sleeps are        *)
(* retried") or however short the timer was set, and exactly one period per call.     *)
ImplementsSchedule == Contract!Spec
=============================================================================
