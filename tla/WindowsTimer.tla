---------------------------- MODULE WindowsTimer ----------------------------
(***************************************************************************)
(* The waitable timer of WindowsControlScheduler: the time it is set to,   *)
(* in ticks of steady_clock, of which a unit of its due time holds         *)
(* Resolution, and what the wait that uses it promises.                    *)
(***************************************************************************)
EXTENDS PortableScheduler

CONSTANTS
    SpinWindow,   \* spin_window_
    Resolution,   \* 100 ns, the unit of SetWaitableTimer()
    TimerMayFail  \* SetWaitableTimer() or WaitForSingleObject() may fail

ASSUME ResolutionAssumption == Resolution \in Nat \ {0}
ASSUME WindowAssumption == SpinWindow \in Nat /\ TimerMayFail \in BOOLEAN

VARIABLES
    dueTime,          \* due_time: the relative time the timer is set to
    fireTime,         \* when the timer fires
    maxWakeLateness,  \* max_wake_lateness_
    maxDelay          \* history: the longest delay with which a call returned

(* toWindows100ns() truncates, so that the timer is set too short rather than too long. *)
InTimerUnits(duration) == (duration \div Resolution) * Resolution

(* Mutant: the timer is set to the spin window instead of the rest. *)
SleepTimeOfWindow(remaining) == SpinWindow

SleepTime(remaining) == remaining - SpinWindow

-----------------------------------------------------------------------------
(* Properties *)

(* The control thread never burns its processor for more than the spin window and    *)
(* what the truncation to timer units leaves.                                        *)
SpinIsShort == phase = "spin" => nextCycle - now < SpinWindow + Resolution

(* maxWakeLateness() is a part of the scheduling delay the control loop measures     *)
(* itself (README.md:457 "Closely matched scheduling delay"), never more.            *)
LatenessIsPartOfDelay == phase = "work" => maxWakeLateness <= maxDelay
=============================================================================
