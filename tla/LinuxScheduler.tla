--------------------------- MODULE LinuxScheduler ---------------------------
(***************************************************************************)
(* LinuxControlScheduler: waitForNextCycle() maps the scheduled start from *)
(* steady_clock to CLOCK_MONOTONIC and sleeps there until an absolute      *)
(* timespec, again after every EINTR.                                      *)
(*                                                                         *)
(* Time is counted in ticks, Second of them in a second (10^9 in the       *)
(* code).  CLOCK_MONOTONIC is Offset ticks ahead of steady_clock: the code *)
(* does not assume a common epoch.  The constructors read the clocks one   *)
(* after the other: next_cycle_ in the base class, chrono_start_time_      *)
(* after one of BaseGaps, linux_start_time_ after one of ClockGaps.        *)
(***************************************************************************)
EXTENDS PortableScheduler

CONSTANTS
    Second,      \* ticks in a second
    Offset,      \* CLOCK_MONOTONIC - steady_clock
    StartTimes,  \* steady_clock when the base class reads it
    BaseGaps,    \* time from the base class's reading to the derived class's first
    ClockGaps    \* time from there to its second reading

ASSUME SecondAssumption == Second \in Nat \ {0}
ASSUME TimesAssumption == (StartTimes \cup BaseGaps \cup ClockGaps \cup {Offset}) \subseteq Nat

VARIABLES
    chronoStart,  \* chrono_start_time_
    linuxStart,   \* linux_start_time_
    target        \* the local `target` of waitForNextCycle()

vars == <<now, nextCycle, chronoStart, linuxStart, phase, target>>

Timespecs == [sec : Int, nsec : Int]

TypeOK ==
    /\ now \in Int
    /\ nextCycle \in Int
    /\ chronoStart \in Int
    /\ linuxStart \in Timespecs
    /\ phase \in {"work", "call", "sleeping", "woken", "terminated"}
    /\ target \in Timespecs

(* The time of CLOCK_MONOTONIC a timespec stands for. *)
Ticks(t) == t.sec * Second + t.nsec

(* What clock_gettime() returns and clock_nanosleep() accepts: anything else is EINVAL. *)
Valid(t) == 0 <= t.nsec /\ t.nsec < Second

ClockGettime(time) == [sec |-> (time + Offset) \div Second, nsec |-> (time + Offset) % Second]

-----------------------------------------------------------------------------
(* C++ division truncates towards zero and the remainder has the dividend's sign. *)
Quotient(a) == IF a < 0 THEN -((-a) \div Second) ELSE a \div Second
Remainder(a) == a - Second * Quotient(a)

(* Mutant: the carry into tv_sec is forgotten. *)
AddDurationNoCarry(time, duration) ==
    LET nsec == time.nsec + Remainder(duration)
    IN [sec |-> time.sec + Quotient(duration),
        nsec |-> IF nsec >= Second THEN nsec - Second ELSE nsec]

(* Mutant: tv_nsec is not normalised. *)
AddDurationNoNormalize(time, duration) ==
    [sec |-> time.sec + Quotient(duration), nsec |-> time.nsec + Remainder(duration)]

AddDuration(time, duration) ==
    LET sec == time.sec + Quotient(duration)
        nsec == time.nsec + Remainder(duration)
    IN IF nsec >= Second THEN [sec |-> sec + 1, nsec |-> nsec - Second]
                         ELSE [sec |-> sec, nsec |-> nsec]

-----------------------------------------------------------------------------
Init ==
    /\ nextCycle \in StartTimes
    /\ \E gap \in BaseGaps : chronoStart = nextCycle + gap
    /\ \E gap \in ClockGaps : now = chronoStart + gap
    /\ linuxStart = ClockGettime(now)
    /\ phase = "work"
    /\ target = linuxStart

(* Time passes while the thread sleeps, works or is preempted. *)
Tick ==
    /\ now < MaxTime
    /\ now' = now + 1
    /\ UNCHANGED <<nextCycle, chronoStart, linuxStart, phase, target>>

ComputeTarget ==
    /\ phase = "work"
    /\ phase' = "call"
    /\ target' = AddDuration(linuxStart, nextCycle - chronoStart)
    /\ UNCHANGED <<now, nextCycle, chronoStart, linuxStart>>

(* EINVAL becomes an exception that leaves the thread function: std::terminate(). *)
ClockNanosleep ==
    /\ phase = "call"
    /\ phase' = IF Valid(target) THEN "sleeping" ELSE "terminated"
    /\ UNCHANGED <<now, nextCycle, chronoStart, linuxStart, target>>

SleepDone ==
    /\ phase = "sleeping"
    /\ Ticks(target) <= now + Offset
    /\ phase' = "woken"
    /\ UNCHANGED <<now, nextCycle, chronoStart, linuxStart, target>>

(* Mutant: an interrupted sleep counts as a finished one. *)
SleepInterruptedBreaks ==
    /\ phase = "sleeping"
    /\ phase' = "woken"
    /\ UNCHANGED <<now, nextCycle, chronoStart, linuxStart, target>>

SleepInterrupted ==
    /\ phase = "sleeping"
    /\ phase' = "call"
    /\ UNCHANGED <<now, nextCycle, chronoStart, linuxStart, target>>

AdvanceSchedule ==
    /\ phase = "woken"
    /\ nextCycle' = nextCycle + Period
    /\ phase' = "work"
    /\ UNCHANGED <<now, chronoStart, linuxStart, target>>

Next ==
    \/ Tick
    \/ ComputeTarget \/ ClockNanosleep \/ SleepDone \/ SleepInterrupted \/ AdvanceSchedule

Spec == Init /\ [][Next]_vars

-----------------------------------------------------------------------------
(* Properties *)

(* The sleep's target is the scheduled start, shifted by the difference of the two   *)
(* captured starting points, and the carry between the fields never loses a second.  *)
TargetIsScheduled ==
    phase \in {"call", "sleeping", "woken"} =>
        Ticks(target) = Ticks(linuxStart) + nextCycle - chronoStart

(* clock_nanosleep() never rejects the target, so that the control thread never ends *)
(* in std::terminate(): what LinuxControlScheduler.hpp:32 "Keep both clocks tied to  *)
(* the same starting point" is for, but next_cycle_ is read before                   *)
(* chrono_start_time_, and an elapsed time below zero is rejected.                    *)
WaitNeverThrows == phase # "terminated"

(* What holds instead, whatever the gap between the starting points:                  *)
(* clock_nanosleep() rejects a target, and ends the process, only while the schedule  *)
(* is still behind chrono_start_time_, so that addDuration() sees a negative elapsed  *)
(* time.                                                                              *)
ThrowsOnlyBeforeStart == phase = "terminated" => nextCycle < chronoStart

(* Once a waitForNextCycle() has returned the schedule has passed                    *)
(* chrono_start_time_, and stays there: only the first wait can be the one that      *)
(* throws.  It holds where the two starting points are read within a period.         *)
ReturnPassesStart == [][nextCycle' # nextCycle => chronoStart <= nextCycle']_vars

-----------------------------------------------------------------------------
(* The inductive invariant behind the theorems (LinuxScheduler_proofs). *)

(* linux_start_time_ was read at chrono_start_time_ or later. *)
ClocksInOrder == Valid(linuxStart) /\ chronoStart + Offset <= Ticks(linuxStart)

(* The thread wakes no earlier than the scheduled start. *)
WokenInTime == phase = "woken" => nextCycle <= now

SleepInv == TypeOK /\ ClocksInOrder /\ TargetIsScheduled /\ WokenInTime

(* The elapsed time decides on the target, and the thread ends only on a bad one. *)
RejectionInv ==
    /\ phase \in {"call", "sleeping", "woken"} /\ chronoStart <= nextCycle => Valid(target)
    /\ ThrowsOnlyBeforeStart

(* The schedule is at most one period behind the second starting point. *)
StartsWithinPeriod == chronoStart - nextCycle <= Period
=============================================================================
