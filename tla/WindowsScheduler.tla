-------------------------- MODULE WindowsScheduler --------------------------
(***************************************************************************)
(* WindowsControlScheduler: waitForNextCycle() sleeps on a waitable timer  *)
(* until spin_window_ before the scheduled start and spins over the rest.  *)
(*                                                                         *)
(* Time is counted in ticks of steady_clock.  The timer fires at its due   *)
(* time or later, and time may pass between any two statements.            *)
(***************************************************************************)
EXTENDS WindowsTimer

vars == <<now, nextCycle, phase, dueTime, fireTime, maxWakeLateness, maxDelay>>

TypeOK ==
    /\ now \in Nat
    /\ nextCycle \in Nat
    /\ phase \in {"work", "begin", "set", "timer", "measure", "spin", "advance", "terminated"}
    /\ dueTime \in Nat
    /\ fireTime \in Nat
    /\ maxWakeLateness \in Nat
    /\ maxDelay \in Nat

MaxOf(a, b) == IF a < b THEN b ELSE a

Init ==
    /\ now = 0
    /\ nextCycle = 0
    /\ phase = "work"
    /\ dueTime = 0
    /\ fireTime = 0
    /\ maxWakeLateness = 0
    /\ maxDelay = 0

Tick ==
    /\ now < MaxTime
    /\ now' = now + 1
    /\ UNCHANGED <<nextCycle, phase, dueTime, fireTime, maxWakeLateness, maxDelay>>

CallWait ==
    /\ phase = "work"
    /\ phase' = "begin"
    /\ UNCHANGED <<now, nextCycle, dueTime, fireTime, maxWakeLateness, maxDelay>>

(* The statements up to the timer, with the remaining time as read on entry. *)
ReadClock ==
    /\ phase = "begin"
    /\ LET remaining == nextCycle - now
       IN IF remaining <= 0 THEN phase' = "advance" /\ UNCHANGED dueTime
          ELSE IF remaining <= SpinWindow THEN phase' = "spin" /\ UNCHANGED dueTime
          ELSE phase' = "set" /\ dueTime' = InTimerUnits(SleepTime(remaining))
    /\ UNCHANGED <<now, nextCycle, fireTime, maxWakeLateness, maxDelay>>

SetWaitableTimer ==
    /\ phase = "set"
    /\ phase' = "timer"
    /\ fireTime' = now + dueTime
    /\ UNCHANGED <<now, nextCycle, dueTime, maxWakeLateness, maxDelay>>

WaitForSingleObject ==
    /\ phase = "timer"
    /\ now >= fireTime
    /\ phase' = "measure"
    /\ UNCHANGED <<now, nextCycle, dueTime, fireTime, maxWakeLateness, maxDelay>>

(* The exception leaves the thread function: std::terminate(). *)
TimerFails ==
    /\ TimerMayFail
    /\ phase \in {"set", "timer"}
    /\ phase' = "terminated"
    /\ UNCHANGED <<now, nextCycle, dueTime, fireTime, maxWakeLateness, maxDelay>>

(* Mutant: the lateness is measured from the timer's due time. *)
MeasureFromTimer ==
    /\ phase = "measure"
    /\ phase' = "spin"
    /\ maxWakeLateness' = MaxOf(maxWakeLateness, now - fireTime)
    /\ UNCHANGED <<now, nextCycle, dueTime, fireTime, maxDelay>>

MeasureLateness ==
    /\ phase = "measure"
    /\ phase' = "spin"
    /\ maxWakeLateness' = MaxOf(maxWakeLateness, now - nextCycle)
    /\ UNCHANGED <<now, nextCycle, dueTime, fireTime, maxDelay>>

(* Mutant: the rest of the time is not spun away. *)
NoSpin ==
    /\ phase = "spin"
    /\ phase' = "advance"
    /\ UNCHANGED <<now, nextCycle, dueTime, fireTime, maxWakeLateness, maxDelay>>

SpinDone ==
    /\ phase = "spin"
    /\ now >= nextCycle
    /\ phase' = "advance"
    /\ UNCHANGED <<now, nextCycle, dueTime, fireTime, maxWakeLateness, maxDelay>>

AdvanceSchedule ==
    /\ phase = "advance"
    /\ nextCycle' = nextCycle + Period
    /\ phase' = "work"
    /\ maxDelay' = MaxOf(maxDelay, now - nextCycle)
    /\ UNCHANGED <<now, dueTime, fireTime, maxWakeLateness>>

Next ==
    \/ Tick
    \/ CallWait \/ ReadClock \/ SetWaitableTimer \/ WaitForSingleObject \/ TimerFails
    \/ MeasureLateness \/ SpinDone \/ AdvanceSchedule

Spec == Init /\ [][Next]_vars

-----------------------------------------------------------------------------
(* The inductive invariant behind the theorems (WindowsScheduler_proofs). *)

(* How far the scheduled start lies beyond the moment the timer fires, or fired. *)
TimerIsClose ==
    /\ phase = "set" => nextCycle - (now + dueTime) < SpinWindow + Resolution
    /\ phase = "timer" => nextCycle - fireTime < SpinWindow + Resolution
    /\ phase \in {"measure", "spin"} => nextCycle - now < SpinWindow + Resolution

(* Until the call returns, its own delay may account for the lateness just measured. *)
LatenessIsAccounted ==
    \/ maxWakeLateness <= maxDelay
    \/ phase \in {"spin", "advance"} /\ maxWakeLateness <= now - nextCycle

WaitInv ==
    /\ TypeOK
    /\ TimerIsClose
    /\ LatenessIsAccounted
    /\ phase = "advance" => nextCycle <= now
=============================================================================
