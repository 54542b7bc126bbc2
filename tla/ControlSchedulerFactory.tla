---------------------- MODULE ControlSchedulerFactory ----------------------
(***************************************************************************)
(* createControlScheduler(): the platform the program is built for decides *)
(* which scheduler the control loop waits on, and everything the loop      *)
(* relies on has to hold of either.                                        *)
(*                                                                         *)
(* The two schedulers share what they inherit; a build has the members of  *)
(* one, and those of the other keep their initial values.                  *)
(***************************************************************************)
EXTENDS LinuxScheduler, WindowsTimer

VARIABLE platform  \* what the program is built for

linuxVars == <<chronoStart, linuxStart, target>>
windowsVars == <<dueTime, fireTime, maxWakeLateness, maxDelay>>
factoryVars == <<platform, vars, windowsVars>>

Windows == INSTANCE WindowsScheduler

CreateControlScheduler ==
    \/ /\ platform = "linux"
       /\ Init
       /\ dueTime = 0 /\ fireTime = 0 /\ maxWakeLateness = 0 /\ maxDelay = 0
    \/ /\ platform = "windows"
       /\ Windows!Init
       /\ chronoStart = 0 /\ linuxStart = ClockGettime(0) /\ target = linuxStart

LinuxStep == platform = "linux" /\ Next /\ UNCHANGED <<platform, windowsVars>>

WindowsStep == platform = "windows" /\ Windows!Next /\ UNCHANGED <<platform, linuxVars>>

FactorySpec == CreateControlScheduler /\ [][LinuxStep \/ WindowsStep]_factoryVars

-----------------------------------------------------------------------------
(* Properties: ImplementsSchedule, TargetIsScheduled, SpinIsShort and             *)
(* LatenessIsPartOfDelay as the schedulers state them, and                        *)

(* LinuxScheduler's: a rejected sleep ends the process only while the schedule is *)
(* behind chrono_start_time_ (a failed timer may end it on Windows at any time).  *)
RejectedOnlyBeforeStart == platform = "linux" => ThrowsOnlyBeforeStart
=============================================================================
