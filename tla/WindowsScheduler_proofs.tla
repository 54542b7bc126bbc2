----------------------- MODULE WindowsScheduler_proofs -----------------------
(***************************************************************************)
(* Theorems about WindowsScheduler for any period, spin window, timer      *)
(* resolution and any delays.                                              *)
(*                                                                         *)
(* WaitInv is inductive: it carries how far the timer was set before the   *)
(* scheduled start through every moment at which the thread may be         *)
(* preempted.                                                              *)
(***************************************************************************)
EXTENDS WindowsScheduler, TLAPS

(* Truncation to timer units loses less than a unit. *)
LEMMA DivisionRoundsDown ==
    ASSUME NEW d \in Nat, NEW r \in Nat, r > 0
    PROVE  (d \div r) * r \in Nat /\ (d \div r) * r <= d /\ d < (d \div r) * r + r
<1>1. d = (d \div r) * r + (d % r) /\ d \div r \in Nat
    BY SMT
<1>2. d % r \in 0 .. r - 1
    BY SMT
<1>3. \A q \in Nat : q * r \in Nat
    BY SMT
<1> QED BY <1>1, <1>2, <1>3, SMT

LEMMA InTimerUnitsRounds ==
    ASSUME NEW d \in Nat
    PROVE  InTimerUnits(d) \in Nat /\ d < InTimerUnits(d) + Resolution
<1>1. Resolution \in Nat /\ Resolution > 0
    BY ResolutionAssumption, SMT
<1> QED BY <1>1, DivisionRoundsDown DEF InTimerUnits

LEMMA InitWaitInv == Init => WaitInv
BY SMT DEF Init, WaitInv, TypeOK, TimerIsClose, LatenessIsAccounted

LEMMA StepKeepsWaitInv == WaitInv /\ [Next]_vars => WaitInv'
<1> SUFFICES ASSUME WaitInv, [Next]_vars PROVE WaitInv'
    OBVIOUS
<1> USE PeriodAssumption, ResolutionAssumption, WindowAssumption DEF WaitInv, TypeOK, TimerIsClose, LatenessIsAccounted
<1>1. CASE Tick
    BY <1>1, SMT DEF Tick
<1>2. CASE CallWait
    BY <1>2, SMT DEF CallWait
<1>3. CASE ReadClock
  <2> DEFINE remaining == nextCycle - now
  <2>1. CASE remaining <= 0
      BY <1>3, <2>1, SMT DEF ReadClock
  <2>2. CASE 0 < remaining /\ remaining <= SpinWindow
      BY <1>3, <2>2, SMT DEF ReadClock
  <2>3. CASE SpinWindow < remaining
    <3>1. SleepTime(remaining) \in Nat
        BY <2>3, SMT DEF SleepTime
    <3>2. /\ InTimerUnits(SleepTime(remaining)) \in Nat
          /\ SleepTime(remaining) < InTimerUnits(SleepTime(remaining)) + Resolution
        BY <3>1, InTimerUnitsRounds
    <3>3. phase' = "set" /\ dueTime' = InTimerUnits(SleepTime(remaining))
        BY <1>3, <2>3, SMT DEF ReadClock
    <3> QED BY <1>3, <3>2, <3>3, SMT DEF ReadClock, SleepTime
  <2> QED BY <2>1, <2>2, <2>3, SMT
<1>4. CASE SetWaitableTimer
    BY <1>4, SMT DEF SetWaitableTimer
<1>5. CASE WaitForSingleObject
    BY <1>5, SMT DEF WaitForSingleObject
<1>6. CASE TimerFails
    BY <1>6, SMT DEF TimerFails
<1>7. CASE MeasureLateness
    BY <1>7, SMT DEF MeasureLateness, MaxOf
<1>8. CASE SpinDone
    BY <1>8, SMT DEF SpinDone
<1>9. CASE AdvanceSchedule
    BY <1>9, SMT DEF AdvanceSchedule, MaxOf
<1>10. CASE UNCHANGED vars
    BY <1>10 DEF vars
<1> QED BY <1>1, <1>2, <1>3, <1>4, <1>5, <1>6, <1>7, <1>8, <1>9, <1>10 DEF Next

(* WaitInv holds wherever the control thread is preempted in waitForNextCycle(). *)
THEOREM WaitInvariant == Spec => []WaitInv
BY InitWaitInv, StepKeepsWaitInv, PTL DEF Spec

(* The spin at the end of waitForNextCycle() is bounded by the spin window and *)
(* one unit of the timer.                                                      *)
THEOREM SpinBounded == Spec => []SpinIsShort
<1>1. WaitInv => SpinIsShort
    BY DEF WaitInv, TimerIsClose, SpinIsShort
<1> QED BY <1>1, WaitInvariant, PTL

(* maxWakeLateness() never exceeds the longest delay of a cycle. *)
THEOREM LatenessBounded == Spec => []LatenessIsPartOfDelay
<1>1. WaitInv => LatenessIsPartOfDelay
    BY DEF WaitInv, LatenessIsAccounted, LatenessIsPartOfDelay
<1> QED BY <1>1, WaitInvariant, PTL

(* waitForNextCycle() returns at or after the scheduled start and moves the    *)
(* schedule by one period, whatever the timer does.                            *)
THEOREM WindowsImplementsSchedule == Spec => ImplementsSchedule
<1>1. Init => Contract!Init
  <2> SUFFICES ASSUME Init PROVE Contract!Init
      OBVIOUS
  <2>1. now \in Int /\ nextCycle \in Int
      BY SMT DEF Init
  <2>2. (phase # "work") = FALSE
      BY DEF Init
  <2> QED BY <2>1, <2>2 DEF Contract!Init
<1>2. WaitInv /\ [Next]_vars => [Contract!Next]_Contract!vars
  <2> SUFFICES ASSUME WaitInv, [Next]_vars PROVE [Contract!Next]_Contract!vars
      OBVIOUS
  <2>1. CASE Tick
    <3>1. now' \in Int /\ now' > now
        BY <2>1, SMT DEF Tick, WaitInv, TypeOK
    <3> QED BY <2>1, <3>1 DEF Tick, Contract!Next, Contract!TimePasses
  <2>2. CASE CallWait
      BY <2>2 DEF CallWait, Contract!Next, Contract!Call
  <2>3. CASE AdvanceSchedule
    <3>1. now >= nextCycle
        BY <2>3, SMT DEF AdvanceSchedule, WaitInv, TypeOK
    <3> QED BY <2>3, <3>1 DEF AdvanceSchedule, Contract!Next, Contract!Return
  <2>4. CASE ReadClock \/ SetWaitableTimer \/ WaitForSingleObject \/ TimerFails \/ MeasureLateness
             \/ SpinDone \/ UNCHANGED vars
    <3>1. (phase' # "work") = (phase # "work")
        BY <2>4 DEF ReadClock, SetWaitableTimer, WaitForSingleObject, TimerFails, MeasureLateness,
           SpinDone, vars
    <3>2. now' = now /\ nextCycle' = nextCycle
        BY <2>4 DEF ReadClock, SetWaitableTimer, WaitForSingleObject, TimerFails, MeasureLateness,
           SpinDone, vars
    <3> QED BY <3>1, <3>2 DEF Contract!vars
  <2> QED BY <2>1, <2>2, <2>3, <2>4 DEF Next
<1> QED BY <1>1, <1>2, WaitInvariant, PTL DEF Spec, ImplementsSchedule, Contract!Spec
=============================================================================
