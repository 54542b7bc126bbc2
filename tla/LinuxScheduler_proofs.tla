------------------------ MODULE LinuxScheduler_proofs ------------------------
(***************************************************************************)
(* Theorems about LinuxScheduler for any period, length of a second,       *)
(* offset of the clocks and starting times, and any interruptions.         *)
(*                                                                         *)
(* SleepInv is inductive.  When the sleep is rejected, and the process     *)
(* ended, is RejectionInv's: while the elapsed time is negative, whatever  *)
(* the gap between the two starting points.                                *)
(***************************************************************************)
EXTENDS LinuxScheduler, TLAPS

LEMMA SecondIsPositive == Second \in Nat /\ Second > 0 /\ Period \in Nat
BY PeriodAssumption, SecondAssumption, SMT

(* A product and a remainder, and the sign of a remainder. *)
LEMMA DivisionHasRemainder ==
    ASSUME NEW a \in Int, NEW s \in Nat, s > 0
    PROVE  /\ a \div s \in Int /\ a % s \in 0 .. s - 1
           /\ (a \div s) * s + (a % s) = a
BY SMT

LEMMA ProductOfSum ==
    ASSUME NEW p \in Int, NEW q \in Int, NEW s \in Nat
    PROVE  (p + q) * s = p * s + s * q /\ p * s \in Int /\ (p + 1) * s = p * s + s
BY SMT

LEMMA QuotientOfNat ==
    ASSUME NEW a \in Nat, NEW s \in Nat, s > 0
    PROVE  /\ a - s * (a \div s) = a % s
           /\ (-a) - s * (-(a \div s)) = -(a % s)
BY SMT

(* The remainder of C++ lies strictly between -Second and Second, and a duration *)
(* that is not negative has one that is not negative.                            *)
LEMMA RemainderRange ==
    ASSUME NEW a \in Int
    PROVE  /\ Quotient(a) \in Int /\ Remainder(a) \in Int
           /\ -Second < Remainder(a) /\ Remainder(a) < Second
           /\ 0 <= a => 0 <= Remainder(a)
           /\ Second * Quotient(a) + Remainder(a) = a
<1>1. CASE 0 <= a
  <2>1. a \in Nat /\ ~(a < 0)
      BY <1>1, SMT
  <2>2. a \div Second \in Int /\ a % Second \in 0 .. Second - 1 /\ a - Second * (a \div Second) = a % Second
      BY <2>1, SecondIsPositive, DivisionHasRemainder, QuotientOfNat
  <2>3. Second * (a \div Second) \in Int
      BY <2>2, SecondIsPositive, SMT
  <2>4. Quotient(a) = a \div Second /\ Remainder(a) = a % Second
      BY <2>1, <2>2 DEF Quotient, Remainder
  <2> QED BY <2>1, <2>2, <2>3, <2>4, SecondIsPositive, SMT
<1>2. CASE a < 0
  <2> DEFINE b == -a
  <2>1. b \in Nat /\ -b = a
      BY <1>2, SMT
  <2>2. /\ b \div Second \in Int /\ b % Second \in 0 .. Second - 1
        /\ (-b) - Second * (-(b \div Second)) = -(b % Second)
      BY <2>1, SecondIsPositive, DivisionHasRemainder, QuotientOfNat
  <2>3. Second * (-(b \div Second)) \in Int
      BY <2>2, SecondIsPositive, SMT
  <2>4. Quotient(a) = -(b \div Second) /\ Remainder(a) = -(b % Second)
      BY <1>2, <2>1, <2>2 DEF Quotient, Remainder
  <2> QED BY <1>2, <2>1, <2>2, <2>3, <2>4, SecondIsPositive, SMT
<1> QED BY <1>1, <1>2, SMT

LEMMA AddDurationAdds ==
    ASSUME NEW t \in Timespecs, NEW a \in Int
    PROVE  /\ AddDuration(t, a) \in Timespecs
           /\ Ticks(AddDuration(t, a)) = Ticks(t) + a
           /\ Valid(t) /\ 0 <= a => Valid(AddDuration(t, a))
<1> DEFINE sec == t.sec + Quotient(a)
           nsec == t.nsec + Remainder(a)
<1>1. /\ t.sec \in Int /\ t.nsec \in Int /\ Quotient(a) \in Int /\ Remainder(a) \in Int
      /\ Second * Quotient(a) + Remainder(a) = a
      /\ Remainder(a) < Second /\ (0 <= a => 0 <= Remainder(a))
    BY RemainderRange DEF Timespecs
<1>2. sec \in Int /\ nsec \in Int
    BY <1>1, SMT
<1>3. /\ sec * Second = t.sec * Second + Second * Quotient(a)
      /\ t.sec * Second \in Int /\ Second * Quotient(a) \in Int
      /\ (sec + 1) * Second = sec * Second + Second /\ sec * Second \in Int
  <2>1. sec * Second = t.sec * Second + Second * Quotient(a) /\ t.sec * Second \in Int
      BY <1>1, SecondIsPositive, ProductOfSum
  <2>2. (sec + 1) * Second = sec * Second + Second /\ sec * Second \in Int
      BY <1>2, SecondIsPositive, ProductOfSum
  <2>3. Second * Quotient(a) \in Int
      BY <1>1, SecondIsPositive, SMT
  <2> QED BY <2>1, <2>2, <2>3
<1>4. CASE nsec >= Second
  <2>1. AddDuration(t, a) = [sec |-> sec + 1, nsec |-> nsec - Second]
      BY <1>4 DEF AddDuration
  <2>2. sec + 1 \in Int /\ nsec - Second \in Int
      BY <1>2, SecondIsPositive, SMT
  <2>3. Ticks(AddDuration(t, a)) = (sec + 1) * Second + (nsec - Second)
      BY <2>1 DEF Ticks
  <2>4. (sec + 1) * Second + (nsec - Second) = t.sec * Second + t.nsec + a
      BY <1>1, <1>2, <1>3, SecondIsPositive, SMT
  <2>5. Valid(t) => 0 <= nsec - Second /\ nsec - Second < Second
      BY <1>1, <1>4, SecondIsPositive, SMT DEF Valid
  <2> QED BY <2>1, <2>2, <2>3, <2>4, <2>5 DEF Ticks, Timespecs, Valid
<1>5. CASE ~(nsec >= Second)
  <2>1. AddDuration(t, a) = [sec |-> sec, nsec |-> nsec]
      BY <1>5 DEF AddDuration
  <2>2. sec * Second + nsec = t.sec * Second + t.nsec + a
      BY <1>1, <1>2, <1>3, SecondIsPositive, SMT
  <2>3. Valid(t) /\ 0 <= a => 0 <= nsec /\ nsec < Second
      BY <1>1, <1>5, SecondIsPositive, SMT DEF Valid
  <2> QED BY <1>2, <2>1, <2>2, <2>3 DEF Ticks, Timespecs, Valid
<1> QED BY <1>4, <1>5

LEMMA ClockGettimeIsExact ==
    ASSUME NEW time \in Int
    PROVE  /\ ClockGettime(time) \in Timespecs /\ Valid(ClockGettime(time))
           /\ Ticks(ClockGettime(time)) = time + Offset
<1>0. Offset \in Nat
    BY TimesAssumption
<1>1. time + Offset \in Int
    BY <1>0, SMT
<1>2. /\ (time + Offset) \div Second \in Int /\ (time + Offset) % Second \in 0 .. Second - 1
      /\ ((time + Offset) \div Second) * Second + ((time + Offset) % Second) = time + Offset
    BY <1>1, SecondIsPositive, DivisionHasRemainder
<1>3. /\ ClockGettime(time).sec = (time + Offset) \div Second
      /\ ClockGettime(time).nsec = (time + Offset) % Second
      /\ ClockGettime(time) \in Timespecs
    BY <1>2, SMT DEF ClockGettime, Timespecs
<1>4. Valid(ClockGettime(time))
    BY <1>2, <1>3, SecondIsPositive, SMT DEF Valid
<1> QED BY <1>2, <1>3, <1>4 DEF Ticks

-----------------------------------------------------------------------------
LEMMA InitSleepInv == Init => SleepInv
<1> SUFFICES ASSUME Init PROVE SleepInv
    OBVIOUS
<1>1. /\ nextCycle \in Nat /\ chronoStart \in Nat /\ now \in Nat /\ chronoStart <= now
    BY TimesAssumption, SMT DEF Init
<1>2. /\ linuxStart \in Timespecs /\ Valid(linuxStart)
      /\ Ticks(linuxStart) = now + Offset
    BY <1>1, ClockGettimeIsExact DEF Init
<1>3. Offset \in Nat
    BY TimesAssumption
<1>4. ClocksInOrder
    BY <1>1, <1>2, <1>3, SMT DEF ClocksInOrder
<1>5. TypeOK
    BY <1>1, <1>2 DEF Init, TypeOK
<1> QED BY <1>1, <1>4, <1>5
        DEF Init, SleepInv, TargetIsScheduled, WokenInTime

LEMMA StepKeepsSleepInv == SleepInv /\ [Next]_vars => SleepInv'
<1> SUFFICES ASSUME SleepInv, [Next]_vars PROVE SleepInv'
    OBVIOUS
<1> USE DEF SleepInv
<1>1. /\ now \in Int /\ nextCycle \in Int /\ chronoStart \in Int /\ Offset \in Nat
      /\ Ticks(linuxStart) \in Int
  <2>1. \A m \in Int, n \in Int : m * Second + n \in Int
      BY SecondIsPositive, SMT
  <2> QED BY <2>1, TimesAssumption DEF TypeOK, Timespecs, Ticks
<1>2. CASE Tick
  <2>1. now' \in Int /\ (nextCycle <= now => nextCycle <= now')
      BY <1>1, <1>2, SMT DEF Tick
  <2> QED BY <1>2, <2>1 DEF Tick, TypeOK, ClocksInOrder, TargetIsScheduled, WokenInTime
<1>3. CASE ComputeTarget
  <2>1. nextCycle - chronoStart \in Int /\ linuxStart \in Timespecs /\ Valid(linuxStart)
      BY <1>1, SMT DEF TypeOK, ClocksInOrder
  <2>2. /\ target' \in Timespecs
        /\ Ticks(target') = Ticks(linuxStart) + (nextCycle - chronoStart)
      BY <1>3, <2>1, AddDurationAdds DEF ComputeTarget
  <2>3. Ticks(target') = Ticks(linuxStart) + nextCycle - chronoStart
      BY <1>1, <2>2, SMT
  <2> QED BY <1>3, <2>2, <2>3 DEF ComputeTarget, TypeOK, ClocksInOrder, TargetIsScheduled,
          WokenInTime
<1>4. CASE ClockNanosleep
    BY <1>4 DEF ClockNanosleep, TypeOK, ClocksInOrder, TargetIsScheduled, WokenInTime
<1>5. CASE SleepDone
  <2>1. nextCycle <= now
      BY <1>1, <1>5, SMT DEF SleepDone, TargetIsScheduled, ClocksInOrder
  <2> QED BY <1>5, <2>1 DEF SleepDone, TypeOK, ClocksInOrder, TargetIsScheduled, WokenInTime
<1>6. CASE SleepInterrupted
    BY <1>6 DEF SleepInterrupted, TypeOK, ClocksInOrder, TargetIsScheduled, WokenInTime
<1>7. CASE AdvanceSchedule
  <2>1. nextCycle' \in Int
      BY <1>1, <1>7, SecondIsPositive, SMT DEF AdvanceSchedule
  <2> QED BY <1>7, <2>1 DEF AdvanceSchedule, TypeOK, ClocksInOrder, TargetIsScheduled, WokenInTime
<1>8. CASE UNCHANGED vars
    BY <1>8 DEF vars, TypeOK, ClocksInOrder, TargetIsScheduled, WokenInTime
<1> QED BY <1>2, <1>3, <1>4, <1>5, <1>6, <1>7, <1>8 DEF Next

(* SleepInv holds wherever the control thread is preempted or interrupted in       *)
(* waitForNextCycle().                                                             *)
THEOREM SleepInvariant == Spec => []SleepInv
BY InitSleepInv, StepKeepsSleepInv, PTL DEF Spec

(* The absolute time handed to clock_nanosleep() is the scheduled start, carried   *)
(* over to the other clock without losing a tick.                                  *)
THEOREM TargetScheduled == Spec => []TargetIsScheduled
<1>1. SleepInv => TargetIsScheduled
    BY DEF SleepInv
<1> QED BY <1>1, SleepInvariant, PTL

LEMMA StepKeepsRejectionInv ==
    ASSUME SleepInv, RejectionInv, [Next]_vars
    PROVE  RejectionInv'
<1> USE DEF RejectionInv, ThrowsOnlyBeforeStart
<1>1. CASE Tick
    BY <1>1 DEF Tick, Valid
<1>2. CASE ComputeTarget
  <2>1. nextCycle \in Int /\ chronoStart \in Int /\ linuxStart \in Timespecs /\ Valid(linuxStart)
      BY DEF SleepInv, TypeOK, ClocksInOrder
  <2>2. nextCycle - chronoStart \in Int /\ (chronoStart <= nextCycle => 0 <= nextCycle - chronoStart)
      BY <2>1, SMT
  <2>3. chronoStart <= nextCycle => Valid(target')
      BY <1>2, <2>1, <2>2, AddDurationAdds DEF ComputeTarget
  <2> QED BY <1>2, <2>3 DEF ComputeTarget, Valid
<1>3. CASE ClockNanosleep
  <2>1. nextCycle \in Int /\ chronoStart \in Int
      BY DEF SleepInv, TypeOK
  <2>2. ~Valid(target) => nextCycle < chronoStart
      BY <1>3, <2>1, SMT DEF ClockNanosleep
  <2> QED BY <1>3, <2>2 DEF ClockNanosleep, Valid
<1>4. CASE SleepDone \/ SleepInterrupted
    BY <1>4 DEF SleepDone, SleepInterrupted, Valid
<1>5. CASE AdvanceSchedule
    BY <1>5 DEF AdvanceSchedule
<1>6. CASE UNCHANGED vars
    BY <1>6 DEF vars, Valid
<1> QED BY <1>1, <1>2, <1>3, <1>4, <1>5, <1>6 DEF Next

(* For every gap between the starting points: the process ends in std::terminate() *)
(* only with the schedule still behind chrono_start_time_.                          *)
THEOREM OnlyEarlyScheduleThrows == Spec => []ThrowsOnlyBeforeStart
<1>1. Init => RejectionInv
    BY DEF Init, RejectionInv, ThrowsOnlyBeforeStart
<1>2. SleepInv /\ RejectionInv /\ [Next]_vars => RejectionInv'
    BY StepKeepsRejectionInv
<1>3. RejectionInv => ThrowsOnlyBeforeStart
    BY DEF RejectionInv
<1> QED BY <1>1, <1>2, <1>3, SleepInvariant, PTL DEF Spec

(* If the starting points are read within a period of each other, every return of  *)
(* waitForNextCycle() leaves the schedule at chrono_start_time_ or later: only the  *)
(* first wait of a run can throw.                                                   *)
THEOREM OnlyFirstWaitThrows ==
    (\A gap \in BaseGaps : gap <= Period) /\ Spec => ReturnPassesStart
<1> DEFINE Near == \A gap \in BaseGaps : gap <= Period
<1>1. Near /\ Init => StartsWithinPeriod
  <2> SUFFICES ASSUME Near, Init PROVE StartsWithinPeriod
      OBVIOUS
  <2>1. PICK gap \in BaseGaps : chronoStart = nextCycle + gap
      BY DEF Init
  <2>2. gap \in Nat /\ nextCycle \in Nat /\ gap <= Period
      BY <2>1, TimesAssumption DEF Init
  <2> QED BY <2>1, <2>2, SecondIsPositive, SMT DEF StartsWithinPeriod
<1>2. SleepInv /\ StartsWithinPeriod /\ [Next]_vars =>
          StartsWithinPeriod' /\ (nextCycle' # nextCycle => chronoStart <= nextCycle')
  <2> SUFFICES ASSUME SleepInv, StartsWithinPeriod, [Next]_vars
               PROVE  /\ StartsWithinPeriod'
                      /\ nextCycle' # nextCycle => chronoStart <= nextCycle'
      OBVIOUS
  <2>1. CASE AdvanceSchedule
    <3>1. /\ nextCycle \in Int /\ chronoStart \in Int
          /\ nextCycle' = nextCycle + Period /\ chronoStart' = chronoStart
        BY <2>1 DEF AdvanceSchedule, SleepInv, TypeOK
    <3> QED BY <3>1, SecondIsPositive, SMT DEF StartsWithinPeriod
  <2>2. CASE ~AdvanceSchedule
    <3>1. nextCycle' = nextCycle /\ chronoStart' = chronoStart
        BY <2>2 DEF Next, vars, Tick, ComputeTarget, ClockNanosleep, SleepDone, SleepInterrupted
    <3> QED BY <3>1 DEF StartsWithinPeriod
  <2> QED BY <2>1, <2>2
<1>3. SleepInv /\ StartsWithinPeriod /\ [Next]_vars =>
          [nextCycle' # nextCycle => chronoStart <= nextCycle']_vars
    BY <1>2
<1> HIDE DEF Near
<1>5. Near /\ Spec => ReturnPassesStart
    BY <1>1, <1>2, <1>3, SleepInvariant, PTL DEF Spec, ReturnPassesStart
<1> QED BY <1>5 DEF Near

(* waitForNextCycle() returns at or after the scheduled start and moves the        *)
(* schedule by one period, whatever signals arrive.                                *)
THEOREM LinuxImplementsSchedule == Spec => ImplementsSchedule
<1>1. Init => Contract!Init
  <2> SUFFICES ASSUME Init PROVE Contract!Init
      OBVIOUS
  <2>1. now \in Int /\ nextCycle \in Int
      BY InitSleepInv DEF SleepInv, TypeOK
  <2>2. (phase # "work") = FALSE
      BY DEF Init
  <2> QED BY <2>1, <2>2 DEF Contract!Init
<1>2. SleepInv /\ [Next]_vars => [Contract!Next]_Contract!vars
  <2> SUFFICES ASSUME SleepInv, [Next]_vars PROVE [Contract!Next]_Contract!vars
      OBVIOUS
  <2>1. CASE Tick
    <3>1. now' \in Int /\ now' > now
        BY <2>1, SMT DEF Tick, SleepInv, TypeOK
    <3> QED BY <2>1, <3>1 DEF Tick, Contract!Next, Contract!TimePasses
  <2>2. CASE ComputeTarget
      BY <2>2 DEF ComputeTarget, Contract!Next, Contract!Call
  <2>3. CASE AdvanceSchedule
    <3>1. now >= nextCycle
        BY <2>3, SMT DEF AdvanceSchedule, SleepInv, TypeOK, WokenInTime
    <3> QED BY <2>3, <3>1 DEF AdvanceSchedule, Contract!Next, Contract!Return
  <2>4. CASE ClockNanosleep \/ SleepDone \/ SleepInterrupted \/ UNCHANGED vars
    <3>1. (phase' # "work") = (phase # "work") /\ now' = now /\ nextCycle' = nextCycle
        BY <2>4 DEF ClockNanosleep, SleepDone, SleepInterrupted, vars
    <3> QED BY <3>1 DEF Contract!vars
  <2> QED BY <2>1, <2>2, <2>3, <2>4 DEF Next
<1> QED BY <1>1, <1>2, SleepInvariant, PTL DEF Spec, ImplementsSchedule, Contract!Spec
=============================================================================
