--------------------------- MODULE ControlTiming ---------------------------
(***************************************************************************)
(* The timeline of the control loop: PortableControlScheduler's absolute   *)
(* schedule and the statistics ControlLoop::update() keeps of every cycle. *)
(*                                                                         *)
(* Time is counted in ticks of 0.1 ms, fine enough to tell the histogram's *)
(* classes apart.  The scheduler's wait is late by any of WakeDelays, the  *)
(* work of a cycle takes any of ControlTimes and SnapshotTimes.  All of it *)
(* belongs to the worker thread, so a whole update() is one step.          *)
(* LinuxControlScheduler and WindowsControlScheduler inherit the timeline  *)
(* and only wait differently.                                              *)
(***************************************************************************)
EXTENDS Integers, Sequences, FiniteSets

CONSTANTS
    Period,         \* control_period_ and period_
    WakeDelays,     \* how late the wait may return
    ControlTimes,   \* ticks from cycle_start to control_end
    SnapshotTimes,  \* ticks from snapshot_start to actual_end
    StartupTimes,   \* time from the scheduler's construction to the first run
    IdleGaps,       \* time between two runs
    Masks,          \* the sets of processors a worker may find itself on; -1: unknown
    ControlCpu,     \* control_cpu_, where onControlThreadStart() tries to pin it
    MaxCycles       \* bound on the cycles of a behaviour

ASSUME PeriodAssumption == Period \in Nat \ {0}
ASSUME DelaysAssumption == (WakeDelays \cup StartupTimes \cup IdleGaps) \subseteq Nat
ASSUME WorkAssumption == ControlTimes \subseteq Nat \ {0} /\ SnapshotTimes \subseteq Nat
ASSUME MasksAssumption == Masks \subseteq SUBSET Int /\ ControlCpu \in Nat
ASSUME MaxCyclesAssumption == MaxCycles \in Nat

VARIABLES
    now,          \* steady_clock
    nextCycle,    \* next_cycle_
    stats,        \* the statistics members of ControlLoop
    mask,         \* where the current run's worker may be scheduled
    freshRun,     \* history: no cycle of the current run has started yet
    origin,       \* history: where the schedule began, had it always been this one
    timeline,     \* history: when every cycle was due, when it started and ended
    pinned        \* history: every worker so far was pinned

vars == <<now, nextCycle, stats, mask, freshRun, origin, timeline, pinned>>

DelayClasses == {"under_100us", "100us_to_1ms", "1ms_to_5ms", "5ms_to_10ms", "over_10ms"}
MissClasses == {"scheduling", "execution", "combined"}

Stats ==
    [measured : Nat, delayed : Nat, consecutive : Nat, maxConsecutive : Nat,
     backlogCycles : Nat, maxBacklog : Nat, misses : Nat, missClass : [MissClasses -> Nat],
     delayClass : [DelayClasses -> Nat], previousCycle : Nat, previousEnd : Nat,
     minPeriod : Nat, maxPeriod : Nat, totalPeriod : Nat, maxExecution : Nat,
     maxControl : Nat, maxSnapshot : Nat, maxGap : Nat, maxSchedulingDelay : Nat,
     minMargin : Int, processorChanges : Nat, previousProcessor : UNION Masks \cup {-1}]

TypeOK ==
    /\ now \in Nat
    /\ nextCycle \in Nat
    /\ stats \in Stats
    /\ mask \in Masks
    /\ freshRun \in BOOLEAN
    /\ origin \in Int
    /\ timeline \in Seq([scheduled : Nat, start : Nat, end : Nat])
    /\ pinned \in BOOLEAN

(* The portable scheduler leaves a new worker where the system puts it, the others   *)
(* pin it; that may fail, and a pinned worker's processor may still be unknown.       *)
IsPinned(m) == m \subseteq {ControlCpu, -1}

OnControlThreadStart(pinnedBefore) ==
    mask' \in Masks /\ pinned' = (pinnedBefore /\ IsPinned(mask'))

Init ==
    /\ now \in StartupTimes
    /\ mask \in Masks
    /\ pinned = IsPinned(mask)
    /\ nextCycle = 0
    /\ stats = [measured |-> 0, delayed |-> 0, consecutive |-> 0, maxConsecutive |-> 0,
                backlogCycles |-> 0, maxBacklog |-> 0, misses |-> 0,
                missClass |-> [m \in MissClasses |-> 0],
                delayClass |-> [d \in DelayClasses |-> 0],
                previousCycle |-> 0, previousEnd |-> 0, minPeriod |-> 0, maxPeriod |-> 0,
                totalPeriod |-> 0, maxExecution |-> 0, maxControl |-> 0, maxSnapshot |-> 0,
                maxGap |-> 0, maxSchedulingDelay |-> 0, minMargin |-> 0,
                processorChanges |-> 0, previousProcessor |-> -1]
    /\ freshRun = TRUE
    /\ origin = 0
    /\ timeline = <<>>

MaxOf(a, b) == IF a < b THEN b ELSE a

-----------------------------------------------------------------------------
(* The scheduler *)

(* When the wait returns: at the scheduled time or, if that is past, at once, plus delay. *)
WakeTime(delay) == MaxOf(now, nextCycle) + delay

HasBacklog(start, scheduled) == start >= scheduled + Period

SchedulingDelay(start, scheduled) == start - scheduled

Backlog(start, scheduled) ==
    IF HasBacklog(start, scheduled) THEN start - scheduled - Period ELSE 0

-----------------------------------------------------------------------------
(* The statistics: s is the record before, the result the record after. *)

(* Mutant: the first known processor counts as a change from an unknown one. *)
UpdateProcessorFromUnknown(s, p) ==
    [s EXCEPT !.processorChanges = IF p # s.previousProcessor THEN @ + 1 ELSE @,
              !.previousProcessor = p]

UpdateProcessor(s, p) ==
    IF p < 0 THEN s
    ELSE [s EXCEPT !.processorChanges =
                       IF s.previousProcessor >= 0 /\ p # s.previousProcessor THEN @ + 1 ELSE @,
                   !.previousProcessor = p]

(* Mutant: the minimum starts at zero, below every period. *)
UpdatePeriodFromZero(s, start) ==
    LET period == start - s.previousCycle IN
    IF s.measured = 0 THEN [s EXCEPT !.previousCycle = start]
    ELSE [s EXCEPT !.minPeriod = IF period < @ THEN period ELSE @,
                   !.maxPeriod = MaxOf(@, period),
                   !.totalPeriod = @ + period,
                   !.previousCycle = start]

UpdatePeriod(s, start) ==
    LET period == start - s.previousCycle IN
    IF s.measured = 0 THEN [s EXCEPT !.previousCycle = start]
    ELSE [s EXCEPT !.minPeriod = IF s.measured = 1 \/ period < @ THEN period ELSE @,
                   !.maxPeriod = MaxOf(@, period),
                   !.totalPeriod = @ + period,
                   !.previousCycle = start]

(* Mutant: a cycle on time does not end the series of delayed ones. *)
UpdateDelayNoReset(s, start, scheduled) ==
    IF HasBacklog(start, scheduled)
    THEN [s EXCEPT !.delayed = @ + 1,
                   !.consecutive = @ + 1,
                   !.maxConsecutive = MaxOf(@, s.consecutive + 1),
                   !.maxBacklog = MaxOf(@, Backlog(start, scheduled)),
                   !.backlogCycles = IF Backlog(start, scheduled) >= Period THEN @ + 1 ELSE @]
    ELSE s

UpdateDelay(s, start, scheduled) ==
    LET backlog == Backlog(start, scheduled) IN
    IF HasBacklog(start, scheduled)
    THEN [s EXCEPT !.delayed = @ + 1,
                   !.consecutive = @ + 1,
                   !.maxConsecutive = MaxOf(@, s.consecutive + 1),
                   !.maxBacklog = MaxOf(@, backlog),
                   !.backlogCycles = IF backlog >= Period THEN @ + 1 ELSE @]
    ELSE [s EXCEPT !.consecutive = 0]

UpdateControl(s, time) == [s EXCEPT !.maxControl = MaxOf(@, time)]

UpdateSnapshot(s, time) == [s EXCEPT !.maxSnapshot = MaxOf(@, time)]

UpdateInterCycle(s, start, end) ==
    [s EXCEPT !.maxGap = IF s.measured > 0 THEN MaxOf(@, start - s.previousEnd) ELSE @,
              !.previousEnd = end]

DelayClass(delay) ==
    CASE delay < 1 -> "under_100us"
      [] 1 <= delay /\ delay < 10 -> "100us_to_1ms"
      [] 10 <= delay /\ delay < 50 -> "1ms_to_5ms"
      [] 50 <= delay /\ delay < 100 -> "5ms_to_10ms"
      [] 100 <= delay -> "over_10ms"

UpdateScheduling(s, delay) ==
    [s EXCEPT !.delayClass[DelayClass(delay)] = @ + 1,
              !.maxSchedulingDelay = MaxOf(@, delay)]

(* Mutant: the minimum starts at zero, below every deadline that is met. *)
UpdateDeadlineFromZero(s, deadline, end) ==
    [s EXCEPT !.minMargin = IF deadline - end < @ THEN deadline - end ELSE @]

UpdateDeadline(s, deadline, end) ==
    [s EXCEPT !.minMargin =
         IF s.measured = 0 \/ deadline - end < @ THEN deadline - end ELSE @]

UpdateExecution(s, time) == [s EXCEPT !.maxExecution = MaxOf(@, time)]

MissClass(delay, execution) ==
    IF delay > 0 /\ execution > Period THEN "combined"
    ELSE IF delay > 0 THEN "scheduling"
    ELSE "execution"

UpdateMiss(s, end, deadline, delay, execution) ==
    IF end <= deadline THEN s
    ELSE [s EXCEPT !.misses = @ + 1,
                   !.missClass[MissClass(delay, execution)] = @ + 1]

(* All of update()'s bookkeeping, in the order of the code. *)
UpdateStats(s, scheduled, start, control, snapshot, processor) ==
    LET end == start + control + snapshot
        deadline == scheduled + Period
        delay == SchedulingDelay(start, scheduled)
        s1 == UpdateProcessor(s, processor)
        s2 == UpdatePeriod(s1, start)
        s3 == UpdateDelay(s2, start, scheduled)
        s4 == UpdateControl(s3, control)
        s5 == UpdateSnapshot(s4, snapshot)
        s6 == UpdateInterCycle(s5, start, end)
        s7 == UpdateScheduling(s6, delay)
        s8 == UpdateDeadline(s7, deadline, end)
        s9 == UpdateExecution(s8, end - start)
        s10 == UpdateMiss(s9, end, deadline, delay, end - start)
    IN [s10 EXCEPT !.measured = @ + 1]

-----------------------------------------------------------------------------
(* Mutant: the schedule restarts from the moment the wait returned. *)
AdvanceScheduleFrom(start) == nextCycle' = start + Period

(* waitForNextCycle() and the rest of update(). *)
AdvanceSchedule(start) == nextCycle' = nextCycle + Period

Cycle(delay, control, snapshot, processor) ==
    LET start == WakeTime(delay) IN
    /\ stats.measured < MaxCycles
    /\ AdvanceSchedule(start)
    /\ now' = start + control + snapshot
    /\ stats' = UpdateStats(stats, nextCycle, start, control, snapshot, processor)
    /\ freshRun' = FALSE
    /\ timeline' = Append(timeline, [scheduled |-> nextCycle, start |-> start,
                                     end |-> start + control + snapshot])
    /\ UNCHANGED <<mask, origin, pinned>>

(* The worker returns and is joined; a later run() starts the next one.  The schedule *)
(* and the statistics go on.                                                          *)
NextRun(gap) ==
    /\ ~freshRun
    /\ freshRun' = TRUE
    /\ now' = now + gap
    /\ OnControlThreadStart(pinned)
    /\ UNCHANGED <<nextCycle, stats, origin, timeline>>

(* IControlScheduler::reset(), by the owner between two runs. *)
Reset ==
    /\ freshRun
    /\ nextCycle' = now
    /\ origin' = now - stats.measured * Period
    /\ UNCHANGED <<now, stats, mask, freshRun, timeline, pinned>>

Next ==
    \/ \E delay \in WakeDelays, control \in ControlTimes, snapshot \in SnapshotTimes,
          processor \in mask : Cycle(delay, control, snapshot, processor)
    \/ \E gap \in IdleGaps : NextRun(gap)
    \/ Reset

Spec == Init /\ [][Next]_vars

-----------------------------------------------------------------------------
(* Properties *)

(* The schedule is absolute (README.md:465): between resets the n-th cycle is due n  *)
(* periods after the first, however late its predecessors were.                      *)
NoDrift == nextCycle = origin + stats.measured * Period

(* The cycles so far, and what the timeline says of the k-th. *)
Cycles == 1 .. Len(timeline)
PeriodBefore(k) == timeline[k].start - timeline[k - 1].start
Lateness(k) == timeline[k].start - timeline[k].scheduled
Margin(k) == timeline[k].scheduled + Period - timeline[k].end

LateBy(ticks) == {k \in Cycles : Lateness(k) >= ticks}
Missed == {k \in Cycles : Margin(k) < 0}

IsMinimum(x, S) == x \in S /\ \A y \in S : x <= y
IsMaximum(x, S) == x \in S /\ \A y \in S : y <= x

(* The periods reported are those of the timeline, from the second cycle on: the     *)
(* sum printTimingStatistics() divides by their number telescopes to the time from   *)
(* the first to the last start, over runs and resets, and both extremes were reached. *)
PeriodsTelescope ==
    Len(timeline) > 1 =>
        LET periods == {PeriodBefore(k) : k \in Cycles \ {1}} IN
        /\ stats.totalPeriod = timeline[Len(timeline)].start - timeline[1].start
        /\ IsMinimum(stats.minPeriod, periods)
        /\ IsMaximum(stats.maxPeriod, periods)

(* Every cycle that ended after its deadline is counted, in exactly one class, and    *)
(* the classes say why: an execution miss needs a cycle longer than the period, a     *)
(* scheduling miss one that started late.  A cycle that starts a whole period late    *)
(* has missed its deadline, and the minimum margin is that of some cycle, the first   *)
(* included.                                                                          *)
MissesAreExplained ==
    /\ stats.misses = Cardinality(Missed)
    /\ stats.misses = stats.missClass["scheduling"] + stats.missClass["execution"]
                      + stats.missClass["combined"]
    /\ stats.missClass["execution"] + stats.missClass["combined"] > 0 =>
         stats.maxExecution > Period
    /\ stats.missClass["scheduling"] + stats.missClass["combined"] > 0 =>
         stats.maxSchedulingDelay > 0
    /\ LateBy(Period) \subseteq Missed
    /\ timeline # <<>> => IsMinimum(stats.minMargin, {Margin(k) : k \in Cycles})

(* A worker that is pinned from its start on is never reported to change processors  *)
(* (README.md:425), over any number of runs and cycles whose processor is unknown.   *)
PinnedNeverChanges == pinned => stats.processorChanges = 0

(* All cycles from first to last were delayed, by a whole period: that is what       *)
(* hasBacklog() asks, not what README.md:476 says (see DelayedMeansLate).             *)
IsSeries(first, last) == first .. last \subseteq LateBy(Period)

(* The views of lateness agree with the timeline: the histogram covers every cycle    *)
(* and separates those that were 1 ms late or more, the delayed cycles are those a    *)
(* whole period late, the running series is the one that ends with the last cycle and *)
(* starts after one on time, and the longest series was there and none was longer,    *)
(* over any runs and resets.                                                          *)
DelaysAreCounted ==
    LET n == Len(timeline)
        atLeast1ms == stats.delayClass["1ms_to_5ms"] + stats.delayClass["5ms_to_10ms"]
                      + stats.delayClass["over_10ms"]
    IN /\ atLeast1ms + stats.delayClass["under_100us"] + stats.delayClass["100us_to_1ms"] = n
       /\ atLeast1ms = Cardinality(LateBy(10))
       /\ stats.delayed = Cardinality(LateBy(Period))
       /\ stats.delayed > 0 => stats.maxBacklog = stats.maxSchedulingDelay - Period
       /\ stats.consecutive <= n /\ IsSeries(n - stats.consecutive + 1, n)
       /\ stats.consecutive < n => n - stats.consecutive \notin LateBy(Period)
       /\ \E first \in 1 .. n + 1 :
            LET last == first + stats.maxConsecutive - 1
            IN last <= n /\ IsSeries(first, last)
       /\ \A first, last \in Cycles : IsSeries(first, last) =>
            last - first + 1 <= stats.maxConsecutive
       /\ stats.backlogCycles <= stats.delayed

(* README.md:476 "Delayed cycles ... cycles that begin later than their scheduled     *)
(* start": the cycles counted as delayed are those that start late at all.            *)
DelayedMeansLate == stats.delayed = Cardinality(LateBy(1))
=============================================================================
