------------------------ MODULE ControlTiming_proofs ------------------------
(***************************************************************************)
(* Theorems about ControlTiming for any period, any delays and any work.   *)
(*                                                                         *)
(* The statistics are one record, of which each of update()'s ten steps    *)
(* changes a few fields: a lemma per step says which and to what, and      *)
(* StatsAfterCycle what a whole cycle does to every field.  TimelineStep   *)
(* says the same of the timeline the statistics are compared with.  From   *)
(* there on the proofs are arithmetic, and counting.                       *)
(***************************************************************************)
EXTENDS ControlTiming, TLAPS, FiniteSetTheorems

Fields == {"measured", "delayed", "consecutive", "maxConsecutive", "backlogCycles", "maxBacklog",
           "misses", "missClass", "delayClass", "previousCycle", "previousEnd", "minPeriod",
           "maxPeriod", "totalPeriod", "maxExecution", "maxControl", "maxSnapshot", "maxGap",
           "maxSchedulingDelay", "minMargin", "processorChanges", "previousProcessor"}

(* Only the fields in F may differ. *)
Differ(s, t, F) == DOMAIN t = Fields /\ \A f \in Fields \ F : t[f] = s[f]

LEMMA ProcessorFields ==
    ASSUME NEW s, DOMAIN s = Fields, NEW p
    PROVE  /\ Differ(s, UpdateProcessor(s, p), {"processorChanges", "previousProcessor"})
           /\ p < 0 => UpdateProcessor(s, p) = s
           /\ ~(p < 0) =>
                /\ UpdateProcessor(s, p).processorChanges
                     = IF s.previousProcessor >= 0 /\ p # s.previousProcessor
                       THEN s.processorChanges + 1 ELSE s.processorChanges
                /\ UpdateProcessor(s, p).previousProcessor = p
<1>1. CASE p < 0
    BY <1>1 DEF UpdateProcessor, Differ
<1>2. CASE ~(p < 0)
  <2> DEFINE n == IF s.previousProcessor >= 0 /\ p # s.previousProcessor
                  THEN s.processorChanges + 1 ELSE s.processorChanges
  <2>1. UpdateProcessor(s, p) = [s EXCEPT !.processorChanges = n, !.previousProcessor = p]
      BY <1>2 DEF UpdateProcessor
  <2>2. {"processorChanges", "previousProcessor"} \subseteq DOMAIN s
      BY DEF Fields
  <2> HIDE DEF n
  <2>3. Differ(s, UpdateProcessor(s, p), {"processorChanges", "previousProcessor"})
      BY <2>1, <2>2 DEF Differ
  <2>4. UpdateProcessor(s, p).processorChanges = n /\ UpdateProcessor(s, p).previousProcessor = p
      BY <2>1, <2>2
  <2> QED BY <1>2, <2>3, <2>4 DEF n
<1> QED BY <1>1, <1>2

LEMMA DelayFields ==
    ASSUME NEW s, DOMAIN s = Fields, NEW start, NEW scheduled
    PROVE  LET t == UpdateDelay(s, start, scheduled)
               backlog == Backlog(start, scheduled)
           IN /\ Differ(s, t, {"delayed", "consecutive", "maxConsecutive", "maxBacklog", "backlogCycles"})
              /\ HasBacklog(start, scheduled) =>
                   /\ t.delayed = s.delayed + 1
                   /\ t.consecutive = s.consecutive + 1
                   /\ t.maxConsecutive = MaxOf(s.maxConsecutive, s.consecutive + 1)
                   /\ t.maxBacklog = MaxOf(s.maxBacklog, backlog)
                   /\ t.backlogCycles = IF backlog >= Period THEN s.backlogCycles + 1 ELSE s.backlogCycles
              /\ ~HasBacklog(start, scheduled) =>
                   /\ t.consecutive = 0
                   /\ t.delayed = s.delayed /\ t.maxConsecutive = s.maxConsecutive
                   /\ t.maxBacklog = s.maxBacklog /\ t.backlogCycles = s.backlogCycles
<1> DEFINE t == UpdateDelay(s, start, scheduled)
           F == {"delayed", "consecutive", "maxConsecutive", "maxBacklog", "backlogCycles"}
           a == s.delayed + 1
           b == s.consecutive + 1
           c == MaxOf(s.maxConsecutive, s.consecutive + 1)
           d == MaxOf(s.maxBacklog, Backlog(start, scheduled))
           e == IF Backlog(start, scheduled) >= Period THEN s.backlogCycles + 1 ELSE s.backlogCycles
<1>0. F \subseteq DOMAIN s
    BY DEF Fields
<1>1. CASE HasBacklog(start, scheduled)
  <2>1. t = [s EXCEPT !.delayed = a, !.consecutive = b, !.maxConsecutive = c, !.maxBacklog = d,
                      !.backlogCycles = e]
      BY <1>1 DEF UpdateDelay
  <2> HIDE DEF t, a, b, c, d, e
  <2>2. t.delayed = a /\ t.consecutive = b /\ t.maxConsecutive = c /\ t.maxBacklog = d
        /\ t.backlogCycles = e /\ DOMAIN t = DOMAIN s
      BY <1>0, <2>1
  <2>3. ASSUME NEW f \in Fields \ F PROVE t[f] = s[f]
      BY <1>0, <2>1, <2>3
  <2> QED BY <1>1, <2>2, <2>3 DEF Differ, t, a, b, c, d, e
<1>2. CASE ~HasBacklog(start, scheduled)
  <2>1. t = [s EXCEPT !.consecutive = 0]
      BY <1>2 DEF UpdateDelay
  <2> HIDE DEF t
  <2> QED BY <1>0, <1>2, <2>1 DEF Differ, t
<1> QED BY <1>1, <1>2

LEMMA PeriodFields ==
    ASSUME NEW s, DOMAIN s = Fields, NEW start
    PROVE  LET t == UpdatePeriod(s, start)
               period == start - s.previousCycle
           IN /\ Differ(s, t, {"minPeriod", "maxPeriod", "totalPeriod", "previousCycle"})
              /\ t.previousCycle = start
              /\ s.measured = 0 =>
                   /\ t.minPeriod = s.minPeriod /\ t.maxPeriod = s.maxPeriod
                   /\ t.totalPeriod = s.totalPeriod
              /\ s.measured # 0 =>
                   /\ t.minPeriod = IF s.measured = 1 \/ period < s.minPeriod THEN period
                                    ELSE s.minPeriod
                   /\ t.maxPeriod = MaxOf(s.maxPeriod, period)
                   /\ t.totalPeriod = s.totalPeriod + period
<1> DEFINE t == UpdatePeriod(s, start)
           F == {"minPeriod", "maxPeriod", "totalPeriod", "previousCycle"}
           period == start - s.previousCycle
           a == IF s.measured = 1 \/ period < s.minPeriod THEN period ELSE s.minPeriod
           b == MaxOf(s.maxPeriod, period)
           c == s.totalPeriod + period
<1>0. F \subseteq DOMAIN s
    BY DEF Fields
<1>1. CASE s.measured = 0
  <2>1. t = [s EXCEPT !.previousCycle = start]
      BY <1>1 DEF UpdatePeriod
  <2> HIDE DEF t
  <2> QED BY <1>0, <1>1, <2>1 DEF Differ, t
<1>2. CASE s.measured # 0
  <2>1. t = [s EXCEPT !.minPeriod = a, !.maxPeriod = b, !.totalPeriod = c, !.previousCycle = start]
      BY <1>2 DEF UpdatePeriod
  <2> HIDE DEF t, a, b, c
  <2>2. t.minPeriod = a /\ t.maxPeriod = b /\ t.totalPeriod = c /\ t.previousCycle = start
        /\ DOMAIN t = DOMAIN s
      BY <1>0, <2>1
  <2>3. ASSUME NEW f \in Fields \ F PROVE t[f] = s[f]
      BY <1>0, <2>1, <2>3
  <2> QED BY <1>2, <2>2, <2>3 DEF Differ, t, a, b, c
<1> QED BY <1>1, <1>2

(* The steps that record a maximum, a minimum or an end. *)
LEMMA MaximumFields ==
    ASSUME NEW s, DOMAIN s = Fields, NEW time, NEW start, NEW end, NEW deadline
    PROVE  /\ Differ(s, UpdateControl(s, time), {"maxControl"})
           /\ Differ(s, UpdateSnapshot(s, time), {"maxSnapshot"})
           /\ Differ(s, UpdateInterCycle(s, start, end), {"maxGap", "previousEnd"})
           /\ UpdateInterCycle(s, start, end).previousEnd = end
           /\ Differ(s, UpdateDeadline(s, deadline, end), {"minMargin"})
           /\ UpdateDeadline(s, deadline, end).minMargin
                = IF s.measured = 0 \/ deadline - end < s.minMargin THEN deadline - end
                  ELSE s.minMargin
           /\ Differ(s, UpdateExecution(s, time), {"maxExecution"})
           /\ UpdateExecution(s, time).maxExecution = MaxOf(s.maxExecution, time)
<1>0. {"maxControl", "maxSnapshot", "maxGap", "previousEnd", "minMargin", "maxExecution"} \subseteq DOMAIN s
    BY DEF Fields
<1>1. ASSUME NEW v
      PROVE  /\ Differ(s, [s EXCEPT !.maxControl = v], {"maxControl"})
             /\ Differ(s, [s EXCEPT !.maxSnapshot = v], {"maxSnapshot"})
             /\ Differ(s, [s EXCEPT !.minMargin = v], {"minMargin"})
             /\ [s EXCEPT !.minMargin = v].minMargin = v
             /\ Differ(s, [s EXCEPT !.maxExecution = v], {"maxExecution"})
             /\ [s EXCEPT !.maxExecution = v].maxExecution = v
             /\ Differ(s, [s EXCEPT !.maxGap = v, !.previousEnd = end], {"maxGap", "previousEnd"})
             /\ [s EXCEPT !.maxGap = v, !.previousEnd = end].previousEnd = end
    BY <1>0 DEF Differ
<1> QED BY <1>1 DEF UpdateControl, UpdateSnapshot, UpdateInterCycle, UpdateDeadline, UpdateExecution

LEMMA SchedulingFields ==
    ASSUME NEW s, DOMAIN s = Fields, NEW delay
    PROVE  LET t == UpdateScheduling(s, delay)
           IN /\ Differ(s, t, {"delayClass", "maxSchedulingDelay"})
              /\ t.delayClass = [s.delayClass EXCEPT ![DelayClass(delay)] = @ + 1]
              /\ t.maxSchedulingDelay = MaxOf(s.maxSchedulingDelay, delay)
<1> DEFINE t == UpdateScheduling(s, delay)
           a == [s.delayClass EXCEPT ![DelayClass(delay)] = @ + 1]
           b == MaxOf(s.maxSchedulingDelay, delay)
<1>0. {"delayClass", "maxSchedulingDelay"} \subseteq DOMAIN s
    BY DEF Fields
<1>1. t = [s EXCEPT !.delayClass = a, !.maxSchedulingDelay = b]
    BY <1>0 DEF UpdateScheduling
<1> HIDE DEF t, a, b
<1>2. Differ(s, t, {"delayClass", "maxSchedulingDelay"}) /\ t.delayClass = a /\ t.maxSchedulingDelay = b
    BY <1>0, <1>1 DEF Differ
<1> QED BY <1>2 DEF t, a, b

LEMMA MissFields ==
    ASSUME NEW s, DOMAIN s = Fields, NEW end, NEW deadline, NEW delay, NEW execution
    PROVE  LET t == UpdateMiss(s, end, deadline, delay, execution)
           IN /\ Differ(s, t, {"misses", "missClass"})
              /\ end <= deadline => t.misses = s.misses /\ t.missClass = s.missClass
              /\ ~(end <= deadline) =>
                   /\ t.misses = s.misses + 1
                   /\ t.missClass = [s.missClass EXCEPT ![MissClass(delay, execution)] = @ + 1]
<1> DEFINE t == UpdateMiss(s, end, deadline, delay, execution)
           a == s.misses + 1
           b == [s.missClass EXCEPT ![MissClass(delay, execution)] = @ + 1]
<1>0. {"misses", "missClass"} \subseteq DOMAIN s
    BY DEF Fields
<1>1. CASE end <= deadline
    BY <1>1 DEF UpdateMiss, Differ
<1>2. CASE ~(end <= deadline)
  <2>1. t = [s EXCEPT !.misses = a, !.missClass = b]
      BY <1>0, <1>2 DEF UpdateMiss
  <2> HIDE DEF t, a, b
  <2>2. Differ(s, t, {"misses", "missClass"}) /\ t.misses = a /\ t.missClass = b
      BY <1>0, <2>1 DEF Differ
  <2> QED BY <1>2, <2>2 DEF t, a, b
<1> QED BY <1>1, <1>2

(* What a whole cycle makes of the record: s before, t after. *)
CycleStats(s, t, scheduled, start, control, snapshot, p) ==
    LET end == start + control + snapshot
        deadline == scheduled + Period
        delay == SchedulingDelay(start, scheduled)
    IN /\ DOMAIN t = Fields
       /\ t.measured = s.measured + 1
       /\ p < 0 => t.processorChanges = s.processorChanges
                   /\ t.previousProcessor = s.previousProcessor
       /\ ~(p < 0) =>
            /\ t.processorChanges
                 = IF s.previousProcessor >= 0 /\ p # s.previousProcessor
                   THEN s.processorChanges + 1 ELSE s.processorChanges
            /\ t.previousProcessor = p
       /\ t.previousCycle = start
       /\ s.measured = 0 =>
            /\ t.minPeriod = s.minPeriod /\ t.maxPeriod = s.maxPeriod
            /\ t.totalPeriod = s.totalPeriod
       /\ s.measured # 0 =>
            /\ t.minPeriod = IF s.measured = 1 \/ start - s.previousCycle < s.minPeriod
                             THEN start - s.previousCycle ELSE s.minPeriod
            /\ t.maxPeriod = MaxOf(s.maxPeriod, start - s.previousCycle)
            /\ t.totalPeriod = s.totalPeriod + (start - s.previousCycle)
       /\ HasBacklog(start, scheduled) =>
            /\ t.delayed = s.delayed + 1
            /\ t.consecutive = s.consecutive + 1
            /\ t.maxConsecutive = MaxOf(s.maxConsecutive, s.consecutive + 1)
            /\ t.maxBacklog = MaxOf(s.maxBacklog, Backlog(start, scheduled))
            /\ t.backlogCycles = IF Backlog(start, scheduled) >= Period
                                 THEN s.backlogCycles + 1 ELSE s.backlogCycles
       /\ ~HasBacklog(start, scheduled) =>
            /\ t.consecutive = 0
            /\ t.delayed = s.delayed /\ t.maxConsecutive = s.maxConsecutive
            /\ t.maxBacklog = s.maxBacklog /\ t.backlogCycles = s.backlogCycles
       /\ t.previousEnd = end
       /\ t.delayClass = [s.delayClass EXCEPT ![DelayClass(delay)] = @ + 1]
       /\ t.maxSchedulingDelay = MaxOf(s.maxSchedulingDelay, delay)
       /\ t.minMargin = IF s.measured = 0 \/ deadline - end < s.minMargin
                        THEN deadline - end ELSE s.minMargin
       /\ t.maxExecution = MaxOf(s.maxExecution, end - start)
       /\ end <= deadline => t.misses = s.misses /\ t.missClass = s.missClass
       /\ ~(end <= deadline) =>
            /\ t.misses = s.misses + 1
            /\ t.missClass = [s.missClass EXCEPT ![MissClass(delay, end - start)] = @ + 1]

LEMMA StatsAfterCycle ==
    ASSUME NEW s, DOMAIN s = Fields,
           NEW scheduled, NEW start, NEW control, NEW snapshot, NEW p
    PROVE  CycleStats(s, UpdateStats(s, scheduled, start, control, snapshot, p),
                      scheduled, start, control, snapshot, p)
<1> DEFINE end == start + control + snapshot
           deadline == scheduled + Period
           delay == SchedulingDelay(start, scheduled)
           execution == end - start
           s1 == UpdateProcessor(s, p)
           s2 == UpdatePeriod(s1, start)
           s3 == UpdateDelay(s2, start, scheduled)
           s4 == UpdateControl(s3, control)
           s5 == UpdateSnapshot(s4, snapshot)
           s6 == UpdateInterCycle(s5, start, end)
           s7 == UpdateScheduling(s6, delay)
           s8 == UpdateDeadline(s7, deadline, end)
           s9 == UpdateExecution(s8, execution)
           s10 == UpdateMiss(s9, end, deadline, delay, execution)
           t == UpdateStats(s, scheduled, start, control, snapshot, p)
<1>11. t = [s10 EXCEPT !.measured = @ + 1]
    BY DEF UpdateStats
<1> HIDE DEF s1, s2, s3, s4, s5, s6, s7, s8, s9, s10, t, end, deadline, delay, execution
<1>1. Differ(s, s1, {"processorChanges", "previousProcessor"})
    BY ProcessorFields DEF s1
<1>2. Differ(s1, s2, {"minPeriod", "maxPeriod", "totalPeriod", "previousCycle"})
    BY <1>1, PeriodFields DEF s2, Differ
<1>3. Differ(s2, s3, {"delayed", "consecutive", "maxConsecutive", "maxBacklog", "backlogCycles"})
    BY <1>2, DelayFields DEF s3, Differ
<1>4. Differ(s3, s4, {"maxControl"})
    BY <1>3, MaximumFields DEF s4, Differ
<1>5. Differ(s4, s5, {"maxSnapshot"})
    BY <1>4, MaximumFields DEF s5, Differ
<1>6. Differ(s5, s6, {"maxGap", "previousEnd"}) /\ s6.previousEnd = end
    BY <1>5, MaximumFields DEF s6, Differ
<1>7. Differ(s6, s7, {"delayClass", "maxSchedulingDelay"})
    BY <1>6, SchedulingFields DEF s7, Differ
<1>8. Differ(s7, s8, {"minMargin"})
  <2>1. DOMAIN s7 = Fields
      BY <1>7 DEF Differ
  <2> QED BY <2>1, MaximumFields DEF s8
<1>9. Differ(s8, s9, {"maxExecution"})
  <2>1. DOMAIN s8 = Fields
      BY <1>8 DEF Differ
  <2> QED BY <2>1, MaximumFields DEF s9
<1>10. Differ(s9, s10, {"misses", "missClass"})
  <2>1. DOMAIN s9 = Fields
      BY <1>9 DEF Differ
  <2> QED BY <2>1, MissFields DEF s10
<1>12. Differ(s10, t, {"measured"}) /\ t.measured = s10.measured + 1
  <2>1. DOMAIN s10 = Fields /\ "measured" \in DOMAIN s10
      BY <1>10 DEF Differ, Fields
  <2> QED BY <1>11, <2>1 DEF Differ
<1>13. /\ s1.measured = s.measured /\ s2.measured = s.measured /\ s5.measured = s.measured
       /\ s7.measured = s.measured /\ s10.measured = s.measured
    BY <1>1, <1>2, <1>3, <1>4, <1>5, <1>6, <1>7, <1>8, <1>9, <1>10 DEF Differ, Fields
<1>14. /\ t.measured = s.measured + 1 /\ DOMAIN t = Fields /\ t.previousEnd = end
    BY <1>6, <1>7, <1>8, <1>9, <1>10, <1>12, <1>13 DEF Differ, Fields
<1>15. /\ t.processorChanges = s1.processorChanges /\ t.previousProcessor = s1.previousProcessor
       /\ s1.previousCycle = s.previousCycle
    BY <1>1, <1>2, <1>3, <1>4, <1>5, <1>6, <1>7, <1>8, <1>9, <1>10, <1>12 DEF Differ, Fields
<1>16. /\ t.previousCycle = s2.previousCycle /\ t.minPeriod = s2.minPeriod
       /\ t.maxPeriod = s2.maxPeriod /\ t.totalPeriod = s2.totalPeriod
       /\ s1.minPeriod = s.minPeriod /\ s1.maxPeriod = s.maxPeriod /\ s1.totalPeriod = s.totalPeriod
    BY <1>1, <1>2, <1>3, <1>4, <1>5, <1>6, <1>7, <1>8, <1>9, <1>10, <1>12 DEF Differ, Fields
<1>17. /\ t.delayed = s3.delayed /\ t.consecutive = s3.consecutive
       /\ t.maxConsecutive = s3.maxConsecutive /\ t.maxBacklog = s3.maxBacklog
       /\ t.backlogCycles = s3.backlogCycles
    BY <1>4, <1>5, <1>6, <1>7, <1>8, <1>9, <1>10, <1>12 DEF Differ, Fields
<1>18. /\ s2.delayed = s.delayed /\ s2.consecutive = s.consecutive
       /\ s2.maxConsecutive = s.maxConsecutive /\ s2.maxBacklog = s.maxBacklog
       /\ s2.backlogCycles = s.backlogCycles
    BY <1>1, <1>2 DEF Differ, Fields
<1>19. /\ t.delayClass = s7.delayClass /\ t.maxSchedulingDelay = s7.maxSchedulingDelay
       /\ t.minMargin = s8.minMargin /\ t.maxExecution = s9.maxExecution
       /\ t.misses = s10.misses /\ t.missClass = s10.missClass
    BY <1>8, <1>9, <1>10, <1>12 DEF Differ, Fields
<1>20. /\ s6.delayClass = s.delayClass /\ s6.maxSchedulingDelay = s.maxSchedulingDelay
       /\ s7.minMargin = s.minMargin /\ s8.maxExecution = s.maxExecution
       /\ s9.misses = s.misses /\ s9.missClass = s.missClass
    BY <1>1, <1>2, <1>3, <1>4, <1>5, <1>6, <1>7, <1>8, <1>9 DEF Differ, Fields
<1>21. /\ p < 0 => t.processorChanges = s.processorChanges
                   /\ t.previousProcessor = s.previousProcessor
       /\ ~(p < 0) =>
            /\ t.processorChanges = IF s.previousProcessor >= 0 /\ p # s.previousProcessor
                                    THEN s.processorChanges + 1 ELSE s.processorChanges
            /\ t.previousProcessor = p
    BY <1>15, ProcessorFields DEF s1
<1>22. /\ t.previousCycle = start
       /\ s.measured = 0 =>
            /\ t.minPeriod = s.minPeriod /\ t.maxPeriod = s.maxPeriod
            /\ t.totalPeriod = s.totalPeriod
       /\ s.measured # 0 =>
            /\ t.minPeriod = IF s.measured = 1 \/ start - s.previousCycle < s.minPeriod
                             THEN start - s.previousCycle ELSE s.minPeriod
            /\ t.maxPeriod = MaxOf(s.maxPeriod, start - s.previousCycle)
            /\ t.totalPeriod = s.totalPeriod + (start - s.previousCycle)
  <2>1. DOMAIN s1 = Fields
      BY <1>1 DEF Differ
  <2> QED BY <1>13, <1>15, <1>16, <2>1, PeriodFields DEF s2
<1>23. /\ HasBacklog(start, scheduled) =>
            /\ t.delayed = s.delayed + 1
            /\ t.consecutive = s.consecutive + 1
            /\ t.maxConsecutive = MaxOf(s.maxConsecutive, s.consecutive + 1)
            /\ t.maxBacklog = MaxOf(s.maxBacklog, Backlog(start, scheduled))
            /\ t.backlogCycles = IF Backlog(start, scheduled) >= Period
                                 THEN s.backlogCycles + 1 ELSE s.backlogCycles
       /\ ~HasBacklog(start, scheduled) =>
            /\ t.consecutive = 0
            /\ t.delayed = s.delayed /\ t.maxConsecutive = s.maxConsecutive
            /\ t.maxBacklog = s.maxBacklog /\ t.backlogCycles = s.backlogCycles
  <2>1. DOMAIN s2 = Fields
      BY <1>2 DEF Differ
  <2> QED BY <1>17, <1>18, <2>1, DelayFields DEF s3
<1>24. /\ t.delayClass = [s.delayClass EXCEPT ![DelayClass(delay)] = @ + 1]
       /\ t.maxSchedulingDelay = MaxOf(s.maxSchedulingDelay, delay)
  <2>1. DOMAIN s6 = Fields
      BY <1>6 DEF Differ
  <2> QED BY <1>19, <1>20, <2>1, SchedulingFields DEF s7
<1>25. /\ t.minMargin = IF s.measured = 0 \/ deadline - end < s.minMargin
                        THEN deadline - end ELSE s.minMargin
       /\ t.maxExecution = MaxOf(s.maxExecution, execution)
  <2>1. DOMAIN s7 = Fields /\ DOMAIN s8 = Fields
      BY <1>7, <1>8 DEF Differ
  <2> QED BY <1>13, <1>19, <1>20, <2>1, MaximumFields DEF s8, s9
<1>26. /\ end <= deadline => t.misses = s.misses /\ t.missClass = s.missClass
       /\ ~(end <= deadline) =>
            /\ t.misses = s.misses + 1
            /\ t.missClass = [s.missClass EXCEPT ![MissClass(delay, execution)] = @ + 1]
  <2>1. DOMAIN s9 = Fields
      BY <1>9 DEF Differ
  <2> QED BY <1>19, <1>20, <2>1, MissFields DEF s10
<1> QED BY <1>14, <1>21, <1>22, <1>23, <1>24, <1>25, <1>26
        DEF CycleStats, t, end, deadline, delay, execution

-----------------------------------------------------------------------------
(* The inductive invariant: its parts, from the types on. *)

Counters == {"measured", "delayed", "consecutive", "maxConsecutive", "backlogCycles", "maxBacklog",
             "misses", "previousCycle", "previousEnd", "minPeriod", "maxPeriod", "totalPeriod",
             "maxExecution", "maxSchedulingDelay"}

Typed ==
    /\ now \in Nat /\ nextCycle \in Nat /\ origin \in Int
    /\ timeline \in Seq([scheduled : Nat, start : Nat, end : Nat])
    /\ Len(timeline) = stats.measured
    /\ mask \in Masks
    /\ DOMAIN stats = Fields
    /\ \A f \in Counters : stats[f] \in Nat
    /\ stats.missClass \in [MissClasses -> Nat]
    /\ stats.delayClass \in [DelayClasses -> Nat]
    /\ stats.minMargin \in Int /\ stats.previousProcessor \in Int
    /\ stats.processorChanges \in Nat

InOrder == stats.previousCycle <= stats.previousEnd /\ stats.previousEnd <= now

(* Without a delayed cycle all delays were shorter than a period. *)
BacklogFollowsDelay ==
    stats.delayed = 0 => stats.maxBacklog = 0 /\ stats.maxSchedulingDelay < Period

(* A pinned worker was only ever seen on its own processor. *)
SeenWherePinned ==
    pinned => IsPinned(mask) /\ stats.previousProcessor \in {ControlCpu, -1}

SumTelescopes ==
    /\ stats.measured <= 1 => stats.totalPeriod = 0 /\ stats.maxPeriod = 0
    /\ stats.measured > 0 =>
         /\ stats.previousCycle = timeline[stats.measured].start
         /\ stats.totalPeriod = stats.previousCycle - timeline[1].start

TimingInv ==
    /\ Typed
    /\ InOrder
    /\ NoDrift
    /\ MissesAreExplained
    /\ BacklogFollowsDelay /\ DelaysAreCounted
    /\ SeenWherePinned /\ PinnedNeverChanges
    /\ SumTelescopes /\ PeriodsTelescope

-----------------------------------------------------------------------------
(* Extremes, counts and series when something is added. *)

LEMMA MinimumStep ==
    ASSUME NEW S \in SUBSET Int, NEW x \in Int, NEW m, S # {} => IsMinimum(m, S)
    PROVE  IsMinimum(IF S = {} \/ x < m THEN x ELSE m, S \cup {x})
<1>1. CASE S = {}
    BY <1>1, SMT DEF IsMinimum
<1>2. CASE S # {}
  <2>1. m \in S /\ m \in Int /\ \A y \in S : y \in Int /\ m <= y
      BY <1>2 DEF IsMinimum
  <2>2. CASE x < m
    <3>1. \A y \in S \cup {x} : x <= y
        BY <2>1, <2>2, SMT
    <3> QED BY <2>2, <3>1 DEF IsMinimum
  <2>3. CASE ~(x < m)
    <3>1. \A y \in S \cup {x} : m <= y
        BY <2>1, <2>3, SMT
    <3> QED BY <1>2, <2>1, <2>3, <3>1 DEF IsMinimum
  <2> QED BY <2>2, <2>3
<1> QED BY <1>1, <1>2

LEMMA MaximumStep ==
    ASSUME NEW S \in SUBSET Int, NEW x \in Nat, NEW m \in Nat,
           S # {} => IsMaximum(m, S), S = {} => m = 0
    PROVE  IsMaximum(MaxOf(m, x), S \cup {x})
<1>1. CASE S = {}
  <2>1. MaxOf(m, x) = x /\ x <= x
      BY <1>1, SMT DEF MaxOf
  <2> QED BY <1>1, <2>1 DEF IsMaximum
<1>2. CASE S # {}
  <2>1. m \in S /\ \A y \in S : y \in Int /\ y <= m
      BY <1>2 DEF IsMaximum
  <2>2. MaxOf(m, x) \in S \cup {x}
      BY <2>1 DEF MaxOf
  <2>3. \A y \in S \cup {x} : y <= MaxOf(m, x)
      BY <2>1, SMT DEF MaxOf
  <2> QED BY <2>2, <2>3 DEF IsMaximum
<1> QED BY <1>1, <1>2

LEMMA CountStep ==
    ASSUME NEW n \in Nat, NEW S \in SUBSET (1 .. n)
    PROVE  Cardinality(S) \in Nat /\ Cardinality(S \cup {n + 1}) = Cardinality(S) + 1
<1>1. IsFiniteSet(1 .. n)
    BY FS_Interval, SMT
<1>2. IsFiniteSet(S)
    BY <1>1, FS_Subset
<1>3. n + 1 \notin S
    BY SMT
<1> QED BY <1>2, <1>3, FS_AddElement, FS_CardinalityType

(* D are the delayed ones of n cycles, c the length of the series that ends now, *)
(* m that of the longest one.                                                    *)
EndsWith(n, D, c) ==
    /\ c <= n /\ (n - c + 1) .. n \subseteq D
    /\ c < n => n - c \notin D

HasSeries(n, D, m) ==
    \E a \in 1 .. n + 1 : a + m - 1 <= n /\ a .. (a + m - 1) \subseteq D

NoneLonger(n, D, m) ==
    \A a, b \in 1 .. n : a .. b \subseteq D => b - a + 1 <= m

SeriesOf(n, D, c, m) == EndsWith(n, D, c) /\ HasSeries(n, D, m) /\ NoneLonger(n, D, m)

LEMMA SeriesEnds ==
    ASSUME NEW n \in Nat, NEW D \in SUBSET (1 .. n), NEW c \in Nat, NEW m \in Nat,
           SeriesOf(n, D, c, m)
    PROVE  SeriesOf(n + 1, D, 0, m)
<1>1. n + 1 \notin D
    BY SMT
<1>2. 0 <= n + 1 /\ (n + 1 - 0 + 1) .. (n + 1) = {} /\ n + 1 - 0 = n + 1
    BY SMT
<1>3. HasSeries(n + 1, D, m)
  <2>1. PICK a \in 1 .. n + 1 : a + m - 1 <= n /\ a .. (a + m - 1) \subseteq D
      BY DEF SeriesOf, HasSeries
  <2>2. a \in 1 .. n + 1 + 1 /\ a + m - 1 <= n + 1
      BY <2>1, SMT
  <2> QED BY <2>1, <2>2 DEF HasSeries
<1>4. ASSUME NEW a \in 1 .. n + 1, NEW b \in 1 .. n + 1, a .. b \subseteq D
      PROVE  b - a + 1 <= m
  <2>1. b # n + 1
    <3>1. b = n + 1 => n + 1 \in a .. b
        BY SMT
    <3> QED BY <1>1, <1>4, <3>1
  <2>2. CASE a = n + 1
      BY <2>1, <2>2, SMT
  <2>3. CASE a # n + 1
    <3>1. a \in 1 .. n /\ b \in 1 .. n
        BY <2>1, <2>3, SMT
    <3> QED BY <1>4, <3>1 DEF SeriesOf, NoneLonger
  <2> QED BY <2>2, <2>3
<1>5. EndsWith(n + 1, D, 0)
    BY <1>1, <1>2 DEF EndsWith
<1>6. NoneLonger(n + 1, D, m)
    BY <1>4 DEF NoneLonger
<1> QED BY <1>3, <1>5, <1>6 DEF SeriesOf

LEMMA SeriesGrows ==
    ASSUME NEW n \in Nat, NEW D \in SUBSET (1 .. n), NEW c \in Nat, NEW m \in Nat,
           SeriesOf(n, D, c, m)
    PROVE  SeriesOf(n + 1, D \cup {n + 1}, c + 1, MaxOf(m, c + 1))
<1> DEFINE E == D \cup {n + 1}
           m1 == MaxOf(m, c + 1)
<1>1. /\ c <= n /\ (n - c + 1) .. n \subseteq D
      /\ c < n => n - c \notin D
    BY DEF SeriesOf, EndsWith
<1>2. c + 1 <= n + 1 /\ n + 1 - (c + 1) = n - c /\ (c + 1 < n + 1 <=> c < n)
      /\ n + 1 - (c + 1) + 1 = n - c + 1
    BY <1>1, SMT
<1>3. (n - c + 1) .. (n + 1) \subseteq E
  <2>1. \A k \in (n - c + 1) .. (n + 1) : k \in (n - c + 1) .. n \/ k = n + 1
      BY SMT
  <2> QED BY <1>1, <2>1
<1>4. c < n => n - c \notin E
  <2>1. n - c # n + 1
      BY SMT
  <2> QED BY <1>1, <2>1
<1>5. m1 \in Nat /\ m <= m1 /\ c + 1 <= m1 /\ (m1 = m \/ m1 = c + 1)
    BY SMT DEF MaxOf
<1> HIDE DEF m1
<1>6. HasSeries(n + 1, E, m1)
  <2>1. CASE m1 = m
    <3>1. PICK a \in 1 .. n + 1 : a + m - 1 <= n /\ a .. (a + m - 1) \subseteq D
        BY DEF SeriesOf, HasSeries
    <3>2. a \in 1 .. n + 1 + 1 /\ a + m - 1 <= n + 1
        BY <3>1, SMT
    <3>3. a .. (a + m - 1) \subseteq E
        BY <3>1
    <3> QED BY <2>1, <3>2, <3>3 DEF HasSeries
  <2>2. CASE m1 = c + 1
    <3> DEFINE a == n - c + 1
    <3>1. a \in 1 .. n + 1 + 1 /\ a + m1 - 1 = n + 1 /\ n + 1 <= n + 1
        BY <1>1, <2>2, SMT
    <3> HIDE DEF a
    <3>2. a .. (a + m1 - 1) \subseteq E
        BY <1>3, <3>1 DEF a
    <3> QED BY <3>1, <3>2 DEF HasSeries
  <2> QED BY <1>5, <2>1, <2>2
<1>7. ASSUME NEW a \in 1 .. n + 1, NEW b \in 1 .. n + 1, a .. b \subseteq E
      PROVE  b - a + 1 <= m1
  <2>1. CASE b # n + 1 /\ a # n + 1
    <3>1. a \in 1 .. n /\ b \in 1 .. n /\ n + 1 \notin a .. b
        BY <2>1, SMT
    <3>2. b - a + 1 <= m
        BY <1>7, <3>1 DEF SeriesOf, NoneLonger
    <3> QED BY <1>5, <3>1, <3>2, SMT
  <2>2. CASE b # n + 1 /\ a = n + 1
      BY <1>5, <2>2, SMT
  <2>3. CASE b = n + 1
    <3>1. ~(a <= n - c)
      <4> SUFFICES ASSUME a <= n - c PROVE FALSE
          OBVIOUS
      <4>1. n - c \in a .. b /\ c < n
          BY <1>1, <2>3, SMT
      <4> QED BY <1>4, <1>7, <4>1
    <3> QED BY <1>1, <1>5, <2>3, <3>1, SMT
  <2> QED BY <2>1, <2>2, <2>3
<1>8. EndsWith(n + 1, E, c + 1)
    BY <1>2, <1>3, <1>4 DEF EndsWith
<1>9. NoneLonger(n + 1, E, m1)
    BY <1>7 DEF NoneLonger
<1> QED BY <1>6, <1>8, <1>9 DEF SeriesOf, m1

(* What a new cycle makes of everything that is read off the timeline. *)
LEMMA TimelineStep ==
    ASSUME Typed, NEW scheduled \in Nat, NEW start \in Nat, NEW end \in Nat,
           timeline' = Append(timeline, [scheduled |-> scheduled, start |-> start, end |-> end])
    PROVE  /\ Len(timeline) \in Nat /\ Len(timeline) = stats.measured
           /\ Len(timeline') = Len(timeline) + 1 /\ timeline' # <<>>
           /\ timeline' \in Seq([scheduled : Nat, start : Nat, end : Nat])
           /\ timeline'[Len(timeline) + 1].start = start
           /\ \A k \in 1 .. Len(timeline) : timeline'[k] = timeline[k] /\ timeline[k].start \in Nat
           /\ {Margin(k) : k \in Cycles} \in SUBSET Int
           /\ ({Margin(k) : k \in Cycles} = {} <=> Len(timeline) = 0)
           /\ {Margin(k) : k \in Cycles}'
                = {Margin(k) : k \in Cycles} \cup {scheduled + Period - end}
           /\ Missed \in SUBSET (1 .. Len(timeline))
           /\ Missed' = IF scheduled + Period - end < 0 THEN Missed \cup {Len(timeline) + 1} ELSE Missed
           /\ \A ticks \in Nat :
                /\ LateBy(ticks) \in SUBSET (1 .. Len(timeline))
                /\ LateBy(ticks)' = IF start - scheduled >= ticks THEN LateBy(ticks) \cup {Len(timeline) + 1}
                                                                  ELSE LateBy(ticks)
<1> DEFINE n == Len(timeline)
           R == [scheduled : Nat, start : Nat, end : Nat]
           e == [scheduled |-> scheduled, start |-> start, end |-> end]
<1>1. timeline \in Seq(R) /\ n = stats.measured
    BY DEF Typed
<1>2. e \in R /\ e.scheduled = scheduled /\ e.start = start /\ e.end = end
    OBVIOUS
<1> HIDE DEF e
<1>3. timeline' = Append(timeline, e)
    BY DEF e
<1> HIDE DEF R
<1>4. n \in Nat /\ Len(timeline') = n + 1 /\ timeline' \in Seq(R)
    BY <1>1, <1>2, <1>3, SMT
<1>5. timeline'[n + 1] = e
    BY <1>1, <1>2, <1>3, SMT
<1>6. \A k \in 1 .. n : timeline'[k] = timeline[k] /\ timeline[k] \in R
    BY <1>1, <1>2, <1>3, SMT
<1> HIDE DEF n
<1>7. Cycles = 1 .. n /\ Cycles' = 1 .. n + 1
    BY <1>4 DEF Cycles, n
<1>8. 1 .. n + 1 = (1 .. n) \cup {n + 1}
    BY <1>4, SMT
<1>9. \A k \in 1 .. n : /\ timeline[k].scheduled \in Nat /\ timeline[k].start \in Nat
                        /\ timeline[k].end \in Nat
    BY <1>6 DEF R
<1>10. Period \in Nat
    BY PeriodAssumption
<1>11. \A k \in 1 .. n : /\ Margin(k)' = Margin(k) /\ Lateness(k)' = Lateness(k)
                         /\ Margin(k) \in Int /\ Lateness(k) \in Int
  <2>1. \A k \in 1 .. n : Margin(k)' = Margin(k) /\ Lateness(k)' = Lateness(k)
      BY <1>6 DEF Margin, Lateness
  <2>2. \A k \in 1 .. n : Margin(k) \in Int /\ Lateness(k) \in Int
      BY <1>9, <1>10, SMT DEF Margin, Lateness
  <2> QED BY <2>1, <2>2
<1>12. \A k \in {n + 1} : /\ Margin(k)' = scheduled + Period - end
                          /\ Lateness(k)' = start - scheduled
    BY <1>2, <1>5 DEF Margin, Lateness
<1>13. {Margin(k) : k \in Cycles}' = {Margin(k) : k \in Cycles} \cup {scheduled + Period - end}
    BY <1>7, <1>8, <1>11, <1>12
<1>14. {Margin(k) : k \in Cycles} = {} <=> n = 0
  <2>1. n # 0 => 1 \in 1 .. n
      BY <1>4, SMT
  <2>2. n = 0 => 1 .. n = {}
      BY SMT
  <2> QED BY <1>7, <2>1, <2>2
<1>15. Missed' = IF scheduled + Period - end < 0 THEN Missed \cup {n + 1} ELSE Missed
    BY <1>7, <1>8, <1>11, <1>12 DEF Missed
<1>16. \A ticks \in Nat :
         LateBy(ticks)' = IF start - scheduled >= ticks THEN LateBy(ticks) \cup {n + 1}
                                                        ELSE LateBy(ticks)
    BY <1>7, <1>8, <1>11, <1>12 DEF LateBy
<1>17. Missed \in SUBSET (1 .. n) /\ \A ticks \in Nat : LateBy(ticks) \in SUBSET (1 .. n)
    BY <1>7 DEF Missed, LateBy
<1>18. timeline' # <<>>
    BY <1>4, SMT
<1>19. {Margin(k) : k \in Cycles} \in SUBSET Int
  <2>1. \A k \in Cycles : Margin(k) \in Int
      BY <1>7, <1>11
  <2> QED BY <2>1
<1>20. timeline'[n + 1].start = start /\ \A k \in 1 .. n : timeline[k].start \in Nat
    BY <1>2, <1>5, <1>9
<1>21. \A k \in 1 .. n : timeline'[k] = timeline[k]
    BY <1>6
<1> QED BY <1>1, <1>4, <1>13, <1>14, <1>15, <1>16, <1>17, <1>18, <1>19, <1>20, <1>21, Zenon DEF n, R

(* The same of the periods, from the second cycle on. *)
LEMMA PeriodStep ==
    ASSUME Typed, SumTelescopes, stats.measured > 0,
           NEW scheduled \in Nat, NEW start \in Nat, NEW end \in Nat,
           timeline' = Append(timeline, [scheduled |-> scheduled, start |-> start, end |-> end])
    PROVE  LET periods == {PeriodBefore(k) : k \in Cycles \ {1}} IN
           /\ periods \in SUBSET Int /\ (periods = {} <=> stats.measured = 1)
           /\ periods' = periods \cup {start - stats.previousCycle}
<1> DEFINE n == Len(timeline)
<1>1. /\ n \in Nat /\ n = stats.measured /\ Len(timeline') = n + 1
      /\ timeline'[n + 1].start = start
      /\ \A k \in 1 .. n : timeline'[k] = timeline[k] /\ timeline[k].start \in Nat
    BY TimelineStep
<1> HIDE DEF n
<1>2. Cycles = 1 .. n /\ Cycles' = 1 .. n + 1 /\ n > 0
    BY <1>1 DEF Cycles, n
<1>3. (1 .. n + 1) \ {1} = ((1 .. n) \ {1}) \cup {n + 1}
    BY <1>1, <1>2, SMT
<1>4. \A k \in (1 .. n) \ {1} : k \in 1 .. n /\ k - 1 \in 1 .. n
    BY <1>1, SMT
<1>5. \A k \in (1 .. n) \ {1} : PeriodBefore(k)' = PeriodBefore(k)
    BY <1>1, <1>4 DEF PeriodBefore
<1>6. \A k \in (1 .. n) \ {1} : PeriodBefore(k) \in Int
  <2>1. \A k \in (1 .. n) \ {1} : timeline[k].start \in Nat /\ timeline[k - 1].start \in Nat
      BY <1>1, <1>4
  <2> QED BY <2>1, SMT DEF PeriodBefore
<1>7. \A k \in {n + 1} : PeriodBefore(k)' = start - stats.previousCycle
  <2>1. n + 1 - 1 = n /\ n \in 1 .. n
      BY <1>1, <1>2, SMT
  <2>2. timeline'[n].start = stats.previousCycle
      BY <1>1, <2>1 DEF SumTelescopes
  <2> QED BY <1>1, <2>1, <2>2 DEF PeriodBefore
<1>8. n = 1 <=> (1 .. n) \ {1} = {}
  <2>1. n # 1 => n \in (1 .. n) \ {1}
      BY <1>1, <1>2, SMT
  <2>2. n = 1 => \A k \in 1 .. n : k = 1
      BY SMT
  <2> QED BY <2>1, <2>2
<1>9. {PeriodBefore(k) : k \in Cycles \ {1}}'
        = {PeriodBefore(k) : k \in Cycles \ {1}} \cup {start - stats.previousCycle}
    BY <1>2, <1>3, <1>5, <1>7
<1>10. {PeriodBefore(k) : k \in Cycles \ {1}} \in SUBSET Int
    BY <1>2, <1>6
<1>11. {PeriodBefore(k) : k \in Cycles \ {1}} = {} <=> n = 1
    BY <1>2, <1>8
<1> QED BY <1>1, <1>9, <1>10, <1>11, Zenon

(* A step that adds no cycle. *)
LEMMA TimelineStays ==
    ASSUME UNCHANGED <<stats, timeline>>
    PROVE  /\ MissesAreExplained => MissesAreExplained'
           /\ PeriodsTelescope => PeriodsTelescope'
           /\ DelaysAreCounted => DelaysAreCounted'
<1>1. Cycles' = Cycles /\ \A k \in Cycles : Margin(k)' = Margin(k) /\ Lateness(k)' = Lateness(k)
    BY DEF Cycles, Margin, Lateness
<1>2. \A k \in Cycles : PeriodBefore(k)' = PeriodBefore(k)
    BY DEF PeriodBefore
<1>3. Missed' = Missed /\ {Margin(k) : k \in Cycles}' = {Margin(k) : k \in Cycles}
    BY <1>1 DEF Missed
<1>4. \A ticks : LateBy(ticks)' = LateBy(ticks)
    BY <1>1 DEF LateBy
<1>5. {PeriodBefore(k) : k \in Cycles \ {1}}' = {PeriodBefore(k) : k \in Cycles \ {1}}
    BY <1>1, <1>2
<1>6. MissesAreExplained => MissesAreExplained'
    BY <1>3, <1>4 DEF MissesAreExplained, IsMinimum
<1>7. PeriodsTelescope => PeriodsTelescope'
    BY <1>5 DEF PeriodsTelescope, IsMinimum, IsMaximum
<1>8. DelaysAreCounted => DelaysAreCounted'
    BY <1>1, <1>4 DEF DelaysAreCounted, IsSeries
<1> QED BY <1>6, <1>7, <1>8

LEMMA InitTimingInv == Init => TimingInv
<1> SUFFICES ASSUME Init PROVE TimingInv
    OBVIOUS
<1> DEFINE zero == [measured |-> 0, delayed |-> 0, consecutive |-> 0, maxConsecutive |-> 0,
                backlogCycles |-> 0, maxBacklog |-> 0, misses |-> 0,
                missClass |-> [m \in MissClasses |-> 0],
                delayClass |-> [d \in DelayClasses |-> 0],
                previousCycle |-> 0, previousEnd |-> 0, minPeriod |-> 0, maxPeriod |-> 0,
                totalPeriod |-> 0, maxExecution |-> 0, maxControl |-> 0, maxSnapshot |-> 0,
                maxGap |-> 0, maxSchedulingDelay |-> 0, minMargin |-> 0,
                processorChanges |-> 0, previousProcessor |-> -1]
<1>1. stats = zero /\ nextCycle = 0 /\ origin = 0 /\ timeline = <<>> /\ mask \in Masks
      /\ now \in Nat /\ pinned = IsPinned(mask)
    BY DelaysAssumption DEF Init
<1>2. DOMAIN zero = Fields
    BY DEF Fields
<1>3. /\ zero.measured = 0 /\ zero.delayed = 0 /\ zero.consecutive = 0 /\ zero.maxConsecutive = 0
      /\ zero.backlogCycles = 0 /\ zero.maxBacklog = 0 /\ zero.misses = 0
      /\ zero.previousCycle = 0 /\ zero.previousEnd = 0 /\ zero.minPeriod = 0
      /\ zero.maxPeriod = 0 /\ zero.totalPeriod = 0 /\ zero.maxExecution = 0
      /\ zero.maxSchedulingDelay = 0 /\ zero.minMargin = 0 /\ zero.processorChanges = 0
      /\ zero.previousProcessor = -1
      /\ zero.missClass = [m \in MissClasses |-> 0]
      /\ zero.delayClass = [d \in DelayClasses |-> 0]
    OBVIOUS
<1> HIDE DEF zero
<1>4. Period \in Nat /\ Period > 0 /\ 0 \in Nat /\ -1 \in Int
    BY PeriodAssumption, SMT
<1>5. Typed
  <2>1. \A f \in Counters : zero[f] = 0
      BY <1>3 DEF Counters
  <2>2. zero.missClass \in [MissClasses -> Nat] /\ zero.delayClass \in [DelayClasses -> Nat]
      BY <1>3
  <2>3. timeline \in Seq([scheduled : Nat, start : Nat, end : Nat]) /\ Len(timeline) = 0
      BY <1>1
  <2> QED BY <1>1, <1>2, <1>3, <1>4, <2>1, <2>2, <2>3 DEF Typed
<1>6. InOrder /\ BacklogFollowsDelay
    BY <1>1, <1>3, <1>4, SMT DEF InOrder, BacklogFollowsDelay
<1>12. /\ Len(timeline) = 0 /\ Cycles = {} /\ Missed = {} /\ Cardinality({}) = 0
       /\ \A ticks \in Nat : LateBy(ticks) = {}
  <2>1. Len(timeline) = 0 /\ Cycles = {}
      BY <1>1, SMT DEF Cycles
  <2> QED BY <2>1, FS_EmptySet DEF Missed, LateBy
<1>7. NoDrift
    BY <1>1, <1>3, <1>4, SMT DEF NoDrift
<1>8. MissesAreExplained
  <2>1. /\ stats.missClass["scheduling"] = 0 /\ stats.missClass["execution"] = 0
        /\ stats.missClass["combined"] = 0
      BY <1>1, <1>3 DEF MissClasses
  <2>2. LateBy(Period) \subseteq Missed
      BY <1>4, <1>12
  <2>3. ~(0 > 0) /\ 0 + 0 + 0 = 0 /\ 0 + 0 = 0
      BY SMT
  <2> QED BY <1>1, <1>3, <1>12, <2>1, <2>2, <2>3 DEF MissesAreExplained
<1>9. DelaysAreCounted
  <2>1. \A d \in DelayClasses : stats.delayClass[d] = 0
      BY <1>1, <1>3
  <2>2. /\ stats.delayClass["under_100us"] = 0 /\ stats.delayClass["100us_to_1ms"] = 0
        /\ stats.delayClass["1ms_to_5ms"] = 0 /\ stats.delayClass["5ms_to_10ms"] = 0
        /\ stats.delayClass["over_10ms"] = 0
      BY <2>1 DEF DelayClasses
  <2>3. SeriesOf(0, {}, 0, 0)
    <3>1. 0 <= 0 /\ (0 - 0 + 1) .. 0 = {} /\ ~(0 < 0) /\ 1 .. 0 = {}
        BY SMT
    <3>2. 1 \in 1 .. 0 + 1 /\ 1 + 0 - 1 <= 0 /\ 1 .. (1 + 0 - 1) = {}
        BY SMT
    <3> QED BY <3>1, <3>2 DEF SeriesOf, EndsWith, HasSeries, NoneLonger
  <2>4. stats.delayed = 0 /\ stats.consecutive = 0 /\ stats.maxConsecutive = 0
        /\ stats.backlogCycles = 0
      BY <1>1, <1>3
  <2>5. LateBy(Period) = {} /\ LateBy(10) = {}
      BY <1>4, <1>12
  <2>6. /\ stats.consecutive <= 0 /\ IsSeries(0 - stats.consecutive + 1, 0)
        /\ stats.consecutive < 0 => 0 - stats.consecutive \notin LateBy(Period)
        /\ \E first \in 1 .. 0 + 1 :
             LET last == first + stats.maxConsecutive - 1
             IN last <= 0 /\ IsSeries(first, last)
        /\ \A first, last \in 1 .. 0 : IsSeries(first, last) =>
             last - first + 1 <= stats.maxConsecutive
      BY <2>3, <2>4, <2>5 DEF SeriesOf, EndsWith, HasSeries, NoneLonger, IsSeries
  <2>7. ~(0 > 0) /\ 0 + 0 + 0 = 0 /\ 0 + 0 = 0 /\ 0 <= 0
      BY SMT
  <2> QED BY <1>12, <2>2, <2>4, <2>5, <2>6, <2>7 DEF DelaysAreCounted, Cycles
<1>10. SeenWherePinned /\ PinnedNeverChanges
    BY <1>1, <1>3 DEF SeenWherePinned, PinnedNeverChanges
<1>11. SumTelescopes /\ PeriodsTelescope
    BY <1>1, <1>3, <1>12, SMT DEF SumTelescopes, PeriodsTelescope
<1> QED BY <1>5, <1>6, <1>7, <1>8, <1>9, <1>10, <1>11 DEF TimingInv

LEMMA CountersAreNat ==
    Typed =>
      /\ stats.measured \in Nat /\ stats.delayed \in Nat /\ stats.consecutive \in Nat
      /\ stats.maxConsecutive \in Nat /\ stats.backlogCycles \in Nat /\ stats.maxBacklog \in Nat
      /\ stats.misses \in Nat /\ stats.previousCycle \in Nat /\ stats.previousEnd \in Nat
      /\ stats.minPeriod \in Nat /\ stats.maxPeriod \in Nat /\ stats.totalPeriod \in Nat
      /\ stats.maxExecution \in Nat /\ stats.maxSchedulingDelay \in Nat
BY DEF Typed, Counters

LEMMA DelayClassCases ==
    ASSUME NEW delay \in Nat
    PROVE  /\ DelayClass(delay) \in DelayClasses
           /\ delay >= 10 <=> DelayClass(delay) \in {"1ms_to_5ms", "5ms_to_10ms", "over_10ms"}
<1>1. CASE delay < 1
    BY <1>1, SMT DEF DelayClass, DelayClasses
<1>2. CASE 1 <= delay /\ delay < 10
    BY <1>2, SMT DEF DelayClass, DelayClasses
<1>3. CASE 10 <= delay /\ delay < 50
    BY <1>3, SMT DEF DelayClass, DelayClasses
<1>4. CASE 50 <= delay /\ delay < 100
    BY <1>4, SMT DEF DelayClass, DelayClasses
<1>5. CASE 100 <= delay
    BY <1>5, SMT DEF DelayClass, DelayClasses
<1> QED BY <1>1, <1>2, <1>3, <1>4, <1>5, SMT

(* Multiplication, only to advance the schedule. *)
LEMMA ProductStep ==
    ASSUME NEW m \in Int, NEW p \in Int
    PROVE  (m + 1) * p = m * p + p /\ p * (m + 1) = p * m + p /\ m * p \in Int /\ p * m \in Int
BY SMT

-----------------------------------------------------------------------------
(* A cycle. *)

LEMMA CycleKeepsInv ==
    ASSUME TimingInv,
           NEW delay \in WakeDelays, NEW control \in ControlTimes, NEW snapshot \in SnapshotTimes,
           NEW processor \in mask, Cycle(delay, control, snapshot, processor)
    PROVE  TimingInv'
<1> DEFINE start == WakeTime(delay)
           end == start + control + snapshot
           deadline == nextCycle + Period
           late == SchedulingDelay(start, nextCycle)
           s == stats
           t == stats'
<1>1. /\ Typed /\ InOrder /\ NoDrift /\ MissesAreExplained
      /\ BacklogFollowsDelay /\ DelaysAreCounted /\ SeenWherePinned /\ PinnedNeverChanges
      /\ SumTelescopes /\ PeriodsTelescope
    BY DEF TimingInv
<1>2. /\ Period \in Nat /\ Period > 0 /\ delay \in Nat /\ control \in Nat /\ control > 0
      /\ snapshot \in Nat /\ processor \in Int
      /\ now \in Nat /\ nextCycle \in Nat /\ origin \in Int
  <2>1. mask \in SUBSET Int
      BY <1>1, MasksAssumption DEF Typed
  <2> QED BY <1>1, <2>1, PeriodAssumption, DelaysAssumption, WorkAssumption, SMT DEF Typed
<1>3. /\ t = UpdateStats(s, nextCycle, start, control, snapshot, processor)
      /\ now' = end /\ nextCycle' = nextCycle + Period
      /\ timeline' = Append(timeline, [scheduled |-> nextCycle, start |-> start, end |-> end])
      /\ mask' = mask /\ origin' = origin /\ pinned' = pinned
    BY DEF Cycle, AdvanceSchedule
<1>4. /\ start \in Nat /\ end \in Nat /\ deadline \in Nat /\ late \in Nat
      /\ now <= start /\ nextCycle <= start /\ start < end /\ late = start - nextCycle
    BY <1>2, SMT DEF WakeTime, MaxOf, SchedulingDelay
<1>5. /\ s.measured \in Nat /\ s.delayed \in Nat /\ s.consecutive \in Nat
      /\ s.maxConsecutive \in Nat /\ s.backlogCycles \in Nat /\ s.maxBacklog \in Nat
      /\ s.misses \in Nat /\ s.previousCycle \in Nat /\ s.previousEnd \in Nat
      /\ s.minPeriod \in Nat /\ s.maxPeriod \in Nat /\ s.totalPeriod \in Nat
      /\ s.maxExecution \in Nat /\ s.maxSchedulingDelay \in Nat
      /\ s.minMargin \in Int /\ s.previousProcessor \in Int /\ s.processorChanges \in Nat
      /\ s.missClass \in [MissClasses -> Nat] /\ s.delayClass \in [DelayClasses -> Nat]
    BY <1>1, CountersAreNat DEF Typed
<1> DEFINE backlog == Backlog(start, nextCycle)
<1>10. /\ HasBacklog(start, nextCycle) <=> Period <= late
       /\ HasBacklog(start, nextCycle) => backlog = late - Period /\ deadline < end
    BY <1>2, <1>4, SMT DEF HasBacklog, Backlog
<1>11. deadline = nextCycle + Period
    OBVIOUS
<1>22. /\ t = UpdateStats(s, nextCycle, start, control, snapshot, processor)
       /\ end = start + control + snapshot /\ deadline = nextCycle + Period
       /\ late = SchedulingDelay(start, nextCycle) /\ backlog = Backlog(start, nextCycle)
    BY <1>3
<1>23. CycleStats(s, t, nextCycle, start, control, snapshot, processor)
  <2>1. DOMAIN s = Fields
      BY <1>1 DEF Typed
  <2> HIDE DEF start
  <2> QED BY <1>3, <2>1, StatsAfterCycle
<1> HIDE DEF start, end, deadline, late, t, backlog
<1>6. /\ DOMAIN t = Fields /\ t.measured = s.measured + 1
      /\ processor < 0 => t.processorChanges = s.processorChanges
                          /\ t.previousProcessor = s.previousProcessor
      /\ ~(processor < 0) =>
           /\ t.processorChanges = IF s.previousProcessor >= 0 /\ processor # s.previousProcessor
                                   THEN s.processorChanges + 1 ELSE s.processorChanges
           /\ t.previousProcessor = processor
    BY <1>22, <1>23 DEF CycleStats
<1>7. /\ t.previousCycle = start
      /\ s.measured = 0 =>
           /\ t.minPeriod = s.minPeriod /\ t.maxPeriod = s.maxPeriod /\ t.totalPeriod = s.totalPeriod
      /\ s.measured # 0 =>
           /\ t.minPeriod = IF s.measured = 1 \/ start - s.previousCycle < s.minPeriod
                            THEN start - s.previousCycle ELSE s.minPeriod
           /\ t.maxPeriod = MaxOf(s.maxPeriod, start - s.previousCycle)
           /\ t.totalPeriod = s.totalPeriod + (start - s.previousCycle)
    BY <1>22, <1>23 DEF CycleStats
<1>8. /\ HasBacklog(start, nextCycle) =>
           /\ t.delayed = s.delayed + 1
           /\ t.consecutive = s.consecutive + 1
           /\ t.maxConsecutive = MaxOf(s.maxConsecutive, s.consecutive + 1)
           /\ t.maxBacklog = MaxOf(s.maxBacklog, backlog)
           /\ t.backlogCycles = IF backlog >= Period THEN s.backlogCycles + 1 ELSE s.backlogCycles
      /\ ~HasBacklog(start, nextCycle) =>
           /\ t.consecutive = 0
           /\ t.delayed = s.delayed /\ t.maxConsecutive = s.maxConsecutive
           /\ t.maxBacklog = s.maxBacklog /\ t.backlogCycles = s.backlogCycles
    BY <1>22, <1>23 DEF CycleStats
<1>9. /\ t.previousEnd = end
      /\ t.delayClass = [s.delayClass EXCEPT ![DelayClass(late)] = @ + 1]
      /\ t.maxSchedulingDelay = MaxOf(s.maxSchedulingDelay, late)
      /\ t.minMargin = IF s.measured = 0 \/ deadline - end < s.minMargin
                       THEN deadline - end ELSE s.minMargin
      /\ t.maxExecution = MaxOf(s.maxExecution, end - start)
      /\ end <= deadline => t.misses = s.misses /\ t.missClass = s.missClass
      /\ ~(end <= deadline) =>
           /\ t.misses = s.misses + 1
           /\ t.missClass = [s.missClass EXCEPT ![MissClass(late, end - start)] = @ + 1]
    BY <1>22, <1>23 DEF CycleStats
<1> DEFINE n == Len(timeline)
<1>24. /\ n \in Nat /\ n = s.measured /\ Len(timeline') = n + 1 /\ timeline' # <<>>
       /\ timeline' \in Seq([scheduled : Nat, start : Nat, end : Nat])
       /\ timeline'[n + 1].start = start
       /\ \A k \in 1 .. n : timeline'[k] = timeline[k] /\ timeline[k].start \in Nat
       /\ {Margin(k) : k \in Cycles} \in SUBSET Int
       /\ {Margin(k) : k \in Cycles} = {} <=> n = 0
       /\ {Margin(k) : k \in Cycles}'
            = {Margin(k) : k \in Cycles} \cup {nextCycle + Period - end}
       /\ Missed \in SUBSET (1 .. n)
       /\ Missed' = IF nextCycle + Period - end < 0 THEN Missed \cup {n + 1} ELSE Missed
       /\ \A ticks \in Nat :
            /\ LateBy(ticks) \in SUBSET (1 .. n)
            /\ LateBy(ticks)' = IF start - nextCycle >= ticks THEN LateBy(ticks) \cup {n + 1}
                                                              ELSE LateBy(ticks)
    BY <1>1, <1>2, <1>3, <1>4, TimelineStep
<1>25. Len(timeline)' = n + 1 /\ Cycles = 1 .. n /\ Cycles' = 1 .. n + 1
    BY <1>24 DEF Cycles
<1> HIDE DEF n
<1>26. deadline - end \in Int /\ nextCycle + Period - end = deadline - end
       /\ (end <= deadline <=> ~(nextCycle + Period - end < 0))
    BY <1>2, <1>4, <1>11, SMT
<1>12. Typed'
  <2>1. /\ t.measured \in Nat /\ t.delayed \in Nat /\ t.consecutive \in Nat
        /\ t.maxConsecutive \in Nat /\ t.backlogCycles \in Nat /\ t.maxBacklog \in Nat
      BY <1>2, <1>4, <1>5, <1>6, <1>8, <1>10, SMT DEF MaxOf
  <2>2. t.misses \in Nat /\ t.previousCycle \in Nat /\ t.previousEnd \in Nat
      BY <1>4, <1>5, <1>7, <1>9, SMT
  <2>3. t.minPeriod \in Nat /\ t.maxPeriod \in Nat /\ t.totalPeriod \in Nat
    <3>1. start - s.previousCycle \in Nat
        BY <1>1, <1>2, <1>4, <1>5, SMT DEF InOrder
    <3> QED BY <1>5, <1>7, <3>1, SMT DEF MaxOf
  <2>4. t.maxExecution \in Nat /\ t.maxSchedulingDelay \in Nat /\ t.minMargin \in Int
      BY <1>4, <1>5, <1>9, SMT DEF MaxOf
  <2>5. t.previousProcessor \in Int /\ t.processorChanges \in Nat
      BY <1>2, <1>5, <1>6, SMT
  <2>6. t.missClass \in [MissClasses -> Nat]
      BY <1>5, <1>9
  <2>7. t.delayClass \in [DelayClasses -> Nat]
    <3> DEFINE k == DelayClass(late)
    <3>1. t.delayClass = [s.delayClass EXCEPT ![k] = @ + 1]
        BY <1>9
    <3>2. k \in DelayClasses
        BY <1>4, DelayClassCases
    <3> HIDE DEF k
    <3>3. s.delayClass[k] + 1 \in Nat
        BY <1>5, <3>2, SMT
    <3> QED BY <1>5, <3>1, <3>3
  <2>8. \A f \in Counters : t[f] \in Nat
      BY <2>1, <2>2, <2>3, <2>4 DEF Counters
  <2>9. now' \in Nat /\ nextCycle' \in Nat /\ origin' \in Int /\ mask' \in Masks
      BY <1>1, <1>2, <1>3, <1>4, SMT DEF Typed
  <2>10. Len(timeline') = t.measured
      BY <1>6, <1>24
  <2> QED BY <1>6, <1>24, <2>4, <2>5, <2>6, <2>7, <2>8, <2>9, <2>10 DEF Typed, t
<1>13. InOrder'
    BY <1>3, <1>4, <1>7, <1>9, SMT DEF InOrder, t
<1>14. NoDrift'
  <2>1. t.measured * Period = s.measured * Period + Period /\ s.measured * Period \in Int
    <3>1. s.measured \in Int /\ Period \in Int
        BY <1>2, <1>5, SMT
    <3>2. (s.measured + 1) * Period = s.measured * Period + Period /\ s.measured * Period \in Int
        BY <3>1, ProductStep
    <3> QED BY <1>6, <3>2
  <2>2. nextCycle = origin + s.measured * Period
      BY <1>1 DEF NoDrift
  <2>3. nextCycle' = origin' + t.measured * Period
      BY <1>2, <1>3, <2>1, <2>2, SMT
  <2> QED BY <2>3 DEF NoDrift, t
<1>16. MissesAreExplained'
  <2> DEFINE c == MissClass(late, end - start)
             x == s.missClass["scheduling"]  y == s.missClass["execution"]  z == s.missClass["combined"]
             x1 == t.missClass["scheduling"]  y1 == t.missClass["execution"]  z1 == t.missClass["combined"]
  <2>1. x \in Nat /\ y \in Nat /\ z \in Nat
      BY <1>5 DEF MissClasses
  <2>2. /\ end <= deadline => x1 = x /\ y1 = y /\ z1 = z
        /\ ~(end <= deadline) =>
             /\ x1 = IF c = "scheduling" THEN x + 1 ELSE x
             /\ y1 = IF c = "execution" THEN y + 1 ELSE y
             /\ z1 = IF c = "combined" THEN z + 1 ELSE z
      BY <1>5, <1>9 DEF MissClasses
  <2>3. /\ c \in {"scheduling", "execution", "combined"}
        /\ c = "scheduling" => late > 0
        /\ c = "combined" => late > 0 /\ end - start > Period
        /\ c = "execution" /\ ~(end <= deadline) => end - start > Period
      BY <1>2, <1>4, <1>11, SMT DEF MissClass
  <2> HIDE DEF c, x, y, z, x1, y1, z1
  <2>4. /\ s.misses = x + y + z
        /\ y + z > 0 => s.maxExecution > Period
        /\ x + z > 0 => s.maxSchedulingDelay > 0
        /\ s.misses = Cardinality(Missed) /\ LateBy(Period) \subseteq Missed
        /\ n # 0 => IsMinimum(s.minMargin, {Margin(k) : k \in Cycles})
    <3>1. n # 0 => timeline # <<>>
        BY DEF n
    <3> QED BY <1>1, <3>1 DEF MissesAreExplained, x, y, z
  <2>5. x1 \in Nat /\ y1 \in Nat /\ z1 \in Nat
      BY <2>1, <2>2, SMT
  <2>6. t.misses = x1 + y1 + z1
      BY <1>5, <1>9, <2>1, <2>2, <2>3, <2>4, SMT
  <2>7. y1 + z1 > 0 => t.maxExecution > Period
      BY <1>2, <1>4, <1>5, <1>9, <2>1, <2>2, <2>3, <2>4, SMT DEF MaxOf
  <2>8. x1 + z1 > 0 => t.maxSchedulingDelay > 0
      BY <1>4, <1>5, <1>9, <2>1, <2>2, <2>3, <2>4, SMT DEF MaxOf
  <2>9. t.misses = Cardinality(Missed')
    <3>1. Cardinality(Missed \cup {n + 1}) = Cardinality(Missed) + 1
        BY <1>24, CountStep
    <3> QED BY <1>9, <1>24, <1>26, <2>4, <3>1
  <2>10. LateBy(Period)' \subseteq Missed'
    <3>1. start - nextCycle >= Period => nextCycle + Period - end < 0
        BY <1>2, <1>4, SMT
    <3> QED BY <1>2, <1>24, <2>4, <3>1
  <2>11. IsMinimum(t.minMargin, {Margin(k) : k \in Cycles}')
    <3> DEFINE S == {Margin(k) : k \in Cycles}
    <3>1. /\ S \in SUBSET Int /\ (S = {} <=> s.measured = 0)
          /\ S' = S \cup {deadline - end} /\ (S # {} => IsMinimum(s.minMargin, S))
        BY <1>24, <1>26, <2>4
    <3>2. t.minMargin = IF S = {} \/ deadline - end < s.minMargin THEN deadline - end
                                                                 ELSE s.minMargin
        BY <1>9, <3>1
    <3> HIDE DEF S
    <3>3. IsMinimum(IF S = {} \/ deadline - end < s.minMargin THEN deadline - end
                                                              ELSE s.minMargin,
                    S \cup {deadline - end})
        BY <1>26, <3>1, MinimumStep
    <3> QED BY <3>1, <3>2, <3>3 DEF S
  <2> QED BY <2>6, <2>7, <2>8, <2>9, <2>10, <2>11
          DEF MissesAreExplained, IsMinimum, t, x1, y1, z1
<1>17. BacklogFollowsDelay' /\ (t.delayed > 0 => t.maxBacklog = t.maxSchedulingDelay - Period)
  <2>1. s.delayed > 0 => s.maxBacklog = s.maxSchedulingDelay - Period
      BY <1>1 DEF DelaysAreCounted
  <2>2. s.delayed = 0 => s.maxBacklog = 0 /\ s.maxSchedulingDelay < Period
      BY <1>1 DEF BacklogFollowsDelay
  <2>3. CASE HasBacklog(start, nextCycle)
    <3>1. t.delayed > 0
        BY <1>5, <1>8, <2>3, SMT
    <3>2. t.maxBacklog = MaxOf(s.maxBacklog, late - Period)
        BY <1>8, <1>10, <2>3
    <3>3. t.maxBacklog = t.maxSchedulingDelay - Period
        BY <1>2, <1>4, <1>5, <1>9, <1>10, <2>1, <2>2, <2>3, <3>2, SMT DEF MaxOf
    <3> QED BY <1>5, <3>1, <3>3, SMT DEF BacklogFollowsDelay, t
  <2>4. CASE ~HasBacklog(start, nextCycle)
    <3>1. t.delayed = s.delayed /\ t.maxBacklog = s.maxBacklog /\ late < Period
        BY <1>2, <1>4, <1>8, <1>10, <2>4, SMT
    <3>2. t.delayed = 0 => t.maxBacklog = 0 /\ t.maxSchedulingDelay < Period
        BY <1>2, <1>4, <1>5, <1>9, <2>2, <3>1, SMT DEF MaxOf
    <3>3. t.delayed > 0 => t.maxBacklog = t.maxSchedulingDelay - Period
        BY <1>2, <1>4, <1>5, <1>9, <2>1, <3>1, SMT DEF MaxOf
    <3> QED BY <3>2, <3>3 DEF BacklogFollowsDelay, t
  <2> QED BY <2>3, <2>4
<1>18. DelaysAreCounted'
  <2> DEFINE k == DelayClass(late)
             a == s.delayClass["under_100us"]  b == s.delayClass["100us_to_1ms"]
             c == s.delayClass["1ms_to_5ms"]  d == s.delayClass["5ms_to_10ms"]
             e == s.delayClass["over_10ms"]
             a1 == t.delayClass["under_100us"]  b1 == t.delayClass["100us_to_1ms"]
             c1 == t.delayClass["1ms_to_5ms"]  d1 == t.delayClass["5ms_to_10ms"]
             e1 == t.delayClass["over_10ms"]
  <2>1. a \in Nat /\ b \in Nat /\ c \in Nat /\ d \in Nat /\ e \in Nat
      BY <1>5 DEF DelayClasses
  <2>2. /\ k \in {"under_100us", "100us_to_1ms", "1ms_to_5ms", "5ms_to_10ms", "over_10ms"}
        /\ late >= 10 <=> k \in {"1ms_to_5ms", "5ms_to_10ms", "over_10ms"}
      BY <1>4, DelayClassCases DEF DelayClasses
  <2>3. /\ a1 = (IF k = "under_100us" THEN a + 1 ELSE a)
        /\ b1 = (IF k = "100us_to_1ms" THEN b + 1 ELSE b)
        /\ c1 = (IF k = "1ms_to_5ms" THEN c + 1 ELSE c)
        /\ d1 = (IF k = "5ms_to_10ms" THEN d + 1 ELSE d)
        /\ e1 = (IF k = "over_10ms" THEN e + 1 ELSE e)
      BY <1>5, <1>9 DEF DelayClasses
  <2> HIDE DEF k, a, b, c, d, e, a1, b1, c1, d1, e1
  <2>4. /\ (c + d + e) + a + b = n
        /\ c + d + e = Cardinality(LateBy(10)) /\ s.delayed = Cardinality(LateBy(Period))
        /\ s.backlogCycles <= s.delayed
        /\ SeriesOf(n, LateBy(Period), s.consecutive, s.maxConsecutive)
    <3>1. /\ (c + d + e) + a + b = n
          /\ c + d + e = Cardinality(LateBy(10)) /\ s.delayed = Cardinality(LateBy(Period))
          /\ s.backlogCycles <= s.delayed
        BY <1>1 DEF DelaysAreCounted, a, b, c, d, e, n
    <3>2. EndsWith(n, LateBy(Period), s.consecutive)
        BY <1>1 DEF DelaysAreCounted, EndsWith, IsSeries, n
    <3>3. HasSeries(n, LateBy(Period), s.maxConsecutive)
        BY <1>1 DEF DelaysAreCounted, HasSeries, IsSeries, n
    <3>4. NoneLonger(n, LateBy(Period), s.maxConsecutive)
        BY <1>1, <1>25 DEF DelaysAreCounted, NoneLonger, IsSeries
    <3> QED BY <3>1, <3>2, <3>3, <3>4 DEF SeriesOf
  <2>5. (c1 + d1 + e1) + a1 + b1 = n + 1
    <3>1. n \in Nat
        BY <1>24
    <3> QED BY <2>1, <2>2, <2>3, <2>4, <3>1, SMT
  <2>6. c1 + d1 + e1 = Cardinality(LateBy(10)')
    <3>1. c1 + d1 + e1 = IF late >= 10 THEN c + d + e + 1 ELSE c + d + e
        BY <2>1, <2>2, <2>3, SMT
    <3>2. LateBy(10) \in SUBSET (1 .. n) /\ LateBy(10)' = IF late >= 10 THEN LateBy(10) \cup {n + 1}
                                                                       ELSE LateBy(10)
        BY <1>4, <1>24
    <3>3. Cardinality(LateBy(10) \cup {n + 1}) = Cardinality(LateBy(10)) + 1
        BY <1>24, <3>2, CountStep
    <3> QED BY <2>4, <3>1, <3>2, <3>3
  <2>7. t.backlogCycles <= t.delayed
      BY <1>5, <1>8, <2>4, SMT
  <2>8. LateBy(Period) \in SUBSET (1 .. n)
      BY <1>2, <1>24
  <2>9. /\ t.delayed = Cardinality(LateBy(Period)')
        /\ SeriesOf(n + 1, LateBy(Period)', t.consecutive, t.maxConsecutive)
    <3>1. CASE HasBacklog(start, nextCycle)
      <4>1. LateBy(Period)' = LateBy(Period) \cup {n + 1}
        <5>1. start - nextCycle >= Period
            BY <1>2, <1>4, <1>10, <3>1, SMT
        <5> QED BY <1>2, <1>24, <5>1
      <4>2. Cardinality(LateBy(Period) \cup {n + 1}) = Cardinality(LateBy(Period)) + 1
          BY <1>24, <2>8, CountStep
      <4>3. SeriesOf(n + 1, LateBy(Period) \cup {n + 1}, s.consecutive + 1,
                     MaxOf(s.maxConsecutive, s.consecutive + 1))
          BY <1>5, <1>24, <2>4, <2>8, SeriesGrows
      <4> QED BY <1>8, <2>4, <3>1, <4>1, <4>2, <4>3
    <3>2. CASE ~HasBacklog(start, nextCycle)
      <4>1. LateBy(Period)' = LateBy(Period)
        <5>1. ~(start - nextCycle >= Period)
            BY <1>2, <1>4, <1>10, <3>2, SMT
        <5> QED BY <1>2, <1>24, <5>1
      <4>2. SeriesOf(n + 1, LateBy(Period), 0, s.maxConsecutive)
          BY <1>5, <1>24, <2>4, <2>8, SeriesEnds
      <4> QED BY <1>8, <2>4, <3>2, <4>1, <4>2
    <3> QED BY <3>1, <3>2
  <2> DEFINE D == LateBy(Period)'
  <2>10. EndsWith(n + 1, D, t.consecutive) /\ HasSeries(n + 1, D, t.maxConsecutive)
         /\ NoneLonger(n + 1, D, t.maxConsecutive)
      BY <2>9 DEF SeriesOf
  <2> HIDE DEF D
  <2>11. /\ t.consecutive <= n + 1
         /\ ((n + 1) - t.consecutive + 1) .. (n + 1) \subseteq D
         /\ t.consecutive < n + 1 => (n + 1) - t.consecutive \notin D
      BY <2>10, Zenon DEF EndsWith
  <2>12. \E first \in 1 .. n + 1 + 1 :
           /\ first + t.maxConsecutive - 1 <= n + 1
           /\ first .. (first + t.maxConsecutive - 1) \subseteq D
      BY <2>10 DEF HasSeries
  <2>13. \A first, last \in 1 .. n + 1 :
           first .. last \subseteq D => last - first + 1 <= t.maxConsecutive
      BY <2>10 DEF NoneLonger
  <2>14. t.delayed > 0 => t.maxBacklog = t.maxSchedulingDelay - Period
      BY <1>17
  <2>15. t.delayed = Cardinality(LateBy(Period)')
      BY <2>9
  <2>16. Len(timeline)' = n + 1 /\ Cycles' = 1 .. n + 1
      BY <1>25
  <2> QED BY <2>5, <2>6, <2>7, <2>11, <2>12, <2>13, <2>14, <2>15, <2>16
          DEF DelaysAreCounted, IsSeries, t, a1, b1, c1, d1, e1, D
<1>19. SeenWherePinned' /\ PinnedNeverChanges'
  <2> SUFFICES ASSUME pinned'
               PROVE  /\ IsPinned(mask') /\ t.previousProcessor \in {ControlCpu, -1}
                      /\ t.processorChanges = 0
      BY DEF SeenWherePinned, PinnedNeverChanges, t
  <2>1. /\ pinned /\ mask \subseteq {ControlCpu, -1} /\ mask' = mask
        /\ s.previousProcessor \in {ControlCpu, -1} /\ s.processorChanges = 0
      BY <1>1, <1>3 DEF SeenWherePinned, PinnedNeverChanges, IsPinned
  <2>2. processor \in {ControlCpu, -1} /\ ControlCpu \in Nat
      BY <2>1, MasksAssumption
  <2>3. CASE processor < 0
      BY <1>6, <2>1, <2>3 DEF IsPinned
  <2>4. CASE ~(processor < 0)
    <3>1. processor = ControlCpu
        BY <2>2, <2>4, SMT
    <3>2. s.previousProcessor >= 0 => s.previousProcessor = processor
        BY <2>1, <2>2, <3>1, SMT
    <3> QED BY <1>6, <2>1, <2>4, <3>1, <3>2 DEF IsPinned
  <2> QED BY <2>3, <2>4
<1>20. SumTelescopes'
  <2>1. t.previousCycle = timeline'[t.measured].start
      BY <1>6, <1>7, <1>24
  <2>2. t.totalPeriod = t.previousCycle - timeline'[1].start
    <3>1. CASE s.measured = 0
      <4>1. s.totalPeriod = 0 /\ timeline'[1].start = start
        <5>1. s.measured <= 1 /\ n + 1 = 1
            BY <1>24, <3>1, SMT
        <5> QED BY <1>1, <1>24, <5>1 DEF SumTelescopes
      <4> QED BY <1>4, <1>7, <3>1, <4>1, SMT
    <3>2. CASE s.measured # 0
      <4>1. 1 \in 1 .. n /\ s.measured > 0
        <5>1. n \in Nat /\ s.measured = n
            BY <1>24
        <5> QED BY <3>2, <5>1, SMT
      <4>2. timeline'[1].start = timeline[1].start /\ timeline[1].start \in Nat
          BY <1>24, <4>1
      <4>3. s.totalPeriod = s.previousCycle - timeline[1].start
          BY <1>1, <4>1 DEF SumTelescopes
      <4> QED BY <1>4, <1>5, <1>7, <3>2, <4>2, <4>3, SMT
    <3> QED BY <3>1, <3>2
  <2>3. t.measured <= 1 => t.totalPeriod = 0 /\ t.maxPeriod = 0
    <3>1. t.measured <= 1 => s.measured = 0 /\ s.measured <= 1
        BY <1>5, <1>6, SMT
    <3> QED BY <1>1, <1>7, <3>1 DEF SumTelescopes
  <2> QED BY <2>1, <2>2, <2>3 DEF SumTelescopes, t
<1>21. PeriodsTelescope'
  <2> DEFINE periods == {PeriodBefore(k) : k \in Cycles \ {1}}
             period == start - s.previousCycle
  <2> SUFFICES ASSUME s.measured > 0
               PROVE  /\ t.totalPeriod = timeline'[n + 1].start - timeline'[1].start
                      /\ IsMinimum(t.minPeriod, periods')
                      /\ IsMaximum(t.maxPeriod, periods')
    <3>1. n + 1 > 1 => s.measured > 0
        BY <1>24, SMT
    <3> QED BY <1>25, <3>1 DEF PeriodsTelescope, IsMinimum, IsMaximum, t
  <2>1. t.totalPeriod = timeline'[n + 1].start - timeline'[1].start
    <3>1. t.measured > 0 /\ t.measured = n + 1
        BY <1>5, <1>6, <1>24, SMT
    <3> QED BY <1>20, <3>1 DEF SumTelescopes, t
  <2>2. /\ periods \in SUBSET Int /\ (periods = {} <=> s.measured = 1)
        /\ periods' = periods \cup {period}
      BY <1>1, <1>2, <1>3, <1>4, PeriodStep
  <2>3. period \in Nat
      BY <1>1, <1>2, <1>4, <1>5, SMT DEF InOrder
  <2>4. periods # {} => IsMinimum(s.minPeriod, periods) /\ IsMaximum(s.maxPeriod, periods)
    <3>1. s.measured # 1 => Len(timeline) > 1
        BY <1>5, <1>24, SMT DEF n
    <3> QED BY <1>1, <2>2, <3>1 DEF PeriodsTelescope
  <2>5. periods = {} => s.maxPeriod = 0
    <3>1. s.measured = 1 => s.measured <= 1
        BY SMT
    <3> QED BY <1>1, <2>2, <3>1 DEF SumTelescopes
  <2>6. /\ t.minPeriod = IF periods = {} \/ period < s.minPeriod THEN period ELSE s.minPeriod
        /\ t.maxPeriod = MaxOf(s.maxPeriod, period)
    <3>1. s.measured # 0
        BY SMT
    <3> QED BY <1>7, <2>2, <3>1
  <2> HIDE DEF periods, period
  <2>7. IsMinimum(IF periods = {} \/ period < s.minPeriod THEN period ELSE s.minPeriod,
                  periods \cup {period})
    <3>1. period \in Int
        BY <2>3, SMT
    <3> QED BY <2>2, <2>4, <3>1, MinimumStep
  <2>8. IsMaximum(MaxOf(s.maxPeriod, period), periods \cup {period})
      BY <1>5, <2>2, <2>3, <2>4, <2>5, MaximumStep
  <2> QED BY <2>1, <2>2, <2>6, <2>7, <2>8
<1> QED BY <1>12, <1>13, <1>14, <1>16, <1>17, <1>18, <1>19, <1>20, <1>21 DEF TimingInv

-----------------------------------------------------------------------------
(* The other steps leave the statistics alone. *)

LEMMA NextRunKeepsInv ==
    ASSUME TimingInv, NEW gap \in IdleGaps, NextRun(gap)
    PROVE  TimingInv'
<1>1. /\ UNCHANGED <<nextCycle, stats, origin, timeline>> /\ now' = now + gap
      /\ mask' \in Masks /\ pinned' = (pinned /\ IsPinned(mask'))
    BY DEF NextRun, OnControlThreadStart
<1>2. Typed /\ InOrder /\ gap \in Nat
    BY DelaysAssumption DEF TimingInv
<1>3. now \in Nat /\ stats.previousEnd \in Nat /\ now' = now + gap
    BY <1>1, <1>2, CountersAreNat DEF Typed
<1>4. now' \in Nat /\ now <= now'
    BY <1>2, <1>3, SMT
<1>5. Typed'
    BY <1>1, <1>2, <1>4 DEF Typed
<1>6. InOrder'
    BY <1>1, <1>2, <1>3, <1>4, SMT DEF InOrder
<1>7. SeenWherePinned' /\ PinnedNeverChanges'
    BY <1>1 DEF TimingInv, SeenWherePinned, PinnedNeverChanges
<1>8. NoDrift' /\ BacklogFollowsDelay' /\ SumTelescopes'
    BY <1>1 DEF TimingInv, NoDrift, BacklogFollowsDelay, SumTelescopes
<1>9. MissesAreExplained' /\ DelaysAreCounted' /\ PeriodsTelescope'
    BY <1>1, TimelineStays DEF TimingInv
<1> QED BY <1>5, <1>6, <1>7, <1>8, <1>9 DEF TimingInv

LEMMA ResetKeepsInv ==
    ASSUME TimingInv, Reset
    PROVE  TimingInv'
<1>1. /\ UNCHANGED <<now, stats, mask, timeline, pinned>>
      /\ nextCycle' = now /\ origin' = now - stats.measured * Period
    BY DEF Reset
<1>2. Typed /\ now \in Nat /\ stats.measured \in Nat /\ Period \in Nat
    BY CountersAreNat, PeriodAssumption DEF TimingInv, Typed
<1>3. stats.measured * Period \in Int
  <2>1. stats.measured \in Int /\ Period \in Int
      BY <1>2, SMT
  <2> QED BY <2>1, ProductStep
<1>4. NoDrift' /\ origin' \in Int /\ nextCycle' \in Nat
  <2>1. origin' \in Int /\ nextCycle' = origin' + stats.measured * Period
      BY <1>1, <1>2, <1>3, SMT
  <2> QED BY <1>1, <1>2, <2>1 DEF NoDrift
<1>5. Typed'
    BY <1>1, <1>2, <1>4 DEF Typed
<1>6. InOrder' /\ SeenWherePinned' /\ PinnedNeverChanges'
    BY <1>1 DEF TimingInv, InOrder, SeenWherePinned, PinnedNeverChanges
<1>7. BacklogFollowsDelay' /\ SumTelescopes'
    BY <1>1 DEF TimingInv, BacklogFollowsDelay, SumTelescopes
<1>8. MissesAreExplained' /\ DelaysAreCounted' /\ PeriodsTelescope'
    BY <1>1, TimelineStays DEF TimingInv
<1> QED BY <1>4, <1>5, <1>6, <1>7, <1>8 DEF TimingInv

LEMMA StepKeepsTimingInv == TimingInv /\ [Next]_vars => TimingInv'
<1> SUFFICES ASSUME TimingInv, [Next]_vars PROVE TimingInv'
    OBVIOUS
<1>1. CASE \E delay \in WakeDelays, control \in ControlTimes, snapshot \in SnapshotTimes,
              processor \in mask : Cycle(delay, control, snapshot, processor)
    BY <1>1, CycleKeepsInv
<1>2. CASE \E gap \in IdleGaps : NextRun(gap)
    BY <1>2, NextRunKeepsInv
<1>3. CASE Reset
    BY <1>3, ResetKeepsInv
<1>4. CASE UNCHANGED vars
  <2>1. MissesAreExplained' /\ DelaysAreCounted' /\ PeriodsTelescope'
      BY <1>4, TimelineStays DEF vars, TimingInv
  <2> QED BY <1>4, <2>1 DEF vars, TimingInv, Typed, InOrder, NoDrift, BacklogFollowsDelay,
                            SeenWherePinned, PinnedNeverChanges, SumTelescopes
<1> QED BY <1>1, <1>2, <1>3, <1>4 DEF Next

(* What update() leaves behind after every cycle, run and reset (ControlLoop.cpp:363). *)
THEOREM TimingInvariant == Spec => []TimingInv
BY InitTimingInv, StepKeepsTimingInv, PTL DEF Spec

(* The schedule is absolute for every period and every lateness                       *)
(* (PortableControlScheduler.cpp:57).                                                 *)
THEOREM ScheduleIsAbsolute == Spec => []NoDrift
<1>1. TimingInv => NoDrift
    BY DEF TimingInv
<1> QED BY <1>1, TimingInvariant, PTL

(* The average, minimum and maximum that printTimingStatistics() reports of the periods *)
(* are those of the true periods, from the second cycle on (ControlLoop.cpp:35-60).   *)
THEOREM AverageIsExact == Spec => []PeriodsTelescope
<1>1. TimingInv => PeriodsTelescope
    BY DEF TimingInv
<1> QED BY <1>1, TimingInvariant, PTL

(* Exactly the cycles that ended after their deadline are counted, the classification  *)
(* is complete, exclusive and justified by the maxima reported beside it, and the       *)
(* minimum margin is that of a cycle (ControlLoop.cpp:192-265).                         *)
THEOREM MissesHaveCauses == Spec => []MissesAreExplained
<1>1. TimingInv => MissesAreExplained
    BY DEF TimingInv
<1> QED BY <1>1, TimingInvariant, PTL

(* Histogram, delayed cycles, backlog, the current and the longest series of delayed    *)
(* cycles are those of the timeline, with any period (ControlLoop.cpp:62-104).         *)
THEOREM LatenessViewsAgree == Spec => []DelaysAreCounted
<1>1. TimingInv => DelaysAreCounted
    BY DEF TimingInv
<1> QED BY <1>1, TimingInvariant, PTL

(* A pinned worker is never reported to have moved, in any number of runs.             *)
THEOREM PinnedStaysPut == Spec => []PinnedNeverChanges
<1>1. TimingInv => PinnedNeverChanges
    BY DEF TimingInv
<1> QED BY <1>1, TimingInvariant, PTL
=============================================================================
