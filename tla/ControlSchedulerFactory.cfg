CONSTANTS
    Period = 7
    Second = 10
    Offset = 13
    StartTimes <- AllTicksOfASecond
    BaseGaps = {0, 1, 2}
    ClockGaps = {0, 1, 2}
    SpinWindow = 2
    Resolution = 3
    TimerMayFail = TRUE
    MaxTime = 29
SPECIFICATION FactorySpec
INVARIANTS
    TargetIsScheduled
    RejectedOnlyBeforeStart
    SpinIsShort
    LatenessIsPartOfDelay
PROPERTY ImplementsSchedule
CHECK_DEADLOCK FALSE
