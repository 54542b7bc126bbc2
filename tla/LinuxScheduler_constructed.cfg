CONSTANTS
    Period = 4
    Second = 10
    Offset = 13
    StartTimes <- AllTicksOfASecond
    BaseGaps = {0, 1, 2}
    ClockGaps = {0, 1, 2}
    MaxTime = 35
SPECIFICATION Spec
INVARIANT WaitNeverThrows
CHECK_DEADLOCK FALSE
