CONSTANTS
    Period = 10
    WakeDelays <- SomeDelays
    ControlTimes <- SomeControlTimes
    SnapshotTimes = {1}
    StartupTimes <- SomeGaps
    IdleGaps <- SomeGaps
    Masks <- PinnedOrNot
    ControlCpu = 0
    MaxCycles = 3
SPECIFICATION Spec
INVARIANT DelayedMeansLate
CHECK_DEADLOCK FALSE
