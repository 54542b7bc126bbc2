CONSTANTS
    MaxCommands = 2
    MaxForeign = 1
    MaxStarts = 2
    ThreadCreationMayFail = TRUE
SPECIFICATION FairSpec
INVARIANTS
    QueueIsBounded
    CommandsKeepOrder
    ThreadIsOwned
PROPERTIES
    TargetNeverGoesBack
    StopReturns
    CommandsTakeEffect
