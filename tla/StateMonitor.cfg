CONSTANTS
    c1 = c1
    c2 = c2
    NoReader = NoReader
    Readers = {c1, c2}
    WordCount = 2
    MaxReadAttempts = 3
    MaxPublications = 2
SPECIFICATION MonitorFairSpec
INVARIANTS
    BufferInv
    ReturnsOnePublication
    FreshAfterCompletedCycles
PROPERTIES
    AtomicSpec
    MonitorNeverGoesBack
    StateMutexIsReleased
