CONSTANTS
    Me = Me
    Clients = {Me}
    CycleCount = 4
    CycleCounts = {4}
    MaxRunCalls = 1
    ThreadCreationMayFail = TRUE
    DestroyWhenBusy = TRUE
    NoClient = NoClient
SPECIFICATION MainFairSpec
INVARIANT NothingLeftBehind
PROPERTIES
    PollingSuffices
    MainReturns
