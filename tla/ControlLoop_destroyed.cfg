CONSTANTS
    c1 = c1
    c2 = c2
    NoClient = NoClient
    Clients = {c1, c2}
    CycleCounts <- SomeCounts
    MaxRunCalls = 3
    ThreadCreationMayFail = FALSE
    DestroyWhenBusy = TRUE
SPECIFICATION Spec
INVARIANT NoUseAfterLifetime
