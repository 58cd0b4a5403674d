SPECIFICATION Spec
CONSTANTS
    Rows <- TwoRows
    Users <- OneUser
    Staff = {lib}
    Workers <- TwoWorkers
    Recipient <- ToOne
    Path <- MixedPaths
    MaxAttempts = 2
    MaxStored = 4
    MaxVersion = 3
    MaxProfile = 1
    MaxFaults = 1
    LeaseTime = 1
    Backoffs = {1}
    LastInstant = 2
    Idle = Idle
    NoRow = NoRow
    NoWorker = NoWorker
    lib = lib
    w1 = w1
    w2 = w2
CHECK_DEADLOCK FALSE
INVARIANTS
    DisconnectRespected
