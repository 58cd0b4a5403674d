SPECIFICATION Spec
CONSTANTS
    Rows <- TwoRows
    Users <- OneUser
    Staff = {lib}
    Workers <- TwoWorkers
    Recipient <- ToOne
    Path <- MixedPaths
    MaxAttempts = 1
    MaxStored = 5
    MaxVersion = 1
    MaxProfile = 3
    MaxFaults = 1
    LeaseTime = 1
    Backoffs = {1}
    LastInstant = 1
    Idle = Idle
    NoRow = NoRow
    NoWorker = NoWorker
    lib = lib
    w1 = w1
    w2 = w2
CHECK_DEADLOCK FALSE
PROPERTIES
    QueueMoves
