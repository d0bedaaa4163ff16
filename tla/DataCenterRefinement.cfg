SPECIFICATION FairSpec
CONSTANTS
    a = a
    c1 = c1
    c2 = c2
    r1 = r1
    r2 = r2
    r3 = r3
    Clients = {c1, c2}
    Requests = {r1, r2}
    Caller <- MCOneCallEach
    Kinds <- AllKinds
    Comments = {a}
    Periods = {1, 2}
    MaxTime = 1
    MaxHours = 1
    MaxFaults = 2
    MaxRestarts = 0
    RetryCount = 1
    MaxPendingWrites = 2
INVARIANTS
    TypeOK
    CleanFailure
PROPERTIES
    ImplementsLog
    EveryCallIsAnswered
CHECK_DEADLOCK FALSE
