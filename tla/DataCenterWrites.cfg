SPECIFICATION Spec
CONSTANTS
    a = a
    c1 = c1
    c2 = c2
    r1 = r1
    r2 = r2
    r3 = r3
    Clients = {c1, c2}
    Requests = {r1, r2, r3}
    Caller <- MCCaller
    Kinds <- LogKinds
    Comments = {a}
    Periods = {1}
    MaxTime = 1
    MaxHours = 0
    MaxFaults = 1
    MaxRestarts = 1
    RetryCount = 0
    MaxPendingWrites = 1
INVARIANTS
    NotesAreKept
    ServicesAreLogged
    NoDoubleEntries
    WritesStayInOrder
    AnswersComeInOrder
CHECK_DEADLOCK FALSE
