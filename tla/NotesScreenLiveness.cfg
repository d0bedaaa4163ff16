SPECIFICATION FairSpec
CONSTANTS
    a = a
    b = b
    r1 = r1
    r2 = r2
    r3 = r3
    Requests = {r1, r2}
    Comments = {a, b}
    Periods = {1}
    MaxTime = 1
    MaxHours = 0
    InitialNotes = 1
    MaxFaults = 1
PROPERTIES
    BackComesBack
CHECK_DEADLOCK FALSE
