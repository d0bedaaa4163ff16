SPECIFICATION Spec
CONSTANTS
    a = a
    b = b
    r1 = r1
    r2 = r2
    r3 = r3
    Requests = {r1, r2, r3}
    Comments = {a, b}
    Periods = {1}
    MaxTime = 1
    MaxHours = 0
    InitialNotes = 1
    MaxFaults = 2
SYMMETRY Alike
INVARIANTS
    TypeOK
    NothingVanishes
    BackOnlyWhenSettled
    EditingCanEnd
    NoPhantoms
    CommentsAgree
    TableShowsNotes
CHECK_DEADLOCK FALSE
