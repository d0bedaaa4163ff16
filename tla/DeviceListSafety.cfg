SPECIFICATION Spec
CONSTANTS
    r1 = r1
    r2 = r2
    d1 = d1
    d2 = d2
    Ids = {d1}
    Periods = {1, 10002}
    Turns <- LastWheel
    Requests = {r1, r2}
    FilterClasses = {"urgent"}
    MaxHours = 1
    MaxLoads = 2
    MaxVisits = 2
    MaxFaults = 1
SYMMETRY Alike
INVARIANTS
    TypeOK
    ListAgreesWithCloud
    LabelsShowDevice
    RowsAreFiltered
    SpinnerAwaitsAnswer
    DeviceIsLoadedUnlessRefreshFails
    PeriodIsChosen
CHECK_DEADLOCK FALSE
