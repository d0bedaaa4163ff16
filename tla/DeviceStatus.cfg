SPECIFICATION Spec
CONSTANTS
    MaxOperationTime = 220
    Periods <- ManyPeriods
INVARIANTS
    TypeOK
    LimitsAreExact
PROPERTIES
    UrgencyIsMonotone
