SPECIFICATION Spec
CONSTANTS
    MaxCalls = 3
    MaxChanges = 0
    MaxBreaks = 1
INVARIANTS
    ActiveTargetsAreAnswered
CHECK_DEADLOCK FALSE
