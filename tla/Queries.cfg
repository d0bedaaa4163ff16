SPECIFICATION FairSpec
CONSTANTS
    MaxCalls = 3
    MaxChanges = 1
    MaxBreaks = 1
INVARIANTS
    TypeOK
    AnswersAreFresh
    NoAssertionFails
PROPERTIES
    EveryQueryIsAnswered
CHECK_DEADLOCK FALSE
