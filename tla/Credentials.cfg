SPECIFICATION FairSpec
CONSTANTS
    admin = admin
    boss = boss
    nobody = nobody
    w1 = w1
    w2 = w2
    Accounts = {admin, boss}
    Nobody = nobody
    Writes = {w1}
    MaxChanges = 2
    MaxFaults = 1
INVARIANTS
    TypeOK
    StreamActsForItsUser
    WritesGoOutUnderTheirUser
    TokensAreAwaited
PROPERTIES
    HandlersWaitForTheirUser
CHECK_DEADLOCK FALSE
