SPECIFICATION FairSpec
CONSTANTS
    admin = admin
    boss = boss
    nobody = nobody
    Accounts = {admin, boss}
    Admin = admin
    Nobody = nobody
    MaxCalls = 2
    MaxDialogs = 4
    MaxRestarts = 1
INVARIANTS
    TypeOK
    SessionAgrees
    ScreensKnowTheirUser
PROPERTIES
    LoginTakesEffect
CHECK_DEADLOCK FALSE
