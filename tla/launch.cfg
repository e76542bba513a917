\* One `rodeo run --place`, called in nine ways and disturbed.
CONSTANTS
    s1 = s1
    b1 = b1
    Sessions = {s1}
    Backends = {b1}
    Home <- AtHome
    Configs <- AllCalls
SPECIFICATION FairSpec
INVARIANTS
    TypeOK
    SuccessIsSaved
    ClosedIsDead
    DeadStaysDead
PROPERTIES
    LaunchAnswered
    StudioGoesWithRun
    LeavesNothing
CHECK_DEADLOCK FALSE
