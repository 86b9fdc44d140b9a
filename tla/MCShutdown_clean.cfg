SPECIFICATION FairSpec
CONSTANTS
    mainServer = mainServer
    redirect = redirect
    s1 = s1
    s2 = s2
    Main = mainServer
    Servers = {mainServer, redirect}
    Subs = {s1, s2}
    MaxSignals = 2
INVARIANTS
    TypeOK
    WaitGroupExact
    CleanExit
PROPERTY
    ShutdownEnds
CHECK_DEADLOCK FALSE
