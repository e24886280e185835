SPECIFICATION FairSpec
CONSTANTS
    x1 = x1
    x2 = x2
    p1 = p1
    Null = Null
    Order <- MCBoth
    Xmpp = {x1, x2}
    Callers = {"w1", "w2"}
    Clients = {"c1", "c2", "c3"}
INVARIANTS
    TypeOK
    LeaksNeedARace
    StartupCleansUp
    ResultsAreHonest
    ShutdownReachesAllUnlessRefused
PROPERTIES
    RecoversUnlessRefused
CHECK_DEADLOCK FALSE
