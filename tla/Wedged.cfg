SPECIFICATION FairSpec
CONSTANTS
    x1 = x1
    x2 = x2
    p1 = p1
    Null = Null
    Order <- MCOne
    Xmpp = {x1}
    Callers = {"w1"}
    Clients = {"c1", "c2"}
PROPERTIES
    Recovers
CHECK_DEADLOCK FALSE
