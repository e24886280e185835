SPECIFICATION Spec
CONSTANTS
    x1 = x1
    x2 = x2
    p1 = p1
    Null = Null
    Order <- MCOne
    Xmpp = {x1}
    Callers = {"w1", "w2"}
    Clients = {"c1", "c2", "c3"}
INVARIANTS
    NothingLeaks
CHECK_DEADLOCK FALSE
