SPECIFICATION MCFileSpec
CONSTANTS
    u1 = u1
    u2 = u2
    a1 = a1
    t1 = t1
    t2 = t2
    r1 = r1
    r2 = r2
    h1 = h1
    h2 = h2
    Null = Null
    Users = {u1, u2}
    Apps = {a1}
    Targets = {t1}
    Owner <- MCOwner
    DatabaseEnable = FALSE
    Requests = {r1, r2}
    Handlers = {h1, h2}
    Concurrency = 2
    MaxRetry = 1
    MaxOutages = 0
    MaxEdits = 0
    Inputs <- MCPairInputs
SYMMETRY Symmetry
INVARIANTS
    AttemptsAddUp
    OneOwner
    GivenUpWithCause
    AnswersFitRows
    OnceUnlessDisturbed
PROPERTIES
    PromisedSafely
CHECK_DEADLOCK FALSE
