SPECIFICATION MCSpec
CONSTANTS
    u1 = u1
    u2 = u2
    a1 = a1
    t1 = t1
    t2 = t2
    r1 = r1
    r2 = r2
    h1 = h1
    h2 = h2
    Null = Null
    Users = {u1, u2}
    Apps = {a1}
    Targets = {t1, t2}
    Owner <- MCOwner
    DatabaseEnable = TRUE
    Requests = {r1}
    Handlers = {h1, h2}
    Concurrency = 2
    MaxRetry = 1
    MaxOutages = 1
    MaxEdits = 1
    Inputs <- MCInputs
SYMMETRY HandlerSymmetry
INVARIANTS
    AnswersAreHonest
    DoneMeansDelivered
    GivenUpWithCause
    StatsBacked
    TypeOK
    AttemptsAddUp
    DuplicatesExcused
    OneOwner
    StatsExact
    DeliveriesBounded
PROPERTIES
    WritesOnlyWhileEnabled
    PromisedSafely
CHECK_DEADLOCK FALSE
