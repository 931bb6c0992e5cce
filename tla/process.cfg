SPECIFICATION FairSpec
CONSTANTS
    m1 = m1
    m2 = m2
    Updates = {m1, m2}
    Kind <- MCKind
    LastDay = 2
    MaxRetry = 3
INVARIANTS HandledMeansLogged LinesAreDated WritesTakeTurns ShutdownIsComplete
PROPERTY NobodyWaitsForEver
CHECK_DEADLOCK FALSE
