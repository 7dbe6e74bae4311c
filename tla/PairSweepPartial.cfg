SPECIFICATION SweepSpec
CONSTANTS
    Pair = {p1, p2, p3}
    Selection = { {p1, p2, p3} }
    MaxWorkers = 2
    FailureBudget = 2
    ChecksContext = TRUE
INVARIANT PublishedComplete
CHECK_DEADLOCK FALSE
