SPECIFICATION SweepSpec
CONSTANTS
    Pair = {p1, p2, p3}
    Selection = { {p1, p2, p3} }
    MaxWorkers = 2
    FailureBudget = 3
    ChecksContext = FALSE
INVARIANT PublishedComplete
CHECK_DEADLOCK FALSE
