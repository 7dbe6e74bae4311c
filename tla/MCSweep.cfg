SPECIFICATION WorkersSpec
CONSTANTS
    Pair = {p1, p2, p3, p4, p5}
    Selection = { {p1, p2, p3}, {p1, p2, p3, p4, p5} }
    MaxWorkers = 2
    FailureBudget = 3
    ChecksContext = TRUE
    Worker = {w1, w2, w3}
    MaxCalls = 1
    MaxAttempts = 2
    MaxConcurrent = 1
    MaxDuration = 0
    Horizon = 0
    Limit <- MCLimit
    Reservation <- MCReservation
    Actual <- LiveActual
INVARIANTS SweepSound SmallPublishedComplete
PROPERTIES FatalIsFinal SelectionEnds WaiterServed
CHECK_DEADLOCK FALSE
