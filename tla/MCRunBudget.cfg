SPECIFICATION Spec
CONSTANTS
    Worker = {w1, w2, w3}
    MaxCalls = 1
    MaxAttempts = 3
    MaxConcurrent = 2
    MaxDuration = 2
    Horizon = 2
    Limit <- MCLimit
    Reservation <- MCReservation
    Actual <- MCActual
SYMMETRY Symmetry
INVARIANTS TypeOK ConcurrencyExact DurableAccounting ChargesBalance OverrunOnlyByReports
PROPERTIES DeadlineSurvivesRestart ImplementsQuota
CHECK_DEADLOCK FALSE
