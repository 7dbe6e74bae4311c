SPECIFICATION ServiceFairSpec
CONSTANTS
    i1 = i1
    i2 = i2
    r1 = r1
    Id = {i1, i2}
    Run <- MCRun
    Batch <- MCBatch
    Size <- MCSize
    Served = {i1}
    Direct <- MCRun
    MaxRuntimes = 1
    MaxWorkers = 2
    Paced = TRUE
INVARIANTS ServiceSound SilenceOnlyWhenRevoked ReportsTruthful CompletedWorkAnswered DrainReleasesRuns
PROPERTIES CallsResolved ServeEnds NoDispatchAfterStop RunsEnd
CHECK_DEADLOCK FALSE
