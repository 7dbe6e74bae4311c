SPECIFICATION RunSpec
CONSTANTS
    r1 = r1
    r2 = r2
    Run <- MCRun
    Batch <- MCBatch
    Size <- MCSize
    MaxRuntimes = 1
    MaxWorkers = 2
    Paced = TRUE
INVARIANT AuditStageHonest
