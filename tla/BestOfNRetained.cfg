SPECIFICATION BonSpec
CONSTANTS
    Attempts = 2
    Resumer = {}
    Offline = Offline
    None = None
    MaxChanges = 0
INVARIANT RetainedReported
CHECK_DEADLOCK FALSE
