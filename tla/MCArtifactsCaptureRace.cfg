SPECIFICATION ArtifactSpec
CONSTANTS
    Capture = {c1, c2}
    Call = {i1}
    Key = {"k1", "k2"}
    Original <- OriginalFiles
    Crashes = 1
    Clerk = {p1, p2}
    Target <- Targets
    Core = {"packet"}
    Assessment = {"passed", "failed"}
    InspectedAt = {"t1"}
    MaxEvents = 3
    Genesis = Genesis
    Nothing = Nothing
    Publisher = {x1, x2, x3}
    NoFile = NoFile
    PowerCuts = 1
    Creator = {o1, o2, o3}
    NoRoot = NoRoot
    Kills = 1
    Runner = {r1, r2}
    Permit = {"k1", "k2"}
    Partition = {"x"}
    PartitionOf <- Partitions
    Window <- Windows
    Cell = {"c1", "c2"}
    Admission <- Admissions
    MaxTime = 1
    MaxLosses = 1
    NoDocument = NoDocument
    Packet = {a, b}
    Outcome = {success, failure}
    Invited <- Reviewers
    Unresolved = Unresolved
    NoTieBreak = NoTieBreak
    MaxNow = 3
    MaxBatches = 4
    MaxReveals = 1
    Attempts = 2
    Resumer = {z1}
    Offline = Offline
    None = None
    MaxChanges = 1
    MaxLedgers = 2
INVARIANT ConcurrentChangeRejected
CHECK_DEADLOCK FALSE
