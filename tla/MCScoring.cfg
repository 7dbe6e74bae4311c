SPECIFICATION ScoringSpec
CONSTANTS
    s1 = s1
    s2 = s2
    k1 = k1
    Scorer <- MCScorer
    Key <- MCKey
    KeyOf <- MCKeyOf
    g1 = g1
    g2 = g2
    Setter <- MCSetter
    Clearer = {e1, e2}
    Route = {1, 2}
    Requests <- MCRequests
    MaxKills = 1
    MaxWorkers = 2
    MaxRetries = 1
    TransportRetries = 2
    ExtractionRetries = 1
    MaxCalls = 3
    MaxAttempts = 6
    MaxConcurrent = 1
INVARIANTS ScoringSound SlotsExact StrictEvidence EarnedEvidenceFailure AttemptsAudited ClearExact
PROPERTIES OnlyStrictIsCached CallsReturn StoresAtomically
