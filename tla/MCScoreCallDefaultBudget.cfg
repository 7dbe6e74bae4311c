SPECIFICATION Spec
CONSTANTS
    s1 = s1
    s2 = s2
    k1 = k1
    Scorer <- MCScorer
    Key <- MCKey
    KeyOf <- MCKeyOf
    MaxWorkers = 2
    MaxRetries = 1
    TransportRetries = 1
    ExtractionRetries = 3
    MaxCalls = 2
    MaxAttempts = 4
    MaxConcurrent = 2
INVARIANT DefaultBudgetSuffices
