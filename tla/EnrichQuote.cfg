SPECIFICATION Spec
CONSTANTS
    c1 = c1
    c2 = c2
    NumCandidates = 2
    Coordinates = {}
    Calls <- OneCall
    MaxOverlaps = 0
    BatchSize = 2
    MaxPlans = 2
    MaxDecisions = 2
    MaxCrashes = 0
INVARIANT FetchStaysWithinQuote
