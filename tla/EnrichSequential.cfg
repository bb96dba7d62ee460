SPECIFICATION FairSpec
CONSTANTS
    c1 = c1
    c2 = c2
    NumCandidates = 2
    Coordinates <- SecondIsPoint
    Calls <- OneCall
    MaxOverlaps = 0
    BatchSize = 1
    MaxPlans = 2
    MaxDecisions = 1
    MaxCrashes = 1
INVARIANT TypeOK
INVARIANT DecisionsStand
PROPERTY SpendingOnce
PROPERTY CallsReturn
