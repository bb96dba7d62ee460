SPECIFICATION Spec
CONSTANTS
    c1 = c1
    c2 = c2
    NumCandidates = 1
    Coordinates = {}
    Calls <- TwoCalls
    MaxOverlaps = 1
    BatchSize = 1
    MaxPlans = 2
    MaxDecisions = 2
    MaxCrashes = 1
SYMMETRY CallSymmetry
INVARIANT FetchOnlyApproved
INVARIANT ApprovalIsGenuine
INVARIANT PlanAgreesWithOperation
PROPERTY GatedSpending
