SPECIFICATION Spec
CONSTANTS
    c1 = c1
    c2 = c2
    NumCandidates = 1
    Coordinates = {}
    Calls <- TwoCalls
    MaxOverlaps = 1
    BatchSize = 1
    MaxPlans = 1
    MaxDecisions = 1
    MaxCrashes = 0
SYMMETRY CallSymmetry
INVARIANT OnePaymentPerApproval
