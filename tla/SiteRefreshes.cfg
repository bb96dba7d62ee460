SPECIFICATION Spec
CONSTANTS
    f1 = f1
    f2 = f2
    p1 = p1
    p2 = p2
    s1 = s1
    s2 = s2
    Fields <- TwoFields
    Parcels <- TwoParcels
    Scenarios <- OneScenario
    BatchLimit = 2
    Requests <- First
    Values <- Decisive
    MaxSnapshots = 3
    MaxLookups = 1
    MaxPlans = 2
    MaxRevisions = 2
    MaxExpiries = 2
    MaxFaults = 1
CHECK_DEADLOCK FALSE
SYMMETRY ParcelSymmetry
INVARIANT FetchedOnce
INVARIANT EvidenceIsTraceable
PROPERTY RefreshRevalidates
